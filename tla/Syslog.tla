------------------------------- MODULE Syslog -------------------------------
(***************************************************************************)
(* The syslog input (src/inputs/syslog.rs): one UDP socket, or a listener  *)
(* that gives each TCP or TLS connection a task of its own, up to          *)
(* max_connections of them.  A task reads newline-framed messages until    *)
(* the peer closes, sends something the codec refuses, or is silent for    *)
(* idle_timeout_secs; a TLS handshake has handshake_timeout_secs.  What a  *)
(* peer writes is a sequence of frames; a UDP sender is a connection whose *)
(* frames are its datagrams, each a sequence of lines.                     *)
(***************************************************************************)
EXTENDS Naturals, Sequences, FiniteSets

CONSTANTS
  Connections,
  Peer,            (* [Connections -> the peer's address as accept sees it]*)
  Mapped,          (* [addresses -> the address it is mapped from, or it]  *)
  Scripts,         (* per stream, what the peer writes; per UDP sender,    *)
                   (* the datagrams, each a sequence of lines              *)
  Datagrams,
  Lists,           (* values of allowed_senders, as sets of addresses      *)
  max_connections,
  MaxFaults        (* bound: calls of accept and recv_from that fail       *)

(* What the codec makes of the bytes up to a newline: a message, an empty  *)
(* one, or an error (over MAX_MSG, or not UTF-8).                          *)
Frames == {"line", "blank", "refused"}

ASSUME FramesAssumption ==
  /\ \A s \in Scripts : s \in Seq(Frames)
  /\ \A d \in Datagrams : d \in Seq(Seq(Frames))
ASSUME ConnectionsAssumption == IsFiniteSet(Connections)
ASSUME CapAssumption == max_connections \in Nat \ {0} /\ MaxFaults \in Nat
ASSUME PeerAssumption ==
  /\ DOMAIN Peer = Connections
  /\ \A c \in Connections : Peer[c] \in DOMAIN Mapped
  /\ Lists \subseteq SUBSET {Mapped[a] : a \in DOMAIN Mapped}

VARIABLES
  protocol, allowed_senders,   (* the configuration                        *)
  script,    (* [Connections -> what the peer has yet to write]            *)
  silent,    (* peers that write nothing more and do not close             *)
  wire,      (* [Connections -> what is written and not read]              *)
  eof,       (* connections that the peer has closed                       *)
  backlog,   (* connections that are not accepted yet                      *)
  listener,  (* "running", "sleeping" after an error, "returned"           *)
  lines,     (* of the datagram in hand: the lines not handled             *)
  task,      (* [Connections -> where its task stands; UDP: its datagram]  *)
  permits,   (* of the semaphore `limit`                                   *)
  cancelled, pipeline,         (* the engine's token, the pipeline's end   *)
  faults

config == <<protocol, allowed_senders>>
peerv == <<script, silent, eof>>
engine == <<cancelled, pipeline>>
vars == <<config, peerv, wire, backlog, listener, lines, task, permits, engine, faults>>

States == {"absent", "backlog", "handshake", "reading", "sending", "closed"}
Open == {c \in Connections : task[c] \in {"handshake", "reading", "sending"}}
Stream == protocol \in {"tcp", "tls"}

TypeOK ==
  /\ protocol \in {"udp", "tcp", "tls"} /\ allowed_senders \in Lists
  /\ task \in [Connections -> States]
  /\ permits \in 0..max_connections
  /\ silent \subseteq Connections /\ eof \subseteq Connections
  /\ listener \in {"running", "sleeping", "returned"}
  /\ pipeline \in {"open", "closed"} /\ cancelled \in BOOLEAN
  /\ faults \in 0..MaxFaults

----------------------------------------------------------------------------
Init ==
  /\ protocol \in {"udp", "tcp", "tls"} /\ allowed_senders \in Lists
  /\ script \in [Connections -> IF protocol = "udp" THEN Datagrams ELSE Scripts]
  /\ silent = {} /\ eof = {}
  /\ wire = [c \in Connections |-> <<>>]
  /\ backlog = <<>> /\ listener = "running" /\ lines = <<>>
  /\ task = [c \in Connections |-> "absent"]
  /\ permits = max_connections
  /\ cancelled = FALSE /\ pipeline = "open"
  /\ faults = 0

(* Peers. *)
Connect(c) ==
  /\ Stream /\ task[c] = "absent" /\ listener # "returned"
  /\ task' = [task EXCEPT ![c] = "backlog"]
  /\ backlog' = Append(backlog, c)
  /\ UNCHANGED <<config, peerv, wire, listener, lines, permits, engine, faults>>

Write(c) ==
  /\ script[c] # <<>> /\ c \notin silent
  /\ Stream => task[c] \in {"reading", "sending"}
  /\ wire' = [wire EXCEPT ![c] = Append(@, Head(script[c]))]
  /\ script' = [script EXCEPT ![c] = Tail(@)]
  /\ UNCHANGED <<config, silent, eof, backlog, listener, lines, task, permits, engine, faults>>

Hang(c) ==
  /\ Stream /\ c \notin silent \cup eof
  /\ silent' = silent \cup {c}
  /\ UNCHANGED <<config, script, eof, wire, backlog, listener, lines, task, permits, engine, faults>>

HangUp(c) ==
  /\ Stream /\ c \in Open /\ c \notin silent \cup eof
  /\ eof' = eof \cup {c}
  /\ script' = [script EXCEPT ![c] = <<>>]
  /\ UNCHANGED <<config, silent, wire, backlog, listener, lines, task, permits, engine, faults>>

----------------------------------------------------------------------------
(* sender_allowed, on the canonical address. *)
canonicalize(a) == Mapped[a]
sender_allowed(a) == allowed_senders = {} \/ canonicalize(a) \in allowed_senders

(* run_tcp: one turn of the accept loop. *)
Turned(c) == task' = [task EXCEPT ![c] = "closed"] /\ UNCHANGED permits

Spawned(c) ==
  /\ task' = [task EXCEPT ![c] = IF protocol = "tls" THEN "handshake" ELSE "reading"]
  /\ permits' = permits - 1

Accept ==
  /\ listener = "running" /\ backlog # <<>>
  /\ LET c == Head(backlog) IN
       \/ ~sender_allowed(Peer[c]) /\ Turned(c)
       \/ sender_allowed(Peer[c]) /\ permits = 0 /\ Turned(c)
       \/ sender_allowed(Peer[c]) /\ permits > 0 /\ Spawned(c)
  /\ backlog' = Tail(backlog)
  /\ UNCHANGED <<config, peerv, wire, listener, lines, engine, faults>>

(* accept or recv_from fails: a sleep of 100 ms, during which nothing is   *)
(* selected.                                                               *)
ListenerFails ==
  /\ listener = "running" /\ lines = <<>> /\ faults < MaxFaults
  /\ listener' = "sleeping" /\ faults' = faults + 1
  /\ UNCHANGED <<config, peerv, wire, backlog, lines, task, permits, engine>>

Wake ==
  /\ listener = "sleeping" /\ listener' = "running"
  /\ UNCHANGED <<config, peerv, wire, backlog, lines, task, permits, engine, faults>>

(* The cancelled branch of the select; connections keep their tasks, and   *)
(* the ones still in the backlog are closed with the socket.               *)
Return ==
  /\ cancelled /\ listener = "running"
  /\ Stream \/ \A c \in Connections : task[c] # "sending"
  /\ lines = <<>>
  /\ listener' = "returned" /\ backlog' = <<>>
  /\ task' = [c \in Connections |-> IF task[c] = "backlog" THEN "closed" ELSE task[c]]
  /\ UNCHANGED <<config, peerv, wire, lines, permits, engine, faults>>

----------------------------------------------------------------------------
(* A connection's task.  Whatever ends it drops its permit.                *)
GivesBack == permits + 1

Ended(c) ==
  /\ task' = [task EXCEPT ![c] = "closed"]
  /\ permits' = GivesBack

(* The handshake, which does not watch the token, is done, fails or takes  *)
(* too long.                                                               *)
Shaken(c) ==
  /\ task[c] = "handshake" /\ c \notin silent \cup eof
  /\ task' = [task EXCEPT ![c] = "reading"]
  /\ UNCHANGED <<config, peerv, wire, backlog, listener, lines, permits, engine, faults>>

HandshakeFails(c) ==
  /\ task[c] = "handshake" /\ c \notin silent
  /\ Ended(c)
  /\ UNCHANGED <<config, peerv, wire, backlog, listener, lines, engine, faults>>

(* Variant: a silent peer is waited for.                                   *)
NoTimeout(c) == FALSE

TimesOut(c) == c \in silent

HandshakeTimesOut(c) ==
  /\ task[c] = "handshake" /\ TimesOut(c)
  /\ Ended(c)
  /\ UNCHANGED <<config, peerv, wire, backlog, listener, lines, engine, faults>>

(* read_stream: one frame. *)
Reads(c) == task' = [task EXCEPT ![c] = "sending"]

ReadFrame(c) ==
  /\ Stream /\ task[c] = "reading" /\ wire[c] # <<>>
  /\ wire' = [wire EXCEPT ![c] = Tail(@)]
  /\ \/ Head(wire[c]) = "line" /\ Reads(c) /\ UNCHANGED permits
     \/ Head(wire[c]) = "blank" /\ UNCHANGED <<task, permits>>
     \/ Head(wire[c]) = "refused" /\ Ended(c)
  /\ UNCHANGED <<config, peerv, backlog, listener, lines, engine, faults>>

ReadEof(c) ==
  /\ task[c] = "reading" /\ wire[c] = <<>> /\ c \in eof
  /\ Ended(c)
  /\ UNCHANGED <<config, peerv, wire, backlog, listener, lines, engine, faults>>

(* Variant: the timeout runs from the start of the connection.             *)
OpenFor(c) == TimesOut(c)

(* The timeout is for the next whole frame, so a peer that writes without  *)
(* ever ending a line is idle too.                                         *)
SilentFor(c) == wire[c] = <<>> /\ TimesOut(c)

IdleTimesOut(c) ==
  /\ task[c] = "reading" /\ SilentFor(c)
  /\ Ended(c)
  /\ UNCHANGED <<config, peerv, wire, backlog, listener, lines, engine, faults>>

SeesCancel(c) ==
  /\ cancelled /\ Stream /\ task[c] = "reading"
  /\ Ended(c)
  /\ UNCHANGED <<config, peerv, wire, backlog, listener, lines, engine, faults>>

----------------------------------------------------------------------------
(* run_udp: a datagram, then its lines one after the other.  While a line  *)
(* waits for the pipeline neither the socket nor the token is looked at.   *)
Receive(c) ==
  /\ protocol = "udp" /\ listener = "running" /\ lines = <<>>
  /\ \A d \in Connections : task[d] # "sending"
  /\ wire[c] # <<>>
  /\ wire' = [wire EXCEPT ![c] = Tail(@)]
  /\ IF sender_allowed(Peer[c])
       THEN /\ lines' = Head(wire[c])
            /\ task' = [d \in Connections |-> IF d = c THEN "reading" ELSE "absent"]
       ELSE UNCHANGED <<lines, task>>
  /\ UNCHANGED <<config, peerv, backlog, listener, permits, engine, faults>>

NextLine(c) ==
  /\ protocol = "udp" /\ task[c] = "reading" /\ lines # <<>>
  /\ lines' = Tail(lines)
  /\ IF Head(lines) = "line" THEN Reads(c) ELSE UNCHANGED task
  /\ UNCHANGED <<config, peerv, wire, backlog, listener, permits, engine, faults>>

----------------------------------------------------------------------------
(* tx.send: EventSender has the pipeline's end.  A refusal ends the task,  *)
(* or the UDP loop.                                                        *)
Sent(c) ==
  /\ task[c] = "sending" /\ pipeline = "open"
  /\ task' = [task EXCEPT ![c] = "reading"]
  /\ UNCHANGED <<config, peerv, wire, backlog, listener, lines, permits, engine, faults>>

SendFails(c) ==
  /\ task[c] = "sending" /\ pipeline = "closed"
  /\ IF Stream
       THEN Ended(c) /\ UNCHANGED <<listener, lines>>
       ELSE /\ listener' = "returned" /\ lines' = <<>>
            /\ task' = [task EXCEPT ![c] = "closed"] /\ UNCHANGED permits
  /\ UNCHANGED <<config, peerv, wire, backlog, engine, faults>>

(* Engine::stop cancels; run_pipeline drains and drops its receiver.       *)
Cancel ==
  /\ ~cancelled /\ cancelled' = TRUE
  /\ UNCHANGED <<config, peerv, wire, backlog, listener, lines, task, permits, pipeline, faults>>

PipelineEnds ==
  /\ cancelled /\ pipeline = "open" /\ pipeline' = "closed"
  /\ UNCHANGED <<config, peerv, wire, backlog, listener, lines, task, permits, cancelled, faults>>

Next ==
  \/ Accept \/ ListenerFails \/ Wake \/ Return \/ Cancel \/ PipelineEnds
  \/ \E c \in Connections :
       \/ Connect(c) \/ Write(c) \/ Hang(c) \/ HangUp(c)
       \/ Shaken(c) \/ HandshakeFails(c) \/ HandshakeTimesOut(c)
       \/ ReadFrame(c) \/ ReadEof(c) \/ IdleTimesOut(c) \/ SeesCancel(c)
       \/ Receive(c) \/ NextLine(c) \/ Sent(c) \/ SendFails(c)

(* The runtime runs every task that can move and fires every timer; a peer *)
(* that does not hang goes on with its handshake and its script, and then  *)
(* either closes or hangs; nobody has to connect or to stop the agent.     *)
Goes(c) == \/ Write(c) \/ Shaken(c) \/ HandshakeFails(c) \/ HandshakeTimesOut(c)
           \/ ReadFrame(c) \/ ReadEof(c) \/ IdleTimesOut(c) \/ Receive(c) \/ NextLine(c)
           \/ Sent(c) \/ SendFails(c)

Fairness ==
  /\ WF_vars(Accept) /\ WF_vars(Wake) /\ WF_vars(Return) /\ WF_vars(PipelineEnds)
  /\ \A c \in Connections :
       /\ WF_vars(Goes(c)) /\ WF_vars(SeesCancel(c))
       /\ WF_vars(task[c] \in {"handshake", "reading"} /\ script[c] = <<>>
                    /\ (Hang(c) \/ HangUp(c)))

Spec == Init /\ [][Next]_vars /\ Fairness

----------------------------------------------------------------------------
(* A connection does not hold its slot for ever, whatever its peer does    *)
(* and wherever its task stands when the agent is stopped; and run_udp     *)
(* works off every datagram it takes.                                      *)
EveryConnectionEnds ==
  /\ \A c \in Connections : (Stream /\ c \in Open) ~> c \notin Open
  /\ lines # <<>> ~> lines = <<>>

(* Before the agent is stopped, a task ends only when it has read every    *)
(* message that came in whole, or the codec has refused one: no timeout    *)
(* cuts off a peer whose messages wait behind a slow pipeline.             *)
NothingAbandoned ==
  [][\A c \in Connections :
       (Stream /\ c \in Open /\ ~cancelled /\ task'[c] = "closed")
         => wire[c] = <<>> \/ Head(wire[c]) = "refused"]_vars

=============================================================================
