------------------------------ MODULE MCSyslog ------------------------------
(* Two peers, one of which an IPv4 host reached through IPv6, and one slot *)
(* that both want when the list lets them.                                 *)
EXTENDS Syslog

MCConnections == 1..2
MCPeer == <<"mapped", "v4">>
MCMapped == [mapped |-> "host", v4 |-> "other"]
MCScripts == {<<"line", "blank", "line">>, <<"line", "refused", "line">>}
MCDatagrams == {<<>>, << <<"line", "blank", "line">>, <<"line">> >>}
MCLists == {{}, {"host"}}
=============================================================================
