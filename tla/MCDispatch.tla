---------------------------- MODULE MCDispatch ----------------------------
(* Small instances of Dispatch: every way of sniffing with both kinds of    *)
(* link, fake addresses where content is sniffed.                           *)
EXTENDS Dispatch

AllModes == {m \in ModeType : /\ m.sniff # "content" => ~m.fakeIP
                              /\ m.routeOnly => m.fakeIP \/ m.sniff = "content"
                              /\ m.user # "named" => ~m.fakeIP
                              /\ m.user = "none" => ~m.routeOnly}
Lists == {<<"address">>, <<"hidden", "dom">>, <<"dom", "invalid">>}
Protocols == {{}, {"tls"}}
=============================================================================
