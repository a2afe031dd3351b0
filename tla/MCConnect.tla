----------------------------- MODULE MCConnect -----------------------------
(* Where the addresses of two sessions may lead, for model checking        *)
(* Connect: the first receiver advertises its loopback and its LAN         *)
(* address, the second its LAN address only.                               *)
EXTENDS Connect

CONSTANTS s1, s2, lo, lan, wan, k1, k2

MCSession == {s1, s2}
MCConn == {<<s1, lo>>, <<s1, lan>>, <<s2, lan>>}

Route(lo1, lan1, lan2) ==
    [c \in MCConn |-> CASE c = <<s1, lo>> -> lo1 [] c = <<s1, lan>> -> lan1 [] OTHER -> lan2]

(* Both addresses lead home and the other sender there too; a loopback     *)
(* that leads to the other receiver, whose own sender gets through or is   *)
(* led astray in turn; a stranger on it.                                   *)
MCRoutes == {
    Route(s1, s1, s1), Route(s2, s1, s2), Route(s2, s1, s1), Route(Stranger, s1, None)}

(* Two codes, or one given out again. *)
MCCodings == {[s \in MCSession |-> k1], [s \in MCSession |-> IF s = s1 THEN k1 ELSE k2]}

(* One session with three addresses.                                       *)
MCSessionAlone == {s1}
MCConnAlone == {<<s1, lo>>, <<s1, lan>>, <<s1, wan>>}
MCRoutesAlone == {[c \in MCConnAlone |-> s1],
                  [c \in MCConnAlone |-> IF c[2] = lo THEN Stranger ELSE s1],
                  [c \in MCConnAlone |-> IF c[2] = wan THEN None ELSE s1]}
MCCodingsAlone == {[s \in MCSessionAlone |-> k1]}
=============================================================================
