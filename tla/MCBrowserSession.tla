--------------------------- MODULE MCBrowserSession ---------------------------
(* Instances of BrowserSession for TLC. *)
EXTENDS BrowserSession

CONSTANTS t1, t2, c1, c2

\* Two calls of one tab may share a refresh.
TwoCalls == [c \in {c1, c2} |-> t1]
==============================================================================
