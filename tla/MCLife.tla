------------------------------ MODULE MCLife ------------------------------
EXTENDS JbpfLifecycle, TLC

CONSTANTS w1, c1, c2, a

AllProcs == {"main", "io", "maint", "agent", w1}
\* One client loads the codeletset, the other unloads it.
LoadAndUnload == (c1 :> <<"load", a>>) @@ (c2 :> <<"unload", a>>)
\* All but the I/O of another process together with the server, which has a
\* descriptor for one of the two clients or for both.
SomeConfigs == {[ioThread |-> i, server |-> FALSE, fds |-> 0] : i \in BOOLEAN}
               \cup {[ioThread |-> TRUE, server |-> TRUE, fds |-> n] : n \in {1, 2}}
=============================================================================
