------------------------------ MODULE MCBackends ------------------------------
(* Backends on a small instance: each backend with two ops on one socket, and *)
(* select also with the socket's number past FD_SETSIZE.                      *)
EXTENDS Backends

OnSocket(b, size) == [be |-> b, face |-> [f \in Fd |-> {"in", "out", "err"}], setsize |-> size]

MCRing ==
  {OnSocket(b, 2) : b \in {"epoll", "kqueue", "libkqueue", "select"}}
  \cup {OnSocket("select", 1)}
  \cup {[be |-> "dispatch", face |-> [f \in Fd |-> {"in", "out"}], setsize |-> 2]}
=============================================================================
