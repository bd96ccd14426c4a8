------------------------------- MODULE MCEpoll -------------------------------
(* Epoll on small sets of channels and descriptors.                        *)
EXTENDS Epoll, TLC

\* Channels are alike, and so are descriptors.
Symmetry == Permutations(Channels) \cup Permutations(Fds)
==============================================================================
