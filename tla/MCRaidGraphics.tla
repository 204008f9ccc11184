--------------------------- MODULE MCRaidGraphics ---------------------------
(***************************************************************************)
(* Command lines of raid-graphics.py for TLC.                              *)
(***************************************************************************)
EXTENDS RaidGraphics

\* All queues of n requests for the addresses of addrs.
Queues(n, addrs) == [1 .. n -> [op : {Read, Write}, addr : addrs]]

Run(m, q, w, speed) == [mapping |-> m, addr |-> q, window |-> w, seek_speed |-> speed]

R(a) == [op |-> Read, addr |-> a]
W(a) == [op |-> Write, addr |-> a]

\* Striping and mirroring: all queues of three requests for two addresses of one
\* disk (pair); parity: all queues of three requests for two addresses of one
\* stripe and one of the next; windows that hold the queue back and not, on the
\* parity levels also one that keeps parity updates apart; the
\* twenty writes of example-parity-sequential-write.sh; a longer
\* RAID-5 queue with a slow head; and no request at all ("-A 0,-1,0").
AllMappings ==
       {Run(0, q, w, 20) : q \in Queues(3, {0, 4}), w \in {-1, 1}}
  \cup {Run(1, q, w, 20) : q \in Queues(3, {0, 2}), w \in {-1, 2}}
  \cup {Run(m, q, w, 20) : m \in {4, 5}, q \in Queues(3, {0, 1, 3}), w \in {-1, 1, 2}}
  \cup {Run(4, [i \in 1 .. 20 |-> W(i - 1)], -1, 4)}
  \cup {Run(5, <<W(0), W(1), W(2), W(3), R(9), W(7)>>, 3, 4)}
  \cup {Run(0, <<>>, -1, 20)}

\* All queues of two requests, to be run under every placement of the keys.
KeyRuns ==
  {Run(m, q, w, 20) : m \in {1, 4, 5}, q \in Queues(2, {0, 1}), w \in {-1, 1}}

\* -m 4 -a r0,r1,r2
SequentialReads == {Run(4, <<R(0), R(1), R(2)>>, -1, 4)}

\* -m 4 -a r0,r3,r6,w9,w10,w11
BusyDataDisk == {Run(4, <<R(0), R(3), R(6), W(9), W(10), W(11)>>, -1, 4)}
=============================================================================
