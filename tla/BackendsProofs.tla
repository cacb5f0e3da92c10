---------------------------- MODULE BackendsProofs ----------------------------
(***************************************************************************)
(* The four readiness backends, for every set of ops and descriptors:      *)
(* their safety, and that each of them implements PollSet.                 *)
(*                                                                         *)
(* What makes it inductive is what the tables may say (RowInv). A row of a *)
(* descriptor without waiters may be about a file that is long closed and  *)
(* may say anything; a row with waiters lies within what the kernel        *)
(* watches, and the sides of the waiters within the row. So an arm that    *)
(* forgets idle rows first (EpollArms, KqueueArms) can go by the rest, and *)
(* it can fail only if the kernel has no room: a MOD for a row with        *)
(* waiters always finds its registration, because a parked op's descriptor *)
(* is open (OpenInv) and what is watched is of an open one. dispatch keeps *)
(* its rows exact instead.                                                 *)
(*                                                                         *)
(* AtTheDoor says where a knock is: with a thread that owes the signal, on *)
(* the semaphore, or with the waiter on its way in. EndInv follows the end *)
(* of a ring: handlers, sources and the pool are done with in this order.  *)
(***************************************************************************)
EXTENDS Backends, SharedLemmas

USE DEF be, Silent, Side

-----------------------------------------------------------------------------
(* The inductive invariant, in parts that share few variables.             *)

\* What the kernel knows; it watches no descriptor that is not open.
KernelInv ==
  /\ ring \in Ring
  /\ open \in [Fd -> BOOLEAN] /\ full \in BOOLEAN
  /\ rdy \in [Fd -> SUBSET {"in", "out", "err"}]
  /\ table \in [Fd -> SUBSET Side] /\ kset \in [Fd -> SUBSET Side]
  /\ \A f \in Fd : kset[f] # {} => open[f]

\* An op asks for something just while it waits.
OpsInv ==
  /\ at \in [Op -> {"free", "arming", "parked", "pool"}]
  /\ req \in [Op -> Requests \cup {Nothing}]
  /\ \A o \in Op : Waits(o) <=> req[o] # Nothing

\* Whoever the backend may still be told of, or is tried again, has its descriptor.
OpenInv ==
  \A o \in Op :
    at[o] = "arming" \/ (at[o] = "parked" /\ o \notin orphan) \/ o \in ready => open[req[o].fd]

Listed(f, s) == {o \in Parked \ orphan : req[o].fd = f /\ SideOf(req[o].want) = s}

ChainInv ==
  /\ chain \in [Fd -> [Side -> SUBSET Op]]
  /\ orphan \subseteq Parked /\ ready \subseteq Parked
  /\ be # "select" => \A f \in Fd, s \in Side : chain[f][s] = Listed(f, s)

\* An idle row may say anything. One with waiters claims no more than the kernel
\* watches, and all that they need; dispatch keeps sources for waiters only.
RowInv ==
  /\ be # "select" => \A f \in Fd :
       Behind(f) # {} =>
         /\ table[f] \subseteq kset[f]
         /\ \A s \in Side : chain[f][s] # {} => s \in table[f]
  /\ be = "dispatch" => \A f \in Fd :
       /\ kset[f] = table[f]
       /\ table[f] = {s \in Side : chain[f][s] # {}}

DoorTypes ==
  /\ hit \in [Fd -> SUBSET Side] /\ queued \subseteq Fd
  /\ knocked \in BOOLEAN /\ sem \in Nat
  /\ owed \subseteq Op \cup {"q", "poke", "wait"}
  /\ waiter \in {"out", "barrier", "collect"}

\* One thing stands for a knock: a signal that is owed, the count, or the waiter.
AtTheDoor ==
  IF knocked
  THEN \/ sem = 0 /\ waiter = "out" /\ \E a \in owed : owed = {a}
       \/ sem = 1 /\ waiter = "out" /\ owed = {}
       \/ sem = 0 /\ waiter # "out" /\ owed = {}
  ELSE sem = 0 /\ waiter = "out" /\ owed = {}

DoorInv == DoorTypes /\ AtTheDoor /\ NewsKnocks

\* Handlers and pool are dispatch's alone, and the end takes them in turn.
EndInv ==
  /\ phase \in {"open", "closing", "sync", "freed"}
  /\ running \in [what : {"event", "cancel"}, fd : Fd, side : Side] \cup {Nothing}
  /\ stopping \subseteq Fd \X Side
  /\ done \subseteq {o \in Op : at[o] = "pool"}
  /\ be # "dispatch" => /\ running = Nothing /\ stopping = {} /\ waiter = "out"
                         /\ \A o \in Op : at[o] # "pool"
  /\ phase # "open" => /\ \A o \in Op : at[o] \in {"free", "pool"}
                       /\ ready = {} /\ waiter = "out" /\ kset = NoSides
  /\ phase \in {"sync", "freed"} => stopping = {} /\ \A o \in Op : at[o] = "free"
  /\ phase = "freed" => running = Nothing

IInv ==
  /\ KernelInv /\ last \in {"none", "ok", "ebusy", "ecanceled"}
  /\ OpsInv /\ OpenInv /\ ChainInv /\ RowInv /\ DoorInv /\ EndInv

-----------------------------------------------------------------------------
(* What a request is, and the parts that a step leaves alone.              *)

LEMMA RequestFacts ==
  ASSUME NEW q \in Requests
  PROVE  /\ q \in [fd : Fd, want : SUBSET Side] /\ q # Nothing
         /\ q.fd \in Fd /\ q.want \subseteq Side /\ q.want # {}
         /\ SideOf(q.want) \in Side /\ SideOf(q.want) \in q.want
         /\ q.want \subseteq ring.face[q.fd]
<1>1. q \in [fd : Fd, want : (SUBSET Side) \ {{}}] /\ q.want \subseteq ring.face[q.fd]
  BY DEF Requests
<1>2. q \in [fd : Fd, want : SUBSET Side] /\ q.fd \in Fd /\ q.want \subseteq Side /\ q.want # {}
  BY <1>1
<1>3. q # Nothing
  BY <1>2, BackendsAssumption
<1>4. SideOf(q.want) \in Side /\ SideOf(q.want) \in q.want
  BY <1>2 DEF SideOf
<1>5. QED
  BY <1>1, <1>2, <1>3, <1>4

LEMMA AskedFacts ==
  ASSUME OpsInv, NEW o \in Op, Waits(o)
  PROVE  /\ req[o] \in Requests /\ req[o] # Nothing
         /\ req[o].fd \in Fd /\ req[o].want \subseteq Side /\ req[o].want # {}
         /\ SideOf(req[o].want) \in Side /\ SideOf(req[o].want) \in req[o].want
<1>1. req[o] \in Requests
  BY DEF OpsInv
<1>2. QED
  BY <1>1, RequestFacts

LEMMA KernelSame ==
  ASSUME KernelInv, UNCHANGED <<ring, open, rdy, full, table, kset>>
  PROVE  KernelInv'
  BY DEF KernelInv

LEMMA RequestsSame ==
  ASSUME UNCHANGED ring
  PROVE  Requests' = Requests
  BY DEF Requests

LEMMA OpsSame ==
  ASSUME OpsInv, UNCHANGED <<ring, at, req>>
  PROVE  OpsInv'
  BY RequestsSame DEF OpsInv, Waits

LEMMA OpenSame ==
  ASSUME OpsInv, OpenInv, ChainInv, UNCHANGED <<at, req, orphan, ready>>,
         \A f \in Fd : open[f] => open'[f]
  PROVE  OpenInv'
<1>1. \A o \in Op : at[o] \in {"arming", "parked"} \/ o \in ready => req[o].fd \in Fd
  BY AskedFacts DEF Waits, ChainInv, Parked
<1>2. QED
  BY <1>1 DEF OpenInv

LEMMA ListedSame ==
  ASSUME UNCHANGED <<at, req, orphan>>
  PROVE  Parked' = Parked /\ \A f, s : Listed(f, s)' = Listed(f, s)
  BY DEF Parked, Listed

LEMMA ChainSame ==
  ASSUME ChainInv, UNCHANGED <<ring, at, req, orphan, chain>>, ready' \subseteq Parked
  PROVE  ChainInv'
  BY ListedSame DEF ChainInv

LEMMA RowSame ==
  ASSUME RowInv, UNCHANGED <<ring, table, kset, chain>>
  PROVE  RowInv'
  BY DEF RowInv, Behind

LEMMA DoorSame ==
  ASSUME DoorInv, UNCHANGED door, phase' = "open" => phase = "open"
  PROVE  DoorInv'
  BY DEF DoorInv, DoorTypes, AtTheDoor, NewsKnocks, door

LEMMA EndSame ==
  ASSUME EndInv, UNCHANGED <<ring, phase, running, stopping, done, at, ready, waiter, kset>>
  PROVE  EndInv'
  BY DEF EndInv, NoSides

\* Writing one side of one descriptor.
OneSide(c, d, f, s, X) ==
  /\ d \in [Fd -> [Side -> SUBSET Op]]
  /\ \A g \in Fd : g # f => d[g] = c[g]
  /\ \A g \in Fd, t \in Side : d[g][t] = IF g = f /\ t = s THEN X ELSE c[g][t]

LEMMA SideWritten ==
  ASSUME NEW c \in [Fd -> [Side -> SUBSET Op]], NEW f \in Fd, NEW s \in Side, NEW X \in SUBSET Op
  PROVE  OneSide(c, [c EXCEPT ![f] = [c[f] EXCEPT ![s] = X]], f, s, X)
<1> DEFINE row == [c[f] EXCEPT ![s] = X]
           d == [c EXCEPT ![f] = row]
<1>1. c[f] \in [Side -> SUBSET Op]
  OBVIOUS
<1>2. row \in [Side -> SUBSET Op] /\ \A t \in Side : row[t] = IF t = s THEN X ELSE c[f][t]
  BY <1>1
<1> HIDE DEF row
<1>3. /\ d \in [Fd -> [Side -> SUBSET Op]]
      /\ \A g \in Fd : d[g] = IF g = f THEN row ELSE c[g]
  BY <1>2
<1> HIDE DEF d
<1>4. OneSide(c, d, f, s, X)
  BY <1>2, <1>3 DEF OneSide
<1>5. QED
  BY <1>4 DEF d, row

LEMMA Joins ==
  ASSUME NEW c \in [Fd -> [Side -> SUBSET Op]], NEW f \in Fd, NEW s \in Side, NEW o \in Op
  PROVE  /\ OneSide(c, [c EXCEPT ![f][s] = @ \cup {o}], f, s, c[f][s] \cup {o})
         /\ OneSide(c, [c EXCEPT ![f][s] = @ \ {o}], f, s, c[f][s] \ {o})
<1>1. c[f][s] \cup {o} \in SUBSET Op /\ c[f][s] \ {o} \in SUBSET Op
  OBVIOUS
<1>2. /\ OneSide(c, [c EXCEPT ![f] = [c[f] EXCEPT ![s] = c[f][s] \cup {o}]], f, s, c[f][s] \cup {o})
      /\ OneSide(c, [c EXCEPT ![f] = [c[f] EXCEPT ![s] = c[f][s] \ {o}]], f, s, c[f][s] \ {o})
  BY <1>1, SideWritten
<1>3. QED
  BY <1>2

-----------------------------------------------------------------------------
(* Registering.                                                            *)

\* What arm owes: a row that waiters can rely on, and no refusal without cause.
Reliable(f, row, kernel) ==
  row \subseteq kernel /\ \A s \in Side : chain[f][s] # {} => s \in row

ArmedWell(f, want, arm) ==
  /\ arm.ok \in BOOLEAN /\ arm.row \in SUBSET Side /\ arm.kernel \in SUBSET Side
  /\ be # "select" =>
       /\ arm.ok \/ Behind(f) # {} => Reliable(f, arm.row, arm.kernel)
       /\ arm.ok => SideOf(want) \in arm.row
  /\ be = "dispatch" =>
       /\ arm.kernel = arm.row
       /\ arm.row = IF arm.ok THEN table[f] \cup {SideOf(want)} ELSE table[f]
  /\ ~arm.ok => ~(IF be = "select" THEN f < ring.setsize ELSE ~full)

LEMMA RowFacts ==
  ASSUME KernelInv, ChainInv, RowInv, be # "select", NEW f \in Fd
  PROVE  /\ table[f] \subseteq Side /\ kset[f] \subseteq Side
         /\ Behind(f) # {} => Reliable(f, table[f], kset[f])
         /\ Behind(f) = {} => \A s \in Side : chain[f][s] = {}
  BY DEF KernelInv, ChainInv, RowInv, Behind, Reliable

(***************************************************************************)
(* epoll_arm fails only when neither ADD nor MOD is taken, which is when   *)
(* the descriptor is unknown and the kernel full.                          *)
(***************************************************************************)
LEMMA EpollArms ==
  ASSUME KernelInv, ChainInv, RowInv, be = "epoll",
         NEW q \in Requests, open[q.fd]
  PROVE  ArmedWell(q.fd, q.want, EpollArm(q.fd, q.want))
<1> DEFINE f == q.fd
           want == q.want
           row == IF Behind(f) = {} THEN {} ELSE table[f]
           covered == row # {} /\ want \subseteq row
           first == IF row = {} THEN "ADD" ELSE "MOD"
           other == IF row = {} THEN "MOD" ELSE "ADD"
           told == EpollCtl(f, first) \/ EpollCtl(f, other)
           arm == EpollArm(f, want)
<1>1. /\ f \in Fd /\ want \in SUBSET Side /\ SideOf(want) \in want
      /\ table[f] \in SUBSET Side /\ kset[f] \in SUBSET Side
  BY RequestFacts, RowFacts
<1>2. /\ arm.ok = (covered \/ told)
      /\ arm.row = IF covered THEN row ELSE IF told THEN row \cup want ELSE {}
      /\ arm.kernel = IF told /\ ~covered THEN row \cup want ELSE kset[f]
  BY DEF EpollArm
<1>3. told <=> kset[f] # {} \/ ~full
  BY DEF EpollCtl
<1>4. Behind(f) # {} => Reliable(f, row, kset[f])
  BY <1>1, RowFacts
<1>5. Behind(f) = {} => row = {} /\ \A s \in Side : chain[f][s] = {}
  BY <1>1, RowFacts
<1>6. Behind(f) # {} => told
  <2>1. Behind(f) # {} => \E s \in Side : chain[f][s] # {}
    BY DEF Behind
  <2>2. QED
    BY <1>3, <1>4, <2>1 DEF Reliable
<1>7. row \in SUBSET Side /\ covered \in BOOLEAN /\ told \in BOOLEAN
  BY <1>1
<1> HIDE DEF arm, told, row, f, want
<1>8. arm.ok \in BOOLEAN /\ arm.row \in SUBSET Side /\ arm.kernel \in SUBSET Side
  BY <1>1, <1>2, <1>7
<1>9. arm.ok \/ Behind(f) # {} => Reliable(f, arm.row, arm.kernel)
  BY <1>1, <1>2, <1>4, <1>5, <1>6 DEF Reliable
<1>10. arm.ok => SideOf(want) \in arm.row
  BY <1>1, <1>2
<1>11. ~arm.ok => full = TRUE
  BY <1>2, <1>3 DEF KernelInv
<1>12. QED
  BY <1>8, <1>9, <1>10, <1>11 DEF ArmedWell, arm, f, want

(***************************************************************************)
(* kqueue_arm deletes a knote that libkqueue would not replace, and so has *)
(* room for it however full the kernel is.                                 *)
(***************************************************************************)
LEMMA KqueueArms ==
  ASSUME KernelInv, ChainInv, RowInv, be \in {"kqueue", "libkqueue"},
         NEW q \in Requests, open[q.fd]
  PROVE  ArmedWell(q.fd, q.want, KqueueArm(q.fd, q.want))
<1> DEFINE f == q.fd
           want == q.want
           s == SideOf(want)
           row == IF Behind(f) = {} THEN {} ELSE table[f]
           added == open[f] /\ IF s \in kset[f] THEN be = "kqueue" ELSE ~full
           again == open[f] /\ (s \in kset[f] \/ ~full)
           told == s \in row \/ added \/ again
           arm == KqueueArm(f, want)
<1>1. /\ f \in Fd /\ s \in Side
      /\ table[f] \in SUBSET Side /\ kset[f] \in SUBSET Side
  BY RequestFacts, RowFacts
<1>2. /\ arm.ok = told
      /\ arm.row = IF told THEN row \cup {s} ELSE row
      /\ arm.kernel = IF s \in row THEN kset[f]
                      ELSE IF told THEN kset[f] \cup {s} ELSE kset[f] \ {s}
  BY DEF KqueueArm
<1>3. told <=> s \in row \/ s \in kset[f] \/ ~full
  BY DEF KernelInv
<1>4. Behind(f) # {} => Reliable(f, row, kset[f])
  BY <1>1, RowFacts
<1>5. Behind(f) = {} => row = {} /\ \A t \in Side : chain[f][t] = {}
  BY <1>1, RowFacts
<1>6. row \in SUBSET Side /\ told \in BOOLEAN
  BY <1>1
<1> HIDE DEF arm, told, row, f, s
<1>7. arm.ok \in BOOLEAN /\ arm.row \in SUBSET Side /\ arm.kernel \in SUBSET Side
  BY <1>1, <1>2, <1>6
<1>8. arm.ok \/ Behind(f) # {} => Reliable(f, arm.row, arm.kernel)
  BY <1>1, <1>2, <1>4, <1>5, <1>6 DEF Reliable
<1>9. arm.ok => s \in arm.row
  BY <1>1, <1>2
<1>10. ~arm.ok => full = TRUE
  BY <1>2, <1>3 DEF KernelInv
<1>11. QED
  BY <1>7, <1>8, <1>9, <1>10 DEF ArmedWell, arm, f, s

\* dsp_arm: a source is there with the first waiter, and stays with the last.
LEMMA DispatchArms ==
  ASSUME KernelInv, ChainInv, RowInv, be = "dispatch", NEW q \in Requests
  PROVE  ArmedWell(q.fd, q.want, DispatchArm(q.fd, q.want))
<1> DEFINE f == q.fd
           s == SideOf(q.want)
           told == chain[f][s] # {} \/ ~full
           arm == DispatchArm(f, q.want)
<1>1. /\ f \in Fd /\ s \in Side
      /\ table[f] \in SUBSET Side /\ kset[f] = table[f]
      /\ table[f] = {t \in Side : chain[f][t] # {}}
  BY RequestFacts, RowFacts DEF RowInv
<1>2. /\ arm.ok = told
      /\ arm.row = IF told THEN table[f] \cup {s} ELSE table[f]
      /\ arm.kernel = IF told THEN kset[f] \cup {s} ELSE kset[f]
  BY DEF DispatchArm
<1>3. told \in BOOLEAN /\ (~told => full = TRUE)
  BY DEF KernelInv
<1> HIDE DEF arm, told, f, s
<1>4. arm.ok \in BOOLEAN /\ arm.row \in SUBSET Side /\ arm.kernel \in SUBSET Side
  BY <1>1, <1>2, <1>3
<1>5. /\ arm.ok \/ Behind(f) # {} => Reliable(f, arm.row, arm.kernel)
      /\ arm.ok => s \in arm.row
  BY <1>1, <1>2, <1>3 DEF Reliable
<1>6. /\ arm.kernel = arm.row
      /\ arm.row = IF arm.ok THEN table[f] \cup {s} ELSE table[f]
      /\ ~arm.ok => full = TRUE
  BY <1>1, <1>2, <1>3
<1>7. QED
  BY <1>4, <1>5, <1>6 DEF ArmedWell, arm, f, s

LEMMA Arms ==
  ASSUME KernelInv, ChainInv, RowInv, NEW q \in Requests, open[q.fd]
  PROVE  ArmedWell(q.fd, q.want, Registered(q.fd, q.want))
<1>1. CASE be = "epoll"
  BY <1>1, EpollArms DEF Registered
<1>2. CASE be \in {"kqueue", "libkqueue"}
  BY <1>2, KqueueArms DEF Registered
<1>3. CASE be = "dispatch"
  BY <1>3, DispatchArms DEF Registered
<1>4. CASE be = "select"
  <2>1. Registered(q.fd, q.want) = SelectArm(q.fd)
    BY <1>4 DEF Registered
  <2>2. q.fd \in Nat /\ ring.setsize \in Nat
    BY RequestFacts, BackendsAssumption DEF KernelInv
  <2>3. /\ SelectArm(q.fd).ok = (q.fd < ring.setsize)
        /\ SelectArm(q.fd).row = {} /\ SelectArm(q.fd).kernel = {}
    BY Zenon DEF SelectArm
  <2>4. (q.fd < ring.setsize) \in BOOLEAN
    BY <2>2
  <2>5. QED
    BY <1>4, <2>1, <2>3, <2>4 DEF ArmedWell
<1>5. be \in {"epoll", "kqueue", "libkqueue", "select", "dispatch"}
  BY BackendsAssumption DEF KernelInv
<1>6. QED
  BY <1>1, <1>2, <1>3, <1>4, <1>5

-----------------------------------------------------------------------------
(* Each action keeps IInv.                                                 *)

USE DEF world, ops, reg, queue

LEMMA ParkStep ==
  ASSUME IInv, NEW o \in Op, Park(o)
  PROVE  IInv'
<1> DEFINE f == req[o].fd
           s == SideOf(req[o].want)
           arm == Registered(f, req[o].want)
<1>1. /\ KernelInv /\ OpsInv /\ OpenInv /\ ChainInv /\ RowInv /\ DoorInv /\ EndInv
      /\ at[o] = "arming" /\ Waits(o)
  BY DEF IInv, Park, Waits
<1>2. /\ req[o] \in Requests /\ req[o] # Nothing
      /\ f \in Fd /\ s \in Side /\ open[f] = TRUE
  BY <1>1, AskedFacts DEF OpenInv, KernelInv
<1>3. /\ ArmedWell(f, req[o].want, arm)
      /\ arm.row \in SUBSET Side /\ arm.kernel \in SUBSET Side
  BY <1>1, <1>2, Arms DEF ArmedWell
<1>4. /\ table' = [table EXCEPT ![f] = arm.row]
      /\ kset' = [kset EXCEPT ![f] = arm.kernel]
      /\ full' = FALSE
      /\ UNCHANGED <<ring, open, rdy, orphan, ready, door, queue, phase>>
  BY DEF Park
<1>5. arm.ok =>
        /\ at' = [at EXCEPT ![o] = "parked"] /\ req' = req
        /\ chain' = IF be = "select" THEN chain ELSE [chain EXCEPT ![f][s] = @ \cup {o}]
        /\ last' = "none"
  BY DEF Park
<1>6. ~arm.ok =>
        /\ at' = [at EXCEPT ![o] = "free"] /\ req' = [req EXCEPT ![o] = Nothing]
        /\ chain' = chain
        /\ last' = "ebusy"
  BY DEF Park, Gone
<1> HIDE DEF arm, f, s
<1>6a. OneSide(chain, [chain EXCEPT ![f][s] = @ \cup {o}], f, s, chain[f][s] \cup {o})
  BY <1>1, <1>2, Joins DEF ChainInv
<1>7. KernelInv'
  BY <1>1, <1>2, <1>3, <1>4 DEF KernelInv
<1>8. OpsInv'
  <2>1. Requests' = Requests
    BY <1>4, RequestsSame
  <2>2. QED
    BY <1>1, <1>2, <1>4, <1>5, <1>6, <2>1 DEF OpsInv, Waits
<1>9. ChainInv'
  <2>1. orphan \subseteq Parked /\ ready \subseteq Parked /\ o \notin Parked
    BY <1>1 DEF ChainInv, Parked
  <2>2. chain \in [Fd -> [Side -> SUBSET Op]]
    BY <1>1 DEF ChainInv
  <2>3. Parked' = IF arm.ok THEN Parked \cup {o} ELSE Parked
    BY <1>1, <1>5, <1>6 DEF Parked, OpsInv
  <2>4. CASE arm.ok
    <3>1. chain' \in [Fd -> [Side -> SUBSET Op]]
      BY <1>2, <1>5, <2>2, <2>4, <1>6a DEF OneSide
    <3>2. ASSUME be # "select", NEW g \in Fd, NEW t \in Side
          PROVE  chain'[g][t] = Listed(g, t)'
      <4>1. chain[g][t] = Listed(g, t)
        BY <1>1, <3>2 DEF ChainInv
      <4>2. Listed(g, t)' = IF g = f /\ t = s THEN Listed(g, t) \cup {o} ELSE Listed(g, t)
        BY <1>4, <1>5, <2>1, <2>3, <2>4 DEF Listed, f, s
      <4>3. chain'[g][t] = IF g = f /\ t = s THEN chain[g][t] \cup {o} ELSE chain[g][t]
        BY <1>2, <1>5, <2>2, <2>4, <3>2, <1>6a DEF OneSide
      <4>4. QED
        BY <4>1, <4>2, <4>3
    <3>3. QED
      BY <1>4, <2>1, <2>3, <3>1, <3>2 DEF ChainInv
  <2>5. CASE ~arm.ok
    <3>1. /\ Parked' = Parked /\ orphan' = orphan
          /\ \A p \in Parked : req'[p] = req[p]
      BY <1>1, <1>4, <1>6, <2>1, <2>3, <2>5 DEF OpsInv, Parked
    <3>3. \A g, t : Listed(g, t)' = Listed(g, t)
      BY <3>1 DEF Listed
    <3>2. QED
      BY <1>1, <1>4, <1>6, <2>3, <2>5, <3>3 DEF ChainInv
  <2>6. QED
    BY <2>4, <2>5
<1>10. RowInv'
  <2>1. /\ chain \in [Fd -> [Side -> SUBSET Op]]
        /\ table \in [Fd -> SUBSET Side] /\ kset \in [Fd -> SUBSET Side]
    BY <1>1 DEF ChainInv, KernelInv
  <2>2. /\ be # "select" => chain' = IF arm.ok THEN [chain EXCEPT ![f][s] = @ \cup {o}] ELSE chain
        /\ be' = be
    BY <1>4, <1>5, <1>6
  <2>3. ASSUME be # "select", NEW g \in Fd, Behind(g)' # {}
        PROVE  table'[g] \subseteq kset'[g] /\ \A t \in Side : chain'[g][t] # {} => t \in table'[g]
    <3>1. CASE g # f
      <4>1. table'[g] = table[g] /\ kset'[g] = kset[g] /\ chain'[g] = chain[g]
        BY <1>2, <1>4, <2>1, <2>2, <2>3, <3>1
      <4>2. QED
        BY <1>1, <2>3, <4>1 DEF RowInv, Behind
    <3>2. CASE g = f
      <4>1. table'[g] = arm.row /\ kset'[g] = arm.kernel
        BY <1>2, <1>4, <2>1, <3>2
      <4>2. \A t \in Side : chain'[f][t] = IF arm.ok /\ t = s THEN chain[f][t] \cup {o} ELSE chain[f][t]
        BY <1>2, <2>1, <2>2, <2>3, <1>6a DEF OneSide
      <4>3. arm.ok \/ Behind(f) # {}
        BY <2>2, <2>3, <3>2 DEF Behind
      <4>4. Reliable(f, arm.row, arm.kernel) /\ (arm.ok => s \in arm.row)
        BY <1>3, <2>3, <4>3 DEF ArmedWell, s
      <4>5. QED
        BY <1>2, <3>2, <4>1, <4>2, <4>4 DEF Reliable
    <3>3. QED
      BY <3>1, <3>2
  <2>4. ASSUME be = "dispatch", NEW g \in Fd
        PROVE  kset'[g] = table'[g] /\ table'[g] = {t \in Side : chain'[g][t] # {}}
    <3>1. kset[g] = table[g] /\ table[g] = {t \in Side : chain[g][t] # {}}
      BY <1>1, <2>4 DEF RowInv
    <3>2. CASE g # f
      <4>1. table'[g] = table[g] /\ kset'[g] = kset[g] /\ chain'[g] = chain[g]
        BY <1>2, <1>4, <2>1, <2>2, <2>4, <3>2
      <4>2. QED
        BY <3>1, <4>1
    <3>3. CASE g = f
      <4>1. /\ table'[g] = IF arm.ok THEN table[g] \cup {s} ELSE table[g]
            /\ kset'[g] = table'[g]
        BY <1>2, <1>3, <1>4, <2>1, <2>4, <3>3 DEF ArmedWell, s
      <4>2. \A t \in Side : chain'[g][t] = IF arm.ok /\ t = s THEN chain[g][t] \cup {o} ELSE chain[g][t]
        BY <1>2, <2>1, <2>2, <2>4, <3>3, <1>6a DEF OneSide
      <4>3. QED
        BY <1>2, <3>1, <4>1, <4>2
    <3>4. QED
      BY <3>2, <3>3
  <2>5. QED
    BY <2>2, <2>3, <2>4 DEF RowInv
<1>11. DoorInv'
  BY <1>1, <1>4, DoorSame
<1>12. EndInv'
  <2>1. phase = "open"
    BY <1>1 DEF EndInv
  <2>2. \A p \in Op : (at[p] = "pool") <=> (at'[p] = "pool")
    BY <1>1, <1>5, <1>6 DEF OpsInv
  <2>3. QED
    BY <1>1, <1>4, <2>1, <2>2 DEF EndInv, door
<1>13. last' \in {"none", "ok", "ebusy", "ecanceled"}
  BY <1>5, <1>6
<1>14. OpenInv'
  BY <1>1, <1>4, <1>5, <1>6 DEF OpenInv, OpsInv, ChainInv, Parked
<1>15. QED
  BY <1>7, <1>8, <1>9, <1>10, <1>11, <1>12, <1>13, <1>14 DEF IInv

(***************************************************************************)
(* unpark takes the op off its chain; only dispatch_disarm also ends the   *)
(* registration, with the last waiter.                                     *)
(***************************************************************************)
LEMMA UnparkKeeps ==
  ASSUME KernelInv, OpsInv, ChainInv, RowInv, NEW o \in Parked, Unpark(o),
         UNCHANGED ring, at'[o] # "parked", ready' \subseteq ready \ {o},
         \A p \in Op \ {o} : at'[p] = at[p] /\ req'[p] = req[p]
  PROVE  /\ ChainInv' /\ RowInv'
         /\ table' \in [Fd -> SUBSET Side] /\ kset' \in [Fd -> SUBSET Side]
         /\ \A g \in Fd : kset'[g] \subseteq kset[g]
<1> DEFINE f == req[o].fd
           s == SideOf(req[o].want)
           drops == be = "dispatch" /\ chain[f][s] \ {o} = {} /\ s \in table[f]
<1>1. o \in Op /\ Waits(o) /\ f \in Fd /\ s \in Side
  BY AskedFacts DEF Parked, Waits
<1>2. /\ chain' = [chain EXCEPT ![f][s] = @ \ {o}]
      /\ table' = IF drops THEN [table EXCEPT ![f] = @ \ {s}] ELSE table
      /\ kset' = IF drops THEN [kset EXCEPT ![f] = @ \ {s}] ELSE kset
      /\ orphan' = orphan \ {o}
  BY DEF Unpark
<1>3. /\ chain \in [Fd -> [Side -> SUBSET Op]] /\ orphan \subseteq Parked /\ ready \subseteq Parked
      /\ table \in [Fd -> SUBSET Side] /\ kset \in [Fd -> SUBSET Side]
  BY DEF ChainInv, KernelInv
<1> HIDE DEF f, s
<1>4. /\ chain' \in [Fd -> [Side -> SUBSET Op]]
      /\ \A g \in Fd, t \in Side : chain'[g][t] = IF g = f /\ t = s THEN chain[g][t] \ {o} ELSE chain[g][t]
  <2>1. OneSide(chain, chain', f, s, chain[f][s] \ {o})
    BY <1>1, <1>2, <1>3, Joins
  <2>2. QED
    BY <2>1 DEF OneSide
<1>5. ChainInv'
  <2>1. Parked' = Parked \ {o}
    BY DEF Parked
  <2>2. ASSUME be # "select", NEW g \in Fd, NEW t \in Side
        PROVE  chain'[g][t] = Listed(g, t)'
    <3>1. chain[g][t] = Listed(g, t)
      BY <2>2 DEF ChainInv
    <3>2. Listed(g, t)' = Listed(g, t) \ {o}
      BY <1>2, <2>1 DEF Listed, Parked
    <3>3. o \in Listed(g, t) => g = f /\ t = s
      BY DEF Listed, f, s
    <3>4. QED
      BY <1>4, <3>1, <3>2, <3>3
  <2>3. QED
    BY <1>2, <1>3, <1>4, <2>1, <2>2 DEF ChainInv
<1>6. /\ table' \in [Fd -> SUBSET Side] /\ kset' \in [Fd -> SUBSET Side]
      /\ \A g \in Fd : kset'[g] \subseteq kset[g]
  BY <1>1, <1>2, <1>3
<1>7. RowInv'
  <2>1. CASE be = "dispatch"
    <3>1. ASSUME NEW g \in Fd
          PROVE  kset'[g] = table'[g] /\ table'[g] = {t \in Side : chain'[g][t] # {}}
      <4>1. kset[g] = table[g] /\ table[g] = {t \in Side : chain[g][t] # {}}
        BY <2>1 DEF RowInv
      <4>2. /\ table'[g] = IF g = f /\ drops THEN table[g] \ {s} ELSE table[g]
            /\ kset'[g] = IF g = f /\ drops THEN kset[g] \ {s} ELSE kset[g]
        BY <1>1, <1>2, <1>3
      <4>3. CASE g # f
        BY <1>4, <4>1, <4>2, <4>3
      <4>4. CASE g = f
        <5>1. \A t \in Side : chain'[g][t] = IF t = s THEN chain[g][t] \ {o} ELSE chain[g][t]
          BY <1>4, <4>4
        <5>2. s \in table[g] <=> chain[g][s] # {}
          BY <1>1, <4>1
        <5>3. drops <=> chain[g][s] \ {o} = {} /\ s \in table[g]
          BY <2>1, <4>4
        <5>4. s \in table'[g] <=> chain'[g][s] # {}
          BY <1>1, <4>2, <4>4, <5>1, <5>2, <5>3
        <5>5. \A t \in Side \ {s} : t \in table'[g] <=> chain'[g][t] # {}
          BY <4>1, <4>2, <4>4, <5>1
        <5>6. table'[g] \subseteq Side /\ kset'[g] = table'[g]
          BY <1>6, <4>1, <4>2
        <5>7. QED
          BY <5>4, <5>5, <5>6
      <4>5. QED
        BY <4>3, <4>4
    <3>2. QED
      BY <2>1, <3>1 DEF RowInv
  <2>2. CASE be # "dispatch"
    <3>1. table' = table /\ kset' = kset
      BY <1>2, <2>2
    <3>2. \A g \in Fd, t \in Side : chain'[g][t] \subseteq chain[g][t]
      BY <1>4
    <3>3. \A g \in Fd : Behind(g)' # {} => Behind(g) # {}
      BY <3>2 DEF Behind
    <3>4. QED
      BY <2>2, <3>1, <3>2, <3>3 DEF RowInv
  <2>3. QED
    BY <2>1, <2>2
<1>8. QED
  BY <1>5, <1>6, <1>7

LEMMA RetryStep ==
  ASSUME IInv, NEW o \in Op, Retry(o)
  PROVE  IInv'
<1>1. /\ KernelInv /\ OpsInv /\ OpenInv /\ ChainInv /\ RowInv /\ DoorInv /\ EndInv
      /\ o \in ready /\ Unpark(o) /\ ready' = ready \ {o}
      /\ UNCHANGED <<ring, open, full, door, queue, phase>>
  BY DEF IInv, Retry
<1>2. o \in Parked /\ at[o] = "parked" /\ Waits(o)
  BY <1>1 DEF ChainInv, Parked, Waits
<1>3. req[o] \in Requests /\ req[o] # Nothing /\ req[o].fd \in Fd /\ phase = "open"
  BY <1>1, <1>2, AskedFacts DEF EndInv
<1>4. /\ rdy' \in [Fd -> SUBSET {"in", "out", "err"}]
      /\ \/ /\ at' = [at EXCEPT ![o] = "free"] /\ req' = [req EXCEPT ![o] = Nothing]
            /\ last' = "ok"
         \/ /\ at' = [at EXCEPT ![o] = "arming"] /\ req' = req
            /\ last' = "none"
  <2>1. rdy \in [Fd -> SUBSET {"in", "out", "err"}]
    BY <1>1 DEF KernelInv
  <2>2. QED
    BY <2>1, <1>3 DEF Retry, Gone
<1>5. /\ ChainInv' /\ RowInv'
      /\ table' \in [Fd -> SUBSET Side] /\ kset' \in [Fd -> SUBSET Side]
      /\ \A g \in Fd : kset'[g] \subseteq kset[g]
  <2>1. /\ at'[o] # "parked"
        /\ \A p \in Op \ {o} : at'[p] = at[p] /\ req'[p] = req[p]
    BY <1>1, <1>4 DEF OpsInv
  <2>2. QED
    BY <1>1, <1>2, <2>1, UnparkKeeps
<1>6. KernelInv'
  BY <1>1, <1>4, <1>5 DEF KernelInv
<1>7. OpsInv'
  <2>1. Requests' = Requests
    BY <1>1, RequestsSame
  <2>2. QED
    BY <1>1, <1>2, <1>3, <1>4, <2>1 DEF OpsInv, Waits
<1>8. DoorInv'
  BY <1>1, DoorSame
<1>9. EndInv'
  <2>1. \A p \in Op : (at[p] = "pool") <=> (at'[p] = "pool")
    BY <1>1, <1>2, <1>4 DEF OpsInv
  <2>2. QED
    BY <1>1, <1>3, <2>1 DEF EndInv, door
<1>10. OpenInv'
  BY <1>1, <1>2, <1>4 DEF OpenInv, OpsInv, Unpark
<1>11. QED
  BY <1>4, <1>5, <1>6, <1>7, <1>8, <1>9, <1>10 DEF IInv

LEMMA CancelStep ==
  ASSUME IInv, NEW o \in Op, CancelParked(o)
  PROVE  IInv'
<1>1. /\ KernelInv /\ OpsInv /\ OpenInv /\ ChainInv /\ RowInv /\ DoorInv /\ EndInv
      /\ at[o] = "parked" /\ Unpark(o) /\ ready = {} /\ phase = "open"
      /\ at' = [at EXCEPT ![o] = "free"] /\ req' = [req EXCEPT ![o] = Nothing]
      /\ last' = "ecanceled"
      /\ UNCHANGED <<ring, world, ready, door, queue, phase>>
  BY DEF IInv, CancelParked, Free, Gone
<1>2. /\ o \in Parked /\ at'[o] # "parked"
      /\ \A p \in Op \ {o} : at'[p] = at[p] /\ req'[p] = req[p]
  BY <1>1 DEF OpsInv, Parked
<1>3. /\ ChainInv' /\ RowInv'
      /\ table' \in [Fd -> SUBSET Side] /\ kset' \in [Fd -> SUBSET Side]
      /\ \A g \in Fd : kset'[g] \subseteq kset[g]
  BY <1>1, <1>2, UnparkKeeps
<1>4. KernelInv'
  BY <1>1, <1>3 DEF KernelInv
<1>5. OpsInv'
  <2>1. Requests' = Requests
    BY <1>1, RequestsSame
  <2>2. QED
    BY <1>1, <2>1 DEF OpsInv, Waits
<1>6. DoorInv'
  BY <1>1, DoorSame
<1>7. EndInv'
  <2>1. \A p \in Op : (at[p] = "pool") <=> (at'[p] = "pool")
    BY <1>1 DEF OpsInv
  <2>2. QED
    BY <1>1, <2>1 DEF EndInv, door
<1>8. OpenInv'
  BY <1>1, <1>2 DEF OpenInv, Unpark
<1>9. QED
  BY <1>1, <1>3, <1>4, <1>5, <1>6, <1>7, <1>8 DEF IInv

\* What peers and other programs do, except for closing.
LEMMA WorldKeeps ==
  ASSUME IInv, UNCHANGED <<ring, ops, reg, ready, door, queue, phase>>, Silent,
         open' \in [Fd -> BOOLEAN], full' \in BOOLEAN,
         rdy' \in [Fd -> SUBSET {"in", "out", "err"}],
         \A f \in Fd : open[f] => open'[f]
  PROVE  IInv'
<1>1. /\ KernelInv /\ OpsInv /\ OpenInv /\ ChainInv /\ RowInv /\ DoorInv /\ EndInv
      /\ ready \subseteq Parked
  BY DEF IInv, ChainInv
<1>2. KernelInv'
  BY <1>1 DEF KernelInv
<1>3. OpsInv' /\ OpenInv' /\ ChainInv' /\ RowInv' /\ DoorInv'
  BY <1>1, OpsSame, OpenSame, ChainSame, RowSame, DoorSame
<1>4. EndInv'
  BY <1>1, EndSame DEF door
<1>5. QED
  BY <1>2, <1>3, <1>4 DEF IInv

LEMMA WorldStep ==
  ASSUME IInv, NEW f \in Fd, NEW s \in {"in", "out", "err"},
         BecomesReady(f, s) \/ LosesReadiness(f, s) \/ Open(f)
  PROVE  IInv'
<1>1. /\ open \in [Fd -> BOOLEAN] /\ full \in BOOLEAN
      /\ rdy \in [Fd -> SUBSET {"in", "out", "err"}]
  BY DEF IInv, KernelInv
<1>2. CASE BecomesReady(f, s)
  BY <1>1, <1>2, WorldKeeps DEF BecomesReady
<1>3. CASE LosesReadiness(f, s)
  BY <1>1, <1>3, WorldKeeps DEF LosesReadiness
<1>4. CASE Open(f)
  BY <1>1, <1>4, WorldKeeps DEF Open
<1>5. QED
  BY <1>2, <1>3, <1>4

LEMMA KernelFillsStep ==
  ASSUME IInv, KernelFills
  PROVE  IInv'
  BY WorldKeeps DEF KernelFills, IInv, KernelInv

\* close(2) of a descriptor that nobody waits for.
LEMMA ProgramClosesStep ==
  ASSUME IInv, NEW f \in Fd, ProgramCloses(f)
  PROVE  IInv'
<1>1. /\ KernelInv /\ OpsInv /\ OpenInv /\ ChainInv /\ RowInv /\ DoorInv /\ EndInv
      /\ \A o \in Op : Waits(o) => req[o].fd # f
      /\ open' = [open EXCEPT ![f] = FALSE]
      /\ rdy' = [rdy EXCEPT ![f] = {}]
      /\ kset' = [kset EXCEPT ![f] = {}]
      /\ last' = "none"
      /\ UNCHANGED <<ring, full, at, req, table, chain, orphan, ready, door, queue, phase>>
  BY DEF IInv, ProgramCloses, Closed
<1>2. KernelInv'
  BY <1>1 DEF KernelInv
<1>3. OpsInv' /\ ChainInv' /\ DoorInv'
  BY <1>1, OpsSame, ChainSame, DoorSame DEF ChainInv
<1>4. OpenInv'
  <2>1. \A o \in Op : at[o] \in {"arming", "parked"} \/ o \in ready => Waits(o) /\ req[o].fd \in Fd
    BY <1>1, AskedFacts DEF Waits, ChainInv, Parked
  <2>2. QED
    BY <1>1, <2>1 DEF OpenInv, KernelInv
<1>5. RowInv'
  <2>1. be # "select" => \A s \in Side : chain[f][s] = {}
    BY <1>1 DEF ChainInv, Listed, Parked, Waits
  <2>2. kset \in [Fd -> SUBSET Side] /\ \A g \in Fd : kset'[g] = IF g = f THEN {} ELSE kset[g]
    BY <1>1 DEF KernelInv
  <2>3. ASSUME be # "select", NEW g \in Fd, Behind(g)' # {}
        PROVE  table'[g] \subseteq kset'[g] /\ \A s \in Side : chain'[g][s] # {} => s \in table'[g]
    <3>1. g # f /\ Behind(g) # {}
      BY <1>1, <2>1, <2>3 DEF Behind
    <3>2. QED
      BY <1>1, <2>2, <2>3, <3>1 DEF RowInv
  <2>4. ASSUME be = "dispatch", NEW g \in Fd
        PROVE  kset'[g] = table'[g] /\ table'[g] = {s \in Side : chain'[g][s] # {}}
    <3>1. table'[g] = {s \in Side : chain'[g][s] # {}} /\ kset[g] = table[g]
      BY <1>1, <2>4 DEF RowInv
    <3>2. g = f => table'[g] = {}
      BY <1>1, <2>1, <2>4, <3>1
    <3>3. QED
      BY <1>1, <2>2, <3>1, <3>2
  <2>5. QED
    BY <1>1, <2>3, <2>4 DEF RowInv
<1>6. EndInv'
  BY <1>1 DEF EndInv, KernelInv, NoSides, door
<1>7. QED
  BY <1>1, <1>2, <1>3, <1>4, <1>5, <1>6 DEF IInv

\* IORING_OP_CLOSE: forget, close, and the parked ops become orphans.
LEMMA RingClosesStep ==
  ASSUME IInv, NEW f \in Fd, RingCloses(f)
  PROVE  IInv'
<1>1. /\ KernelInv /\ OpsInv /\ OpenInv /\ ChainInv /\ RowInv /\ DoorInv /\ EndInv
      /\ ready = {} /\ phase = "open" /\ \A o \in Op : at[o] # "arming"
      /\ open' = [open EXCEPT ![f] = FALSE]
      /\ rdy' = [rdy EXCEPT ![f] = {}]
      /\ kset' = [kset EXCEPT ![f] = {}]
      /\ table' = [table EXCEPT ![f] = {}]
      /\ chain' = [chain EXCEPT ![f] = [s \in Side |-> {}]]
      /\ hit' = [hit EXCEPT ![f] = {}]
      /\ orphan' = orphan \cup {o \in Parked : req[o].fd = f}
      /\ last' = "none"
      /\ UNCHANGED <<ring, full, at, req, ready, queued, knocked, sem, owed, done, waiter, queue, phase>>
  BY DEF IInv, RingCloses, Closed, Forget, Free
<1>2. KernelInv'
  BY <1>1 DEF KernelInv
<1>3. OpsInv'
  BY <1>1, OpsSame
<1>4. OpenInv'
  <2>1. \A o \in Op : at[o] = "parked" => req[o].fd \in Fd
    BY <1>1, AskedFacts DEF Waits
  <2>2. QED
    BY <1>1, <2>1 DEF OpenInv, KernelInv, Parked
<1>5. /\ chain' \in [Fd -> [Side -> SUBSET Op]]
      /\ \A g \in Fd : g # f => chain'[g] = chain[g]
      /\ \A s \in Side : chain'[f][s] = {}
  BY <1>1 DEF ChainInv
<1>6. ChainInv'
  <2>1. Parked' = Parked
    BY <1>1 DEF Parked
  <2>2. ASSUME be # "select", NEW g \in Fd, NEW s \in Side
        PROVE  chain'[g][s] = Listed(g, s)'
    <3>1. Listed(g, s)' = IF g = f THEN {} ELSE Listed(g, s)
      BY <1>1, <2>1 DEF Listed
    <3>2. chain[g][s] = Listed(g, s)
      BY <1>1, <2>2 DEF ChainInv
    <3>3. QED
      BY <1>5, <3>1, <3>2
  <2>3. orphan' \subseteq Parked' /\ ready' \subseteq Parked'
    BY <1>1, <2>1 DEF ChainInv
  <2>4. QED
    BY <1>1, <1>5, <2>2, <2>3 DEF ChainInv
<1>7. RowInv'
  <2>1. /\ kset \in [Fd -> SUBSET Side] /\ table \in [Fd -> SUBSET Side]
        /\ \A g \in Fd : kset'[g] = IF g = f THEN {} ELSE kset[g]
        /\ \A g \in Fd : table'[g] = IF g = f THEN {} ELSE table[g]
    BY <1>1 DEF KernelInv
  <2>2. Behind(f)' = {} /\ \A g \in Fd : g # f => Behind(g)' = Behind(g)
    BY <1>5 DEF Behind
  <2>3. QED
    BY <1>1, <1>5, <2>1, <2>2 DEF RowInv
<1>8. DoorInv'
  <2>1. hit' \in [Fd -> SUBSET Side] /\ \A g \in Fd : hit'[g] = IF g = f THEN {} ELSE hit[g]
    BY <1>1 DEF DoorInv, DoorTypes
  <2>2. QED
    BY <1>1, <2>1 DEF DoorInv, DoorTypes, AtTheDoor, NewsKnocks
<1>9. EndInv'
  BY <1>1 DEF EndInv
<1>10. QED
  BY <1>1, <1>2, <1>3, <1>4, <1>6, <1>7, <1>8, <1>9 DEF IInv

(***************************************************************************)
(* A wait that has something to report hands chains over and silences      *)
(* sides that have none.                                                   *)
(***************************************************************************)
LEMMA WaitKeeps ==
  ASSUME IInv, Free, UNCHANGED <<ring, world, ops, chain, orphan, door, queue, phase>>, Silent,
         ready' \subseteq Parked, \A o \in ready' : open[req[o].fd],
         NEW quiet \in [Fd -> SUBSET Side],
         \A f \in Fd : \A s \in quiet[f] : chain[f][s] = {},
         \/ Unwatched(quiet) /\ be \notin {"select", "dispatch"}
         \/ UNCHANGED <<table, kset>>
  PROVE  IInv'
<1>1. /\ KernelInv /\ OpsInv /\ OpenInv /\ ChainInv /\ RowInv /\ DoorInv /\ EndInv
      /\ phase = "open"
  BY DEF IInv, Free
<1>2. CASE UNCHANGED <<table, kset>>
  <2>1. KernelInv' /\ RowInv'
    BY <1>1, <1>2, KernelSame, RowSame
  <2>2. QED
    BY <1>1, <1>2, <2>1, OpsSame, ChainSame, DoorSame DEF IInv, OpenInv, EndInv, door
<1>3. CASE Unwatched(quiet) /\ be \notin {"select", "dispatch"}
  <2>1. /\ table' \in [Fd -> SUBSET Side] /\ kset' \in [Fd -> SUBSET Side]
        /\ \A f \in Fd : table'[f] = table[f] \ quiet[f] /\ kset'[f] = kset[f] \ quiet[f]
    BY <1>1, <1>3 DEF Unwatched, KernelInv
  <2>2. KernelInv'
    BY <1>1, <2>1 DEF KernelInv
  <2>3. RowInv'
    <3>1. ASSUME NEW f \in Fd, Behind(f)' # {}
          PROVE  table'[f] \subseteq kset'[f] /\ \A s \in Side : chain'[f][s] # {} => s \in table'[f]
      <4>1. Behind(f) # {} /\ chain' = chain
        BY <3>1 DEF Behind
      <4>2. table[f] \subseteq kset[f] /\ \A s \in Side : chain[f][s] # {} => s \in table[f]
        BY <1>1, <1>3, <4>1 DEF RowInv
      <4>3. QED
        BY <2>1, <4>1, <4>2
    <3>2. QED
      BY <1>3, <3>1 DEF RowInv
  <2>4. QED
    BY <1>1, <2>2, <2>3, OpsSame, ChainSame, DoorSame DEF IInv, OpenInv, EndInv, door
<1>4. QED
  BY <1>2, <1>3

\* The chains hold ops that are parked, on open descriptors.
LEMMA HandedOver ==
  ASSUME IInv, be # "select", NEW S \in [Fd -> SUBSET Side]
  PROVE  LET R == UNION {UNION {chain[f][s] : s \in S[f]} : f \in Fd}
         IN R \subseteq Parked /\ \A o \in R : open[req[o].fd]
<1>1. \A f \in Fd, s \in Side : chain[f][s] = Listed(f, s)
  BY DEF IInv, ChainInv
<1>2. \A f \in Fd, s \in Side : \A o \in chain[f][s] : o \in Parked /\ open[req[o].fd]
  BY <1>1 DEF IInv, OpenInv, Listed, Parked
<1>3. QED
  BY <1>2

LEMMA WaitStep ==
  ASSUME IInv, WaitEpoll \/ WaitKqueue \/ WaitSelect
  PROVE  IInv'
<1>1. /\ table \in [Fd -> SUBSET Side] /\ kset \in [Fd -> SUBSET Side]
      /\ chain \in [Fd -> [Side -> SUBSET Op]]
  BY DEF IInv, KernelInv, ChainInv
<1>2. CASE WaitEpoll
  <2> DEFINE quiet == [f \in Fd |-> EpollQuiet(f)]
             S == [f \in Fd |-> IF Broken(f) THEN Side ELSE Fired(f)]
  <2>1. S \in [Fd -> SUBSET Side] /\ \A f \in Fd : Fired(f) \subseteq Side
    BY <1>1 DEF Fired
  <2>2. ready' = UNION {UNION {chain[f][s] : s \in S[f]} : f \in Fd}
    <3>1. ready' = UNION {IF Broken(f) THEN Behind(f) ELSE UNION {chain[f][s] : s \in Fired(f)} : f \in Fd}
      BY <1>2 DEF WaitEpoll
    <3>2. \A f \in Fd : (IF Broken(f) THEN Behind(f) ELSE UNION {chain[f][s] : s \in Fired(f)})
                         = UNION {chain[f][s] : s \in S[f]}
      BY DEF Behind
    <3>3. QED
      BY <3>1, <3>2
  <2>3. /\ quiet \in [Fd -> SUBSET Side]
        /\ \A f \in Fd : \A s \in quiet[f] : chain[f][s] = {}
    BY <1>1, <2>1 DEF EpollQuiet, Behind
  <2>4. /\ be = "epoll" /\ Free /\ Unwatched(quiet) /\ Silent
        /\ UNCHANGED <<ring, world, ops, chain, orphan, door, queue, phase>>
    BY <1>2 DEF WaitEpoll
  <2> HIDE DEF quiet, S
  <2>5. ready' \subseteq Parked /\ \A o \in ready' : open[req[o].fd]
    BY <2>1, <2>2, <2>4, HandedOver
  <2>6. QED
    BY <2>3, <2>4, <2>5, WaitKeeps
<1>3. CASE WaitKqueue
  <2> DEFINE quiet == [f \in Fd |-> {s \in Knotes(f) : chain[f][s] = {}}]
             S == [f \in Fd |-> Knotes(f)]
  <2>1. S \in [Fd -> SUBSET Side] /\ quiet \in [Fd -> SUBSET Side]
    BY <1>1 DEF Knotes
  <2>2. \A f \in Fd : \A s \in quiet[f] : chain[f][s] = {}
    OBVIOUS
  <2>3. ready' = UNION {UNION {chain[f][s] : s \in S[f]} : f \in Fd}
    BY <1>3 DEF WaitKqueue
  <2>4. /\ be \in {"kqueue", "libkqueue"} /\ Free /\ Unwatched(quiet) /\ Silent
        /\ UNCHANGED <<ring, world, ops, chain, orphan, door, queue, phase>>
    BY <1>3 DEF WaitKqueue
  <2> HIDE DEF quiet, S
  <2>5. ready' \subseteq Parked /\ \A o \in ready' : open[req[o].fd]
    BY <2>1, <2>3, <2>4, HandedOver
  <2>6. QED
    BY <2>1, <2>2, <2>4, <2>5, WaitKeeps
<1>4. CASE WaitSelect
  <2>1. ready' \subseteq Parked /\ \A o \in ready' : open[req[o].fd]
    BY <1>4 DEF WaitSelect, BadSet
  <2>2. NoSides \in [Fd -> SUBSET Side] /\ \A f \in Fd : NoSides[f] = {}
    BY DEF NoSides
  <2>3. QED
    BY <1>4, <2>1, <2>2, WaitKeeps DEF WaitSelect
<1>5. QED
  BY <1>2, <1>3, <1>4

\* A step at the door, on the serial queue or at the pool.
LEMMA BesideKeeps ==
  ASSUME IInv, UNCHANGED <<ring, world, ops, reg, ready, phase>>, Silent, DoorInv', EndInv'
  PROVE  IInv'
<1>1. KernelInv /\ OpsInv /\ OpenInv /\ ChainInv /\ RowInv /\ ready \subseteq Parked
  BY DEF IInv, ChainInv
<1>2. KernelInv' /\ OpsInv' /\ OpenInv' /\ ChainInv' /\ RowInv'
  BY <1>1, KernelSame, OpsSame, OpenSame, ChainSame, RowSame
<1>3. QED
  BY <1>2 DEF IInv

\* dsp_knock_locked: the one who makes the transition is the one that owes.
LEMMA Knocks ==
  ASSUME DoorTypes, AtTheDoor, NEW a \in Op \cup {"q", "poke", "wait"}, Knock(a),
         UNCHANGED <<sem, waiter>>
  PROVE  AtTheDoor' /\ knocked' = TRUE /\ owed' \subseteq Op \cup {"q", "poke", "wait"}
<1>1. knocked' = TRUE /\ owed' = IF knocked THEN owed ELSE owed \cup {a}
  BY DEF Knock
<1>2. CASE knocked
  BY <1>1, <1>2 DEF AtTheDoor, DoorTypes
<1>3. CASE ~knocked
  <2>1. owed' = {a} /\ sem' = 0 /\ waiter' = "out"
    BY <1>1, <1>3 DEF AtTheDoor
  <2>2. QED
    BY <1>1, <2>1 DEF AtTheDoor
<1>4. QED
  BY <1>2, <1>3

LEMMA DoorParts ==
  ASSUME IInv
  PROVE  /\ DoorInv /\ DoorTypes /\ AtTheDoor /\ NewsKnocks /\ EndInv
         /\ hit \in [Fd -> SUBSET Side] /\ queued \subseteq Fd
  BY DEF IInv, DoorInv, DoorTypes

LEMMA SignalStep ==
  ASSUME IInv, NEW a, Signal(a)
  PROVE  IInv'
<1>1. /\ a \in owed /\ sem' = sem + 1 /\ owed' = owed \ {a}
      /\ running' = IF a = "q" THEN Nothing ELSE running
      /\ last' = "none"
      /\ UNCHANGED <<ring, world, ops, reg, ready, hit, queued, knocked, done, waiter, stopping, phase>>
  BY DEF Signal
<1>2. knocked = TRUE /\ sem = 0 /\ waiter = "out" /\ owed = {a}
  BY <1>1, DoorParts DEF AtTheDoor, DoorTypes
<1>3. DoorInv'
  <2>1. sem' = 1 /\ owed' = {}
    BY <1>1, <1>2
  <2>2. QED
    BY <1>1, <1>2, <2>1, DoorParts DEF DoorInv, DoorTypes, AtTheDoor, NewsKnocks
<1>4. EndInv'
  BY <1>1, DoorParts DEF EndInv, NoSides
<1>5. QED
  BY <1>1, <1>3, <1>4, BesideKeeps

LEMMA HandlerStep ==
  ASSUME IInv, NEW f \in Fd, NEW s \in Side,
         HandlerBegins(f, s) \/ CancelHandlerBegins(f, s)
  PROVE  IInv'
<1>1. UNCHANGED <<ring, world, ops, reg, ready, door, phase>> /\ Silent
  BY DEF HandlerBegins, CancelHandlerBegins
<1>2. DoorInv'
  BY <1>1, DoorParts, DoorSame
<1>3. CASE HandlerBegins(f, s)
  <2>1. /\ be = "dispatch" /\ s \in kset[f] /\ stopping' = stopping
        /\ running' = [what |-> "event", fd |-> f, side |-> s]
    BY <1>3 DEF HandlerBegins
  <2>2. phase = "open"
    BY <2>1, DoorParts DEF EndInv, NoSides
  <2>3. EndInv'
    BY <1>1, <2>1, <2>2, DoorParts DEF EndInv, door
  <2>4. QED
    BY <1>1, <1>2, <2>3, BesideKeeps
<1>4. CASE CancelHandlerBegins(f, s)
  <2>1. /\ <<f, s>> \in stopping /\ stopping' = stopping \ {<<f, s>>}
        /\ running' = [what |-> "cancel", fd |-> f, side |-> s]
    BY <1>4 DEF CancelHandlerBegins
  <2>2. phase \in {"open", "closing"} /\ be = "dispatch"
    BY <2>1, DoorParts DEF EndInv
  <2>3. EndInv'
    BY <1>1, <2>1, <2>2, DoorParts DEF EndInv, door, NoSides
  <2>4. QED
    BY <1>1, <1>2, <2>3, BesideKeeps
<1>5. QED
  BY <1>3, <1>4

LEMMA CancelHandlerEndsStep ==
  ASSUME IInv, CancelHandlerEnds
  PROVE  IInv'
<1>1. /\ running' = Nothing /\ stopping' = stopping /\ last' = "none"
      /\ UNCHANGED <<ring, world, ops, reg, ready, door, phase>>
  BY DEF CancelHandlerEnds
<1>2. DoorInv'
  BY <1>1, DoorParts, DoorSame
<1>3. EndInv'
  BY <1>1, DoorParts DEF EndInv, door, NoSides
<1>4. QED
  BY <1>1, <1>2, <1>3, BesideKeeps

\* dsp_report.
LEMMA ReportStep ==
  ASSUME IInv, HandlerReports
  PROVE  IInv'
<1>1. /\ running # Nothing /\ Knock("q")
      /\ hit' = [hit EXCEPT ![running.fd] = @ \cup {running.side}]
      /\ queued' = queued \cup {running.fd}
      /\ running' \in {running, Nothing}
      /\ last' = "none"
      /\ UNCHANGED <<ring, world, ops, reg, ready, sem, done, waiter, stopping, phase>>
  BY DEF HandlerReports
<1>2. running.fd \in Fd /\ running.side \in Side /\ be = "dispatch"
  BY <1>1, DoorParts DEF EndInv
<1>3. AtTheDoor' /\ knocked' = TRUE /\ owed' \subseteq Op \cup {"q", "poke", "wait"}
  BY <1>1, DoorParts, Knocks
<1>4. /\ hit' \in [Fd -> SUBSET Side] /\ queued' \subseteq Fd
      /\ \A f \in Fd : hit'[f] # {} => hit[f] # {} \/ f = running.fd
  BY <1>1, <1>2, DoorParts
<1>5. DoorInv'
  BY <1>1, <1>3, <1>4, DoorParts DEF DoorInv, DoorTypes, NewsKnocks
<1>6. EndInv'
  BY <1>1, <1>2, DoorParts DEF EndInv, NoSides
<1>7. QED
  BY <1>1, <1>5, <1>6, BesideKeeps

LEMMA PoolDoneStep ==
  ASSUME IInv, NEW o \in Op, PoolDone(o)
  PROVE  IInv'
<1>1. /\ at[o] = "pool" /\ done' = done \cup {o} /\ Knock(o) /\ last' = "none"
      /\ UNCHANGED <<ring, world, ops, reg, ready, hit, queued, sem, waiter, queue, phase>>
  BY DEF PoolDone
<1>2. AtTheDoor' /\ knocked' = TRUE /\ owed' \subseteq Op \cup {"q", "poke", "wait"}
  BY <1>1, DoorParts, Knocks
<1>3. DoorInv'
  BY <1>1, <1>2, DoorParts DEF DoorInv, DoorTypes, NewsKnocks
<1>4. EndInv'
  BY <1>1, DoorParts DEF EndInv, NoSides
<1>5. QED
  BY <1>1, <1>3, <1>4, BesideKeeps

LEMMA PokeStep ==
  ASSUME IInv, Poke
  PROVE  IInv'
<1>1. /\ Knock("poke") /\ last' = "none"
      /\ UNCHANGED <<ring, world, ops, reg, ready, hit, queued, sem, done, waiter, queue, phase>>
  BY DEF Poke
<1>2. AtTheDoor' /\ knocked' = TRUE /\ owed' \subseteq Op \cup {"q", "poke", "wait"}
  BY <1>1, DoorParts, Knocks
<1>3. DoorInv'
  BY <1>1, <1>2, DoorParts DEF DoorInv, DoorTypes, NewsKnocks
<1>4. EndInv'
  BY <1>1, DoorParts, EndSame
<1>5. QED
  BY <1>1, <1>3, <1>4, BesideKeeps

LEMMA ThroughTheDoorStep ==
  ASSUME IInv, WaitDispatch \/ Barrier
  PROVE  IInv'
<1>1. CASE WaitDispatch
  <2>1. /\ be = "dispatch" /\ sem > 0 /\ sem' = sem - 1 /\ waiter = "out" /\ waiter' = "barrier" /\ phase = "open"
        /\ last' = "none"
        /\ UNCHANGED <<ring, world, ops, reg, ready, hit, queued, knocked, owed, done, queue, phase>>
    BY <1>1 DEF WaitDispatch, Free
  <2>2. knocked = TRUE /\ sem = 1 /\ owed = {}
    BY <2>1, DoorParts DEF AtTheDoor, DoorTypes
  <2>3. sem' = 0
    BY <2>1, <2>2
  <2>4. DoorInv'
    BY <2>1, <2>2, <2>3, DoorParts DEF DoorInv, DoorTypes, AtTheDoor, NewsKnocks
  <2>5. EndInv'
    BY <2>1, DoorParts DEF EndInv
  <2>6. QED
    BY <2>1, <2>4, <2>5, BesideKeeps
<1>2. CASE Barrier
  <2>1. /\ waiter = "barrier" /\ waiter' = "collect" /\ last' = "none"
        /\ UNCHANGED <<ring, world, ops, reg, ready, hit, queued, knocked, sem, owed, done, queue, phase>>
    BY <1>2 DEF Barrier
  <2>2. DoorInv'
    BY <2>1, DoorParts DEF DoorInv, DoorTypes, AtTheDoor, NewsKnocks
  <2>3. EndInv'
    BY <2>1, DoorParts DEF EndInv
  <2>4. QED
    BY <2>1, <2>2, <2>3, BesideKeeps
<1>3. QED
  BY <1>1, <1>2

LEMMA TryStep ==
  ASSUME IInv, NEW o \in Op, NEW q \in Requests, TryWouldBlock(o, q)
  PROVE  IInv'
<1>1. /\ KernelInv /\ OpsInv /\ OpenInv /\ ChainInv /\ RowInv /\ DoorInv /\ EndInv
      /\ at[o] = "free" /\ open[q.fd] /\ phase = "open" /\ ready = {}
      /\ at' = [at EXCEPT ![o] = "arming"] /\ req' = [req EXCEPT ![o] = q]
      /\ last' = "none"
      /\ UNCHANGED <<ring, world, reg, ready, door, queue, phase>>
  BY DEF IInv, TryWouldBlock, Free
<1>2. q # Nothing
  BY RequestFacts
<1>3. Requests' = Requests
  BY <1>1, RequestsSame
<1>4. OpsInv' /\ OpenInv'
  BY <1>1, <1>2, <1>3 DEF OpsInv, OpenInv, Waits
<1>5. ChainInv'
  <2>1. Parked' = Parked /\ o \notin Parked /\ orphan' = orphan /\ \A p \in Parked : req'[p] = req[p]
    BY <1>1 DEF OpsInv, Parked
  <2>2. \A f, s : Listed(f, s)' = Listed(f, s)
    BY <2>1 DEF Listed
  <2>3. QED
    BY <1>1, <2>1, <2>2 DEF ChainInv
<1>6. KernelInv' /\ RowInv' /\ DoorInv'
  BY <1>1, KernelSame, RowSame, DoorSame
<1>7. EndInv'
  <2>1. \A p \in Op : (at[p] = "pool") <=> (at'[p] = "pool")
    BY <1>1 DEF OpsInv
  <2>2. QED
    BY <1>1, <2>1 DEF EndInv, door
<1>8. QED
  BY <1>1, <1>4, <1>5, <1>6, <1>7 DEF IInv

\* Ops that nobody waits for go to the pool or come back from it.
LEMMA PoolKeeps ==
  ASSUME OpsInv, OpenInv, ChainInv, UNCHANGED <<ring, open, req, chain, orphan>>,
         at' \in [Op -> {"free", "arming", "parked", "pool"}],
         \A o \in Op : at[o] = at'[o] \/ (at[o] \in {"free", "pool"} /\ at'[o] \in {"free", "pool"}),
         ready' \subseteq Parked, \A o \in ready' : open[req[o].fd]
  PROVE  OpsInv' /\ OpenInv' /\ ChainInv'
<1>1. Parked' = Parked /\ \A f, s : Listed(f, s)' = Listed(f, s)
  BY DEF Parked, Listed
<1>2. ChainInv'
  BY <1>1 DEF ChainInv
<1>3. Requests' = Requests /\ \A o \in Op : Waits(o)' = Waits(o)
  BY RequestsSame DEF Waits
<1>4. OpsInv' /\ OpenInv'
  BY <1>3 DEF OpsInv, OpenInv
<1>5. QED
  BY <1>2, <1>4

LEMMA SubmitStep ==
  ASSUME IInv, NEW o \in Op, SubmitBlocking(o)
  PROVE  IInv'
<1>1. /\ KernelInv /\ OpsInv /\ OpenInv /\ ChainInv /\ RowInv /\ DoorInv /\ EndInv
      /\ be = "dispatch" /\ at[o] = "free" /\ phase = "open" /\ ready = {}
      /\ at' = [at EXCEPT ![o] = "pool"]
      /\ last' = "none"
      /\ UNCHANGED <<ring, world, req, reg, ready, door, queue, phase>>
  BY DEF IInv, SubmitBlocking, Free
<1>2. OpsInv' /\ OpenInv' /\ ChainInv'
  <2>1. /\ at' \in [Op -> {"free", "arming", "parked", "pool"}]
        /\ \A p \in Op : at[p] = at'[p] \/ (at[p] \in {"free", "pool"} /\ at'[p] \in {"free", "pool"})
    BY <1>1 DEF OpsInv
  <2>2. QED
    BY <1>1, <2>1, PoolKeeps
<1>3. KernelInv' /\ RowInv' /\ DoorInv'
  BY <1>1, KernelSame, RowSame, DoorSame
<1>4. EndInv'
  <2>1. \A p \in Op : at[p] = "pool" => at'[p] = "pool"
    BY <1>1 DEF OpsInv
  <2>2. QED
    BY <1>1, <2>1 DEF EndInv, door
<1>5. QED
  BY <1>1, <1>2, <1>3, <1>4 DEF IInv

\* What came back from the pool is free again.
LEMMA Dropped ==
  ASSUME OpsInv, EndInv, Drop(done)
  PROVE  /\ at' \in [Op -> {"free", "arming", "parked", "pool"}]
         /\ \A o \in Op : at'[o] = IF o \in done THEN "free" ELSE at[o]
         /\ \A o \in Op : at[o] = at'[o] \/ (at[o] \in {"free", "pool"} /\ at'[o] \in {"free", "pool"})
         /\ \A o \in Op : at'[o] = "pool" => at[o] = "pool"
  BY DEF OpsInv, EndInv, Drop

\* The end of dsp_wait: pool, ready chain and door together, under the lock.
LEMMA CollectStep ==
  ASSUME IInv, Collect
  PROVE  IInv'
<1> DEFINE walked == IF Cardinality(done) < Cardinality(Op) THEN queued ELSE {}
           left == queued \ walked # {}
<1>1. /\ KernelInv /\ OpsInv /\ OpenInv /\ ChainInv /\ RowInv /\ DoorInv /\ EndInv
      /\ waiter = "collect" /\ waiter' = "out" /\ Drop(done) /\ done' = {} /\ last' = "none"
      /\ ready' = UNION {UNION {chain[f][s] : s \in hit[f]} : f \in walked}
      /\ hit' = [f \in Fd |-> IF f \in walked THEN {} ELSE hit[f]]
      /\ queued' = queued \ walked
      /\ knocked' = left
      /\ owed' = IF left THEN owed \cup {"wait"} ELSE owed
      /\ UNCHANGED <<ring, world, req, reg, sem, queue, phase>>
  BY DEF IInv, Collect
<1>2. walked \in {queued, {}}
  OBVIOUS
<1> HIDE DEF walked
<1>3. /\ queued \subseteq Fd /\ hit \in [Fd -> SUBSET Side] /\ phase = "open"
      /\ knocked = TRUE /\ sem = 0 /\ owed = {}
  BY <1>1 DEF DoorInv, DoorTypes, AtTheDoor, EndInv
<1>4. CASE be # "select"
  <2> DEFINE S == [f \in Fd |-> IF f \in walked THEN hit[f] ELSE {}]
  <2>1. S \in [Fd -> SUBSET Side]
    BY <1>3
  <2>2. ready' = UNION {UNION {chain[f][s] : s \in S[f]} : f \in Fd}
    <3>1. \A f \in walked : f \in Fd /\ S[f] = hit[f]
      BY <1>2, <1>3
    <3>2. \A f \in Fd \ walked : S[f] = {}
      OBVIOUS
    <3> HIDE DEF S
    <3>3. QED
      BY <1>1, <3>1, <3>2
  <2> HIDE DEF S
  <2>3. ready' \subseteq Parked /\ \A o \in ready' : open[req[o].fd]
    BY <1>4, <2>1, <2>2, HandedOver
  <2>4. OpsInv' /\ OpenInv' /\ ChainInv'
    BY <1>1, <2>3, Dropped, PoolKeeps
  <2>5. KernelInv' /\ RowInv'
    BY <1>1, KernelSame, RowSame
  <2>6. DoorInv'
    <3>1. /\ hit' \in [Fd -> SUBSET Side] /\ queued' \subseteq Fd
          /\ \A f \in Fd : hit'[f] = IF f \in walked THEN {} ELSE hit[f]
      BY <1>1, <1>3
    <3>2. NewsKnocks'
      BY <1>1, <1>3, <3>1 DEF DoorInv, NewsKnocks
    <3>3. AtTheDoor'
      BY <1>1, <1>3 DEF AtTheDoor
    <3>4. QED
      BY <1>1, <1>3, <3>1, <3>2, <3>3 DEF DoorInv, DoorTypes
  <2>7. EndInv'
    BY <1>1, <1>3, Dropped DEF EndInv
  <2>8. QED
    BY <1>1, <2>4, <2>5, <2>6, <2>7 DEF IInv
<1>5. be # "select"
  BY <1>1 DEF EndInv
<1>6. QED
  BY <1>4, <1>5

-----------------------------------------------------------------------------
(* The end of the ring.                                                    *)

LEMMA CloseRingStep ==
  ASSUME IInv, CloseRing
  PROVE  IInv'
<1>1. /\ KernelInv /\ OpsInv /\ OpenInv /\ ChainInv /\ RowInv /\ DoorInv /\ EndInv
      /\ phase = "open" /\ ready = {} /\ waiter = "out" /\ last' = "none"
      /\ open' = [f \in Fd |-> FALSE] /\ rdy' = NoSides /\ table' = NoSides
      /\ kset' = [f \in Fd |-> IF be = "dispatch" THEN kset[f] \ StopSources(f) ELSE {}]
      /\ chain' = [f \in Fd |-> [s \in Side |-> {}]] /\ orphan' = {}
      /\ Drop(Op \ {o \in Op : at[o] = "pool"})
      /\ req' = [o \in Op |-> Nothing]
      /\ UNCHANGED <<ring, full, ready, door, running>>
  BY DEF IInv, CloseRing, Free
<1>2. \/ /\ be = "dispatch" /\ phase' = "closing"
         /\ stopping' \subseteq Fd \X Side
      \/ be # "dispatch" /\ phase' = "freed" /\ stopping' = stopping
  <2>1. \A earlier \in SUBSET (Fd \X Side) :
          earlier \cup {x \in Fd \X Side : x[2] \in StopSources(x[1])} \subseteq Fd \X Side
    OBVIOUS
  <2>2. QED
    BY <2>1 DEF CloseRing
<1>3. kset' = NoSides
  <2>1. be = "dispatch" => \A f \in Fd : kset[f] \ StopSources(f) = {}
    BY <1>1 DEF RowInv, StopSources
  <2>2. QED
    BY <1>1, <2>1 DEF NoSides
<1>4. KernelInv'
  <2>1. NoSides \in [Fd -> SUBSET Side] /\ NoSides \in [Fd -> SUBSET {"in", "out", "err"}]
        /\ \A f \in Fd : NoSides[f] = {}
    BY DEF NoSides
  <2>2. QED
    BY <1>1, <1>3, <2>1 DEF KernelInv
<1>5. /\ at' \in [Op -> {"free", "arming", "parked", "pool"}]
      /\ \A o \in Op : at'[o] = IF at[o] = "pool" THEN "pool" ELSE "free"
  BY <1>1 DEF Drop, OpsInv
<1>6. OpsInv' /\ OpenInv' /\ ChainInv'
  <2>1. Parked' = {}
    BY <1>5 DEF Parked
  <2>2. \A o \in Op : ~Waits(o)'
    BY <1>5 DEF Waits
  <2>3. OpsInv'
    BY <1>1, <1>5, <2>2 DEF OpsInv
  <2>4. OpenInv'
    BY <1>1, <1>5 DEF OpenInv
  <2>5. ChainInv'
    BY <1>1, <2>1 DEF ChainInv, Listed
  <2>6. QED
    BY <2>3, <2>4, <2>5
<1>7. RowInv'
  <2>1. \A f \in Fd, s \in Side : chain'[f][s] = {} /\ table'[f] = {} /\ kset'[f] = {}
    BY <1>1, <1>3 DEF NoSides
  <2>2. \A f \in Fd : Behind(f)' = {}
    BY <2>1 DEF Behind
  <2>3. QED
    BY <2>1, <2>2 DEF RowInv
<1>8. DoorInv'
  BY <1>1, <1>2, DoorSame
<1>9. EndInv'
  BY <1>1, <1>2, <1>3, <1>5 DEF EndInv, door, NoSides
<1>10. QED
  BY <1>1, <1>4, <1>6, <1>7, <1>8, <1>9 DEF IInv

LEMMA CloseLooksStep ==
  ASSUME IInv, CloseLooks
  PROVE  IInv'
<1>1. /\ KernelInv /\ OpsInv /\ OpenInv /\ ChainInv /\ RowInv /\ DoorInv /\ EndInv
      /\ phase = "closing" /\ Drop(done) /\ done' = {} /\ last' = "none"
      /\ phase' = IF stopping = {} /\ (\A o \in Op \ done : at[o] # "pool") THEN "sync" ELSE phase
      /\ UNCHANGED <<ring, world, req, reg, ready, hit, queued, knocked, sem, owed, waiter, queue>>
  BY DEF IInv, CloseLooks
<1>2. ready = {} /\ \A o \in Op : at[o] \in {"free", "pool"}
  BY <1>1 DEF EndInv
<1>3. OpsInv' /\ OpenInv' /\ ChainInv'
  BY <1>1, <1>2, Dropped, PoolKeeps
<1>4. KernelInv' /\ RowInv'
  BY <1>1, KernelSame, RowSame
<1>5. DoorInv'
  BY <1>1 DEF DoorInv, DoorTypes, AtTheDoor, NewsKnocks
<1>6. EndInv'
  <2>1. \A o \in Op : at'[o] \in {"free", "pool"} /\ (at'[o] = "pool" => at[o] = "pool")
    BY <1>1, <1>2, Dropped
  <2>2. phase' = "sync" => stopping = {} /\ \A o \in Op : at'[o] = "free"
    BY <1>1, <1>2, Dropped
  <2>3. QED
    BY <1>1, <2>1, <2>2 DEF EndInv, NoSides
<1>7. QED
  BY <1>1, <1>3, <1>4, <1>5, <1>6 DEF IInv

LEMMA CloseSyncStep ==
  ASSUME IInv, CloseSync
  PROVE  IInv'
<1>1. /\ KernelInv /\ OpsInv /\ OpenInv /\ ChainInv /\ RowInv /\ DoorInv /\ EndInv
      /\ phase = "sync" /\ running = Nothing /\ phase' = "freed" /\ last' = "none"
      /\ UNCHANGED <<ring, world, ops, reg, ready, door, queue>>
      /\ ready \subseteq Parked
  BY DEF IInv, CloseSync, ChainInv
<1>2. KernelInv' /\ OpsInv' /\ OpenInv' /\ ChainInv' /\ RowInv' /\ DoorInv'
  BY <1>1, KernelSame, OpsSame, OpenSame, ChainSame, RowSame, DoorSame
<1>3. EndInv'
  BY <1>1 DEF EndInv, door, NoSides
<1>4. QED
  BY <1>1, <1>2, <1>3 DEF IInv

LEMMA StutterStep ==
  ASSUME IInv, UNCHANGED vars
  PROVE  IInv'
<1>1. /\ KernelInv /\ OpsInv /\ OpenInv /\ ChainInv /\ RowInv /\ DoorInv /\ EndInv
      /\ UNCHANGED <<ring, world, ops, last, reg, ready, door, queue, phase>>
      /\ ready \subseteq Parked
  BY DEF IInv, ChainInv, vars
<1>2. KernelInv' /\ OpsInv' /\ OpenInv' /\ ChainInv' /\ RowInv' /\ DoorInv'
  BY <1>1, KernelSame, OpsSame, OpenSame, ChainSame, RowSame, DoorSame
<1>3. EndInv'
  BY <1>1, EndSame DEF door
<1>4. QED
  BY <1>1, <1>2, <1>3 DEF IInv

-----------------------------------------------------------------------------
LEMMA InitIInv ==
  ASSUME Init
  PROVE  IInv
<1>1. /\ NoSides \in [Fd -> SUBSET Side] /\ NoSides \in [Fd -> SUBSET {"in", "out", "err"}]
      /\ \A f \in Fd : NoSides[f] = {}
  BY DEF NoSides
<1>2. KernelInv
  BY <1>1 DEF Init, KernelInv
<1>3. OpsInv /\ OpenInv
  BY DEF Init, OpsInv, OpenInv, Waits
<1>4. ChainInv
  BY DEF Init, ChainInv, Listed, Parked
<1>5. RowInv
  BY <1>1 DEF Init, RowInv, Behind
<1>6. DoorInv
  BY <1>1 DEF Init, DoorInv, DoorTypes, AtTheDoor, NewsKnocks
<1>7. EndInv
  BY DEF Init, EndInv
<1>8. QED
  BY <1>2, <1>3, <1>4, <1>5, <1>6, <1>7 DEF IInv, Init

LEMMA NextIInv ==
  ASSUME IInv, [Next]_vars
  PROVE  IInv'
<1>1. CASE UNCHANGED vars
  BY <1>1, StutterStep
<1>2. ASSUME NEW o \in Op,
             (\E q \in Requests : TryWouldBlock(o, q)) \/ Park(o) \/ Retry(o) \/ CancelParked(o)
      PROVE  IInv'
  BY <1>2, TryStep, ParkStep, RetryStep, CancelStep
<1>3. CASE \E f \in Fd : RingCloses(f)
  BY <1>3, RingClosesStep
<1>4. CASE Wait
  BY <1>4, WaitStep, ThroughTheDoorStep DEF Wait
<1>5. CASE CloseRing
  BY <1>5, CloseRingStep
<1>6. CASE Dispatch
  BY <1>6, SignalStep, HandlerStep, ReportStep, CancelHandlerEndsStep, SubmitStep, PoolDoneStep, PokeStep,
     ThroughTheDoorStep, CollectStep, CloseLooksStep, CloseSyncStep DEF Dispatch
<1>7. CASE World
  <2>1. CASE KernelFills
    BY <2>1, KernelFillsStep
  <2>2. ASSUME NEW f \in Fd, Open(f) \/ ProgramCloses(f) \/ BecomesReady(f, "err")
        PROVE  IInv'
    BY <2>2, WorldStep, ProgramClosesStep
  <2>3. ASSUME NEW f \in Fd, NEW s \in Side, BecomesReady(f, s) \/ LosesReadiness(f, s)
        PROVE  IInv'
    <3>1. s \in {"in", "out", "err"}
      OBVIOUS
    <3>2. QED
      BY <2>3, <3>1, WorldStep
  <2>4. QED
    BY <1>7, <2>1, <2>2, <2>3 DEF World
<1>8. QED
  BY <1>1, <1>2, <1>3, <1>4, <1>5, <1>6, <1>7 DEF Next

LEMMA Invariance == Spec => []IInv
  BY InitIInv, NextIInv, PTL DEF Spec

-----------------------------------------------------------------------------
(* What it gives.                                                          *)

(***************************************************************************)
(* Every variable of engine_posix.c's parking and of the four backends     *)
(* keeps its type; the semaphore of dsp_wait is 0 or 1, no orphan and      *)
(* nothing handed over is other than parked, and what came back from the   *)
(* pool was there.                                                         *)
(***************************************************************************)
THEOREM TypeCorrect == Spec => []TypeOK
<1>1. IInv => TypeOK
  <2>1. ASSUME IInv PROVE sem \in {0, 1}
    BY <2>1 DEF IInv, DoorInv, AtTheDoor
  <2>2. QED
    BY <2>1 DEF IInv, KernelInv, OpsInv, ChainInv, DoorInv, DoorTypes, EndInv, TypeOK
<1>2. QED
  BY <1>1, Invariance, PTL

(***************************************************************************)
(* A wakeup names its own waiters: epoll's rows, kqueue's and dispatch's   *)
(* chains hold the parked ops of their descriptor and side and no other,   *)
(* however each left before (park, unpark, finish_ready, cancel, forget).  *)
(***************************************************************************)
THEOREM WakeupsNameTheirWaiters == Spec => []ChainsAreParked
<1>1. IInv => ChainsAreParked
  BY DEF IInv, ChainInv, Listed, ChainsAreParked
<1>2. QED
  BY <1>1, Invariance, PTL

(***************************************************************************)
(* No op is parked on what the kernel does not watch, though the table     *)
(* outlives the files it was written for: epoll_arm and kqueue_arm do not  *)
(* believe an idle row, and ep_quiet, kqueue_wait and dsp_disarm end no    *)
(* registration with a waiter.                                             *)
(***************************************************************************)
THEOREM KernelWatchesWaiters == Spec => []KernelWatches
<1>1. IInv => KernelWatches
  <2>1. SUFFICES ASSUME IInv, be # "select", NEW o \in Parked \ orphan
                 PROVE  SideOf(req[o].want) \in kset[req[o].fd]
    BY DEF KernelWatches
  <2> DEFINE f == req[o].fd
             s == SideOf(req[o].want)
  <2>2. f \in Fd /\ s \in Side
    <3>1. o \in Op /\ Waits(o) /\ OpsInv
      BY <2>1 DEF IInv, Parked, Waits
    <3>2. QED
      BY <3>1, AskedFacts
  <2>3. o \in chain[f][s]
    BY <2>1, <2>2 DEF IInv, ChainInv, Listed
  <2>4. Behind(f) # {} /\ chain[f][s] # {}
    BY <2>2, <2>3 DEF Behind
  <2>5. QED
    BY <2>1, <2>2, <2>4 DEF IInv, RowInv
<1>2. QED
  BY <1>1, Invariance, PTL

(***************************************************************************)
(* The semaphore counts transitions: as long as something is to be         *)
(* collected there is one signal owed, one on the count, or the waiter on  *)
(* its way in, and otherwise none (dsp_knock_locked, dsp_wait).            *)
(***************************************************************************)
THEOREM OneSignalPerKnock == Spec => []OneKnock
<1>1. IInv => OneKnock
  <2>1. Cardinality({}) = 0 /\ \A a : Cardinality({a}) = 1
    BY FS_EmptySet, FS_Singleton
  <2>2. SUFFICES ASSUME IInv PROVE OneKnock
    OBVIOUS
  <2>3. AtTheDoor /\ knocked \in BOOLEAN
    BY <2>2, DoorParts DEF DoorTypes
  <2>4. CASE owed = {}
    BY <2>1, <2>3, <2>4 DEF AtTheDoor, OneKnock
  <2>5. ASSUME NEW a, owed = {a} PROVE OneKnock
    <3>1. owed # {} /\ Cardinality(owed) = 1
      BY <2>1, <2>5
    <3>2. QED
      BY <2>3, <3>1 DEF AtTheDoor, OneKnock
  <2>6. QED
    BY <2>3, <2>4, <2>5 DEF AtTheDoor
<1>2. QED
  BY <1>1, Invariance, PTL

(***************************************************************************)
(* What handlers and the pool have brought is behind a door that has been  *)
(* knocked at: a hit is on the ready chain, and dsp_wait knocks again for  *)
(* what it leaves there.                                                   *)
(***************************************************************************)
THEOREM NewsIsKnocked == Spec => []NewsKnocks
<1>1. IInv => NewsKnocks
  BY DEF IInv, DoorInv
<1>2. QED
  BY <1>1, Invariance, PTL

(***************************************************************************)
(* Once close_ring has freed the ring's state no handler runs or is still  *)
(* to run, the kernel watches nothing and no op is out.                    *)
(***************************************************************************)
THEOREM NothingRunsFreed == Spec => []FreedWhenQuiet
<1>1. IInv => FreedWhenQuiet
  BY DEF IInv, EndInv, FreedWhenQuiet
<1>2. QED
  BY <1>1, Invariance, PTL

-----------------------------------------------------------------------------
(* Each backend implements PollSet.                                        *)

\* PollSet's variables in terms of this module's.
W == [o \in Op |-> IF Waits(o) THEN req[o] ELSE Nothing]
Room == {f \in Fd : open[f] /\ IF be = "select" THEN f < ring.setsize ELSE ~full}

LEMMA WaitsAreRequests ==
  ASSUME OpsInv
  PROVE  W = req
  BY DEF OpsInv, W

\* Nobody's waiting begins or ends, and nothing is answered.
LEMMA PeerStep ==
  ASSUME IInv, IInv', Silent, UNCHANGED req, phase # "open" <=> phase' # "open"
  PROVE  PS!Next
<1>1. W' = W
  BY WaitsAreRequests DEF IInv, OpsInv, W
<1>2. PS!World
  BY <1>1 DEF PS!World, W
<1>3. QED
  BY <1>2 DEF PS!Next

LEMMA ReadyMeansReady ==
  ASSUME IInv, NEW q \in Requests
  PROVE  IsReady(q) <=> PS!IsReady(q)
<1>1. q.want \subseteq Side /\ q.want # {} /\ q.fd \in Fd
  BY RequestFacts
<1>2. QED
  BY <1>1 DEF IsReady, Ready, PS!IsReady

LEMMA TryRefines ==
  ASSUME IInv, IInv', NEW o \in Op, NEW q \in Requests, TryWouldBlock(o, q)
  PROVE  PS!Next
<1>1. /\ ~IsReady(q) /\ phase = "open" /\ at[o] = "free"
      /\ req' = [req EXCEPT ![o] = q]
      /\ last' = "none"
      /\ UNCHANGED <<ring, open, rdy, full, phase>>
  BY DEF TryWouldBlock, Free
<1>2. W = req /\ W' = req' /\ req[o] = Nothing
  <2>1. OpsInv /\ OpsInv'
    BY DEF IInv
  <2>2. W = req /\ req[o] = Nothing
    BY <1>1, <2>1, WaitsAreRequests DEF OpsInv, Waits
  <2>3. W' = req'
    BY <2>1 DEF OpsInv, W
  <2>4. QED
    BY <2>2, <2>3
<1>3. q = [fd |-> q.fd, want |-> q.want] /\ q.fd \in Fd /\ q.want \in SUBSET {"in", "out"}
  BY RequestFacts
<1>4. ~PS!IsReady(q)
  BY <1>1, ReadyMeansReady
<1>5. Room' = Room
  BY <1>1 DEF Room
<1>6. PS!Park(o, q)
  BY <1>1, <1>2, <1>4, <1>5 DEF PS!Park, W, Room
<1>7. \E f \in Fd, w \in SUBSET {"in", "out"} : PS!Park(o, [fd |-> f, want |-> w])
  BY <1>3, <1>6
<1>8. QED
  BY <1>7 DEF PS!Next

LEMMA WaitsBothSides ==
  ASSUME IInv, IInv'
  PROVE  OpsInv /\ W = req /\ W' = req'
<1>1. OpsInv /\ OpsInv'
  BY DEF IInv
<1>2. W' = req'
  BY <1>1 DEF OpsInv, W
<1>3. QED
  BY <1>1, <1>2, WaitsAreRequests

LEMMA ParkRefines ==
  ASSUME IInv, IInv', NEW o \in Op, Park(o)
  PROVE  PS!Next
<1> DEFINE f == req[o].fd
           arm == Registered(f, req[o].want)
<1>1. /\ at[o] = "arming" /\ Waits(o)
      /\ KernelInv /\ OpsInv /\ OpenInv /\ ChainInv /\ RowInv
      /\ UNCHANGED <<ring, open, rdy, phase>>
  BY DEF IInv, Park, Waits
<1>2. req[o] \in Requests /\ req[o] # Nothing /\ f \in Fd /\ open[f]
  BY <1>1, AskedFacts DEF OpenInv
<1>3. ArmedWell(f, req[o].want, arm)
  BY <1>1, <1>2, Arms
<1>4. CASE arm.ok
  <2>1. req' = req /\ last' = "none"
    BY <1>4 DEF Park
  <2>2. QED
    BY <1>1, <2>1, PeerStep
<1>5. CASE ~arm.ok
  <2>1. req' = [req EXCEPT ![o] = Nothing] /\ last' = "ebusy"
    BY <1>5 DEF Park, Gone
  <2>2. f \notin Room
    BY <1>3, <1>5 DEF ArmedWell, Room
  <2>3. PS!Refuse(o)
    BY <1>1, <1>2, <2>1, <2>2, WaitsBothSides DEF PS!Refuse, PS!Leave, W, Room
  <2>4. QED
    BY <2>3 DEF PS!Next
<1>6. QED
  BY <1>4, <1>5

LEMMA RetryRefines ==
  ASSUME IInv, IInv', NEW o \in Op, Retry(o)
  PROVE  PS!Next
<1>1. Waits(o) /\ UNCHANGED <<ring, open, full, phase>>
  BY DEF IInv, Retry, ChainInv, Parked, Waits
<1>2. req[o] \in Requests /\ req[o] # Nothing /\ req[o].fd \in Fd
  BY <1>1, AskedFacts DEF IInv
<1>3. CASE /\ IsReady(req[o]) /\ Gone(o, "ok")
           /\ \/ UNCHANGED rdy
              \/ \E s \in req[o].want : rdy' = [rdy EXCEPT ![req[o].fd] = @ \ {s}]
  <2>1. PS!IsReady(req[o])
    BY <1>2, <1>3, ReadyMeansReady
  <2>2. req' = [req EXCEPT ![o] = Nothing] /\ last' = "ok"
    BY <1>3 DEF Gone
  <2>3. /\ rdy'[req[o].fd] \subseteq rdy[req[o].fd]
        /\ \A g \in Fd \ {req[o].fd} : rdy'[g] = rdy[g]
    BY <1>2, <1>3 DEF IInv, KernelInv
  <2>4. PS!Answer(o)
    BY <1>1, <1>2, <2>1, <2>2, <2>3, WaitsBothSides DEF PS!Answer, PS!Leave, W
  <2>5. QED
    BY <2>4 DEF PS!Next
<1>4. CASE req' = req /\ last' = "none"
  BY <1>1, <1>4, PeerStep
<1>5. QED
  BY <1>3, <1>4 DEF Retry

LEMMA CancelRefines ==
  ASSUME IInv, IInv', NEW o \in Op, CancelParked(o)
  PROVE  PS!Next
<1>1. /\ Waits(o) /\ req' = [req EXCEPT ![o] = Nothing] /\ last' = "ecanceled"
      /\ UNCHANGED <<ring, open, rdy, full, phase>>
  BY DEF CancelParked, Gone, Waits
<1>2. req[o] # Nothing
  BY <1>1, AskedFacts DEF IInv
<1>3. PS!Cancel(o)
  BY <1>1, <1>2, WaitsBothSides DEF PS!Cancel, PS!Leave, W
<1>4. QED
  BY <1>3 DEF PS!Next

LEMMA CloseRefines ==
  ASSUME IInv, IInv', CloseRing
  PROVE  PS!Next
<1>1. phase = "open" /\ phase' # "open" /\ req' = [o \in Op |-> Nothing] /\ last' = "none"
  BY DEF CloseRing, Free
<1>2. PS!CloseRing
  BY <1>1, WaitsBothSides DEF PS!CloseRing, W
<1>3. QED
  BY <1>2 DEF PS!Next

\* The rest is between backend and peers.
LEMMA OtherRefines ==
  ASSUME IInv, IInv',
         (\E f \in Fd : RingCloses(f)) \/ Wait \/ Dispatch \/ World
  PROVE  PS!Next
<1>1. CASE \E f \in Fd : RingCloses(f)
  BY <1>1, PeerStep DEF RingCloses
<1>2. CASE Wait
  BY <1>2, PeerStep DEF Wait, WaitEpoll, WaitKqueue, WaitSelect, WaitDispatch
<1>3. CASE World
  BY <1>3, PeerStep DEF World, Open, ProgramCloses, BecomesReady, LosesReadiness, KernelFills
<1>4. CASE Dispatch
  <2>1. CASE CloseLooks
    <3>1. phase = "closing" /\ phase' \in {"closing", "sync"} /\ Silent /\ req' = req
      BY <2>1 DEF CloseLooks
    <3>2. QED
      BY <3>1, PeerStep
  <2>2. CASE CloseSync
    <3>1. phase = "sync" /\ phase' = "freed" /\ Silent /\ req' = req
      BY <2>2 DEF CloseSync
    <3>2. QED
      BY <3>1, PeerStep
  <2>3. CASE ~CloseLooks /\ ~CloseSync
    <3>1. Silent /\ req' = req /\ phase' = phase
      BY <1>4, <2>3 DEF Dispatch, Signal, HandlerBegins, CancelHandlerBegins, HandlerReports,
         CancelHandlerEnds, SubmitBlocking, PoolDone, Poke, Barrier, Collect
    <3>2. QED
      BY <3>1, PeerStep
  <2>4. QED
    BY <2>1, <2>2, <2>3
<1>5. QED
  BY <1>1, <1>2, <1>3, <1>4

(***************************************************************************)
(* epoll, kqueue, libkqueue, select and dispatch are one set of waiting    *)
(* requests to the ring: whatever tables, handlers and reused numbers are  *)
(* behind it, a request leaves only done at a moment when it was ready,    *)
(* refused when its descriptor could not be registered, cancelled, or with *)
(* the ring.                                                               *)
(***************************************************************************)
THEOREM EachBackendIsAPollSet == Spec => PollSetSpec
<1>1. Init => PS!Init
  <2> SUFFICES ASSUME Init PROVE PS!Init
    OBVIOUS
  <2>1. W = [o \in Op |-> Nothing] /\ Room \subseteq Fd
    BY DEF Init, W, Waits, Room
  <2>2. last = "none" /\ rdy = [f \in Fd |-> {}] /\ phase = "open"
    BY DEF Init, NoSides
  <2>3. QED
    BY <2>1, <2>2 DEF PS!Init, W, Room
<1>2. IInv /\ IInv' /\ [Next]_vars => [PS!Next]_(PS!vars)
  <2> SUFFICES ASSUME IInv, IInv', [Next]_vars PROVE [PS!Next]_(PS!vars)
    OBVIOUS
  <2>1. CASE UNCHANGED vars
    <3>1. UNCHANGED <<ring, open, rdy, full, req, last, phase>>
      BY <2>1 DEF vars
    <3>2. W' = W /\ Room' = Room
      BY <3>1, WaitsBothSides DEF Room
    <3>3. QED
      BY <3>1, <3>2 DEF PS!vars, W, Room
  <2>2. CASE Next /\ ~UNCHANGED vars
    BY <2>2, TryRefines, ParkRefines, RetryRefines, CancelRefines, CloseRefines, OtherRefines DEF Next
  <2>3. QED
    BY <2>1, <2>2
<1>3. QED
  BY <1>1, <1>2, Invariance, PTL DEF Spec, PollSetSpec, PS!Spec

=============================================================================
