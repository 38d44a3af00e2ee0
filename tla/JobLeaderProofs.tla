--------------------------- MODULE JobLeaderProofs ---------------------------
(***************************************************************************)
(* Proofs about JobLeader.  Base needs no assumption on the timing; Reign  *)
(* says that a leader's lease outlasts its worst sequence of failures, and *)
(* needs the intervals to leave room for the calls.  The last part shows   *)
(* that the election implements the lease of JobLease.                     *)
(***************************************************************************)
EXTENDS JobLeader, TLAPS

Heart     == {"beat", "check", "renew"}
Trying    == {"create", "read", "steal"}
Returning == {"release", "delete"}

\* Which variables matter where: tokens belong to leaders and to processes giving the lease
\* back, drafts to processes that try, and only a leader, or one conceding, runs jobs.
Control ==
    \A p \in Procs :
        /\ leader[p] <=> pc[p] \in Heart
        /\ token[p] \in Tokens <=> pc[p] \in Heart \cup Returning
        /\ draft[p] \in Tokens <=> pc[p] \in Trying
        /\ sched[p] = "running" => pc[p] \in Heart \cup {"conceding"}

\* A uuid in use is in use once.
Unique ==
    \A p, q \in Procs : p # q =>
        /\ token[p] # None => token[p] # token[q] /\ token[p] # draft[q]
        /\ draft[p] # None => draft[p] # draft[q]

\* How old the "now" of a payload can be when it is written.
Ages ==
    \A p \in Procs :
        /\ pc[p] \in {"create", "renew"} => age[p] + wait[p] <= CallTime
        /\ pc[p] = "read"  => age[p] + wait[p] <= 2 * CallTime
        /\ pc[p] = "steal" => age[p] + wait[p] <= 3 * CallTime

\* What a process that is about to write knows of a key nobody has written since.
Readers ==
    \A p \in Procs :
        /\ pc[p] \in {"renew", "delete"} =>
              seen[p] # "absent" /\ (seen[p] = "current" => key.tok = token[p])
        /\ pc[p] = "steal" /\ seen[p] = "current" => key.left <= 0

Base == TypeOK /\ Control /\ Unique /\ Ages /\ Readers

-----------------------------------------------------------------------------

LEMMA InitBase == Init => Base
BY JobLeaderAssumption
   DEF Init, Base, TypeOK, Control, Unique, Ages, Readers, NoKey, MaxAge, Steps, Sleeping,
       Calling, Heart, Trying, Returning

LEMMA WriteType ==
    ASSUME Base, NEW t \in Tokens, NEW a \in 0..(3 * CallTime), Write(t, Lease - a)
    PROVE  /\ key' \in [tok : Tokens \cup {None}, left : (-MaxAge)..Lease]
           /\ seen' \in [Procs -> {"current", "stale", "absent"}]
<1>1. Lease - a \in (-MaxAge)..Lease
    BY JobLeaderAssumption DEF MaxAge
<1> QED BY <1>1 DEF Write, NewRevision, Base, TypeOK

LEMMA TryBase ==
    ASSUME Base, NEW p \in Procs, Try(p)
    PROVE  Base'
<1> USE JobLeaderAssumption
<1> DEFINE t == CHOOSE u \in Tokens : Unused(u)
<1>1. t \in Tokens /\ Unused(t)
    BY DEF Try
<1>2. draft' = [draft EXCEPT ![p] = t] /\ t \in Tokens
      /\ \A q \in Procs : t # token[q] /\ t # draft[q]
    BY <1>1 DEF Try, Unused
<1> HIDE DEF t
<1>3. TypeOK'
    BY <1>2 DEF Base, TypeOK, Try, Call, NowIs, Steps, Calling
<1>4. Control'
    BY <1>2 DEF Base, TypeOK, Try, Call, Control, Heart, Trying, Returning
<1>5. Unique'
  <2>1. UNCHANGED token /\ token \in [Procs -> Tokens \cup {None}]
        /\ draft \in [Procs -> Tokens \cup {None}] /\ Unique
      BY DEF Base, TypeOK, Try
  <2>2. ASSUME NEW q \in Procs, NEW r \in Procs, q # r
        PROVE  /\ token'[q] # None => token'[q] # token'[r] /\ token'[q] # draft'[r]
               /\ draft'[q] # None => draft'[q] # draft'[r]
    <3>1. CASE q = p
        BY <1>2, <2>1, <2>2, <3>1 DEF Unique
    <3>2. CASE q # p
        BY <1>2, <2>1, <2>2, <3>2 DEF Unique
    <3> QED BY <3>1, <3>2
  <2> QED BY <2>2 DEF Unique
<1>6. Ages' /\ Readers'
    BY DEF Base, TypeOK, Try, Call, NowIs, Ages, Readers
<1> QED BY <1>3, <1>4, <1>5, <1>6 DEF Base

LEMMA CreateBase ==
    ASSUME Base, NEW p \in Procs, Create(p)
    PROVE  Base'
<1> USE JobLeaderAssumption
<1>1. draft[p] \in Tokens /\ age[p] \in 0..CallTime
    BY DEF Base, TypeOK, Control, Ages, Create, Trying
<1>a. Write(draft[p], Lease - age[p]) \/ UNCHANGED <<key, seen>>
    BY DEF Create
<1>b. /\ key' \in [tok : Tokens \cup {None}, left : (-MaxAge)..Lease]
      /\ seen' \in [Procs -> {"current", "stale", "absent"}]
    BY <1>1, <1>a, WriteType DEF Base, TypeOK
<1>2. TypeOK'
  <2>1. pc' \in [Procs -> Steps] /\ wait' \in [Procs -> Nat] /\ age' \in [Procs -> Nat]
      BY DEF Base, TypeOK, Create, Won, Resumed, Sleep, Call, Steps, Calling, Sleeping
  <2>2. /\ leader' \in [Procs -> BOOLEAN]
        /\ token' \in [Procs -> Tokens \cup {None}]
        /\ draft' \in [Procs -> Tokens \cup {None}]
      BY <1>1 DEF Base, TypeOK, Create, Won, Resumed
  <2>3. fails' \in [Procs -> 0..(MaxRetries - 1)]
      BY DEF Base, TypeOK, Create, Won, Resumed
  <2>4. sched' \in [Procs -> {"stopped", "running", "paused"}] /\ faults' \in 0..MaxFaults
      BY DEF Base, TypeOK, Create, Won, Resumed, Fault, NoFault
  <2> QED BY <1>b, <2>1, <2>2, <2>3, <2>4 DEF TypeOK
<1>3. Control'
    BY <1>1 DEF Base, TypeOK, Create, Write, NewRevision, Won, Resumed, Sleep, Call, Control,
                Heart, Trying, Returning
<1>6. Unique'
    BY <1>1 DEF Base, TypeOK, Create, Write, NewRevision, Won, Resumed, Sleep, Call, Control, Unique,
                Heart, Trying, Returning
<1>4. Ages'
    BY <1>1 DEF Base, TypeOK, Create, Won, Resumed, Sleep, Call, Ages
<1>5. Readers'
    BY <1>1 DEF Base, TypeOK, Create, Write, NewRevision, Won, Resumed, Sleep, Call, Readers
<1> QED BY <1>2, <1>3, <1>4, <1>5, <1>6 DEF Base

LEMMA ReadKeyBase ==
    ASSUME Base, NEW p \in Procs, ReadKey(p)
    PROVE  Base'
<1> USE JobLeaderAssumption
<1>1. age[p] \in Nat /\ key.left \in Int
    BY DEF Base, TypeOK, MaxAge
<1>2. TypeOK'
    BY DEF Base, TypeOK, ReadKey, Read, Lost, Sleep, Call, Fault, NoFault, Steps, Calling,
           Sleeping
<1>3. Control' /\ Unique' /\ Ages'
    BY DEF Base, TypeOK, ReadKey, Read, Lost, Sleep, Call, Control, Unique, Ages, Heart,
           Trying, Returning
<1>4. Readers'
    BY <1>1 DEF Base, TypeOK, ReadKey, Read, Lost, Sleep, Call, Readers, Expired
<1> QED BY <1>2, <1>3, <1>4 DEF Base

LEMMA StealBase ==
    ASSUME Base, NEW p \in Procs, Steal(p)
    PROVE  Base'
<1> USE JobLeaderAssumption
<1>1. draft[p] \in Tokens /\ age[p] \in 0..(3 * CallTime)
    BY DEF Base, TypeOK, Control, Ages, Steal, Trying
<1>a. Write(draft[p], Lease - age[p]) \/ UNCHANGED <<key, seen>>
    BY DEF Steal
<1>b. /\ key' \in [tok : Tokens \cup {None}, left : (-MaxAge)..Lease]
      /\ seen' \in [Procs -> {"current", "stale", "absent"}]
    BY <1>1, <1>a, WriteType DEF Base, TypeOK
<1>2. TypeOK'
  <2>1. pc' \in [Procs -> Steps] /\ wait' \in [Procs -> Nat] /\ age' \in [Procs -> Nat]
      BY DEF Base, TypeOK, Steal, Won, Resumed, Lost, Sleep, Steps, Sleeping
  <2>2. /\ leader' \in [Procs -> BOOLEAN]
        /\ token' \in [Procs -> Tokens \cup {None}]
        /\ draft' \in [Procs -> Tokens \cup {None}]
      BY <1>1 DEF Base, TypeOK, Steal, Won, Resumed, Lost
  <2>3. fails' \in [Procs -> 0..(MaxRetries - 1)]
      BY DEF Base, TypeOK, Steal, Won, Resumed, Lost
  <2>4. sched' \in [Procs -> {"stopped", "running", "paused"}] /\ faults' \in 0..MaxFaults
      BY DEF Base, TypeOK, Steal, Won, Resumed, Lost, Fault, NoFault
  <2> QED BY <1>b, <2>1, <2>2, <2>3, <2>4 DEF TypeOK
<1>3. Control' /\ Unique'
    BY <1>1 DEF Base, TypeOK, Steal, Write, NewRevision, Won, Resumed, Lost, Sleep, Control, Unique,
                Heart, Trying, Returning
<1>4. Ages'
    BY <1>1 DEF Base, TypeOK, Steal, Won, Resumed, Lost, Sleep, Ages
<1>5. Readers'
    BY <1>1 DEF Base, TypeOK, Steal, Write, NewRevision, Won, Resumed, Lost, Sleep, Readers
<1> QED BY <1>2, <1>3, <1>4, <1>5 DEF Base

LEMMA BeatBase ==
    ASSUME Base, NEW p \in Procs, Beat(p)
    PROVE  Base'
BY JobLeaderAssumption
   DEF Base, TypeOK, Beat, Call, Control, Unique, Ages, Readers, Heart, Trying, Returning,
       Steps, Calling

(* The common part of the steps in which a renewal fails. *)
LEMMA FailureBase ==
    ASSUME Base, NEW p \in Procs, pc[p] \in {"check", "renew"},
           RenewalFailed(p) \/ Concede(p), UNCHANGED age,
           faults' \in 0..MaxFaults,
           \/ UNCHANGED <<key, seen>>
           \/ /\ pc[p] = "renew" /\ RevisionHolds(p)
              /\ Write(token[p], Lease - age[p])
    PROVE  Base'
<1> USE JobLeaderAssumption
<1>1. token[p] \in Tokens /\ leader[p]
    BY DEF Base, Control, Heart
<1>2. pc[p] = "renew" => age[p] \in 0..CallTime
    BY DEF Base, TypeOK, Ages
<1>a. /\ key' \in [tok : Tokens \cup {None}, left : (-MaxAge)..Lease]
      /\ seen' \in [Procs -> {"current", "stale", "absent"}]
    BY <1>1, <1>2, WriteType DEF Base, TypeOK
<1>3. TypeOK'
  <2>1. pc' \in [Procs -> Steps] /\ wait' \in [Procs -> Nat] /\ age' \in [Procs -> Nat]
      BY DEF Base, TypeOK, RenewalFailed, Concede, RetryWait, Sleep, Steps, Sleeping
  <2>2. /\ leader' \in [Procs -> BOOLEAN]
        /\ token' \in [Procs -> Tokens \cup {None}]
        /\ draft' \in [Procs -> Tokens \cup {None}]
        /\ sched' \in [Procs -> {"stopped", "running", "paused"}]
      BY DEF Base, TypeOK, RenewalFailed, Concede
  <2>3. ~Exhausted(fails[p] + 1) => fails[p] + 1 \in 0..(MaxRetries - 1)
      BY DEF Base, TypeOK, Exhausted
  <2>4. fails' \in [Procs -> 0..(MaxRetries - 1)]
      BY <2>3 DEF Base, TypeOK, RenewalFailed, Concede
  <2> QED BY <1>a, <2>1, <2>2, <2>4 DEF TypeOK
<1>4. Control'
    BY <1>1 DEF Base, TypeOK, RenewalFailed, Concede, Sleep, Control, Heart, Trying, Returning
<1>6. Unique'
    BY <1>1 DEF Base, TypeOK, RenewalFailed, Concede, Sleep, Unique, Control, Heart, Trying,
                Returning
<1>7. Ages'
    BY <1>1 DEF Base, TypeOK, RenewalFailed, Concede, Sleep, Ages
<1>5. Readers'
    BY <1>1 DEF Base, TypeOK, RenewalFailed, Concede, Sleep, Write, NewRevision, Readers
<1> QED BY <1>3, <1>4, <1>5, <1>6, <1>7 DEF Base

LEMMA CheckBase ==
    ASSUME Base, NEW p \in Procs, Check(p)
    PROVE  Base'
<1> USE JobLeaderAssumption
<1>1. faults' \in 0..MaxFaults
    BY DEF Base, TypeOK, Check, Fault, NoFault
<1>2. CASE RenewalFailed(p) /\ UNCHANGED <<seen, age>>
    BY <1>1, <1>2, FailureBase DEF Check
<1>3. CASE Concede(p) /\ UNCHANGED <<seen, age>>
    BY <1>1, <1>3, FailureBase DEF Check
<1>4. CASE key.tok = token[p] /\ Read(p, "current") /\ Call(p, "renew") /\ NowIs(p)
           /\ UNCHANGED <<leader, token, draft, fails, sched>>
  <2>1. TypeOK'
      BY <1>1, <1>4 DEF Base, TypeOK, Check, Read, Call, NowIs, Steps, Calling
  <2>2. Control' /\ Unique' /\ Ages' /\ Readers'
      BY <1>4 DEF Base, TypeOK, Check, Read, Call, NowIs, Control, Unique, Ages, Readers,
                  Heart, Trying, Returning
  <2> QED BY <2>1, <2>2 DEF Base
<1> QED BY <1>2, <1>3, <1>4 DEF Check

LEMMA RenewBase ==
    ASSUME Base, NEW p \in Procs, Renew(p)
    PROVE  Base'
<1> USE JobLeaderAssumption
<1>1. faults' \in 0..MaxFaults
    BY DEF Base, TypeOK, Renew, Fault, NoFault
<1>2. CASE RenewalFailed(p)
    BY <1>1, <1>2, FailureBase DEF Renew
<1>3. CASE /\ RevisionHolds(p) /\ Write(token[p], Lease - age[p])
           /\ fails' = [fails EXCEPT ![p] = 0]
           /\ Sleep(p, "beat", Interval)
           /\ UNCHANGED <<leader, token, draft, sched>>
  <2>1. token[p] \in Tokens /\ age[p] \in 0..CallTime
      BY DEF Base, TypeOK, Control, Ages, Renew, Heart
  <2>a. /\ key' \in [tok : Tokens \cup {None}, left : (-MaxAge)..Lease]
        /\ seen' \in [Procs -> {"current", "stale", "absent"}]
      BY <1>3, <2>1, WriteType
  <2>2. TypeOK'
    <3>1. pc' \in [Procs -> Steps] /\ wait' \in [Procs -> Nat] /\ age' \in [Procs -> Nat]
        BY <1>3 DEF Base, TypeOK, Renew, Sleep, Steps, Sleeping
    <3>2. fails' \in [Procs -> 0..(MaxRetries - 1)]
        BY <1>3 DEF Base, TypeOK
    <3> QED BY <1>1, <1>3, <2>a, <3>1, <3>2 DEF Base, TypeOK
  <2>3. Control' /\ Unique' /\ Ages' /\ Readers'
      BY <1>3, <2>1 DEF Base, TypeOK, Renew, Write, NewRevision, Sleep, Control, Unique, Ages,
                        Readers, Heart, Trying, Returning
  <2> QED BY <2>2, <2>3 DEF Base
<1> QED BY <1>2, <1>3 DEF Renew

LEMMA PauseBase ==
    ASSUME Base, NEW p \in Procs, Pause(p)
    PROVE  Base'
BY JobLeaderAssumption
   DEF Base, TypeOK, Pause, Sleep, Control, Unique, Ages, Readers, Heart, Trying, Returning,
       Steps, Sleeping

LEMMA LeaveBase ==
    ASSUME Base, NEW p \in Procs, Stop(p) \/ Crash(p) \/ Release(p) \/ Delete(p)
    PROVE  Base'
<1> USE JobLeaderAssumption
<1>1. TypeOK'
  <2>1. key' \in [tok : Tokens \cup {None}, left : (-MaxAge)..Lease]
    <3>1. NoKey \in [tok : Tokens \cup {None}, left : (-MaxAge)..Lease]
        BY DEF NoKey, MaxAge
    <3> QED BY <3>1 DEF Base, TypeOK, Stop, Crash, Release, Delete
  <2>2. pc' \in [Procs -> Steps] /\ wait' \in [Procs -> Nat] /\ age' \in [Procs -> Nat]
      BY DEF Base, TypeOK, Stop, Crash, Release, Delete, Gone, Call, Sleep, Steps, Calling
  <2>3. /\ leader' \in [Procs -> BOOLEAN]
        /\ token' \in [Procs -> Tokens \cup {None}]
        /\ draft' \in [Procs -> Tokens \cup {None}]
      BY DEF Base, TypeOK, Stop, Crash, Release, Delete, Gone
  <2>4. seen' \in [Procs -> {"current", "stale", "absent"}]
      BY DEF Base, TypeOK, Stop, Crash, Release, Delete, Read, NewRevision
  <2>5. fails' \in [Procs -> 0..(MaxRetries - 1)]
      BY DEF Base, TypeOK, Stop, Crash, Release, Delete
  <2>6. sched' \in [Procs -> {"stopped", "running", "paused"}] /\ faults' \in 0..MaxFaults
      BY DEF Base, TypeOK, Stop, Crash, Release, Delete, Fault, NoFault
  <2> QED BY <2>1, <2>2, <2>3, <2>4, <2>5, <2>6 DEF TypeOK
<1>2. Control'
    BY DEF Base, TypeOK, Stop, Crash, Release, Delete, Gone, Call, Sleep, Control, Heart,
           Trying, Returning
<1>3. Unique' /\ Ages'
    BY DEF Base, TypeOK, Stop, Crash, Release, Delete, Gone, Call, Sleep, Unique, Ages
<1>4. Readers'
    BY DEF Base, TypeOK, Stop, Crash, Release, Delete, Gone, Read, Call, Sleep, NewRevision,
           NoKey, MaxAge, Readers
<1> QED BY <1>1, <1>2, <1>3, <1>4 DEF Base

LEMMA TickBase ==
    ASSUME Base, Tick
    PROVE  Base'
<1> USE JobLeaderAssumption
<1>1. key.left \in (-MaxAge)..Lease /\ MaxAge \in Nat
    BY DEF Base, TypeOK, MaxAge
<1>2. \A p \in Procs : wait'[p] \in Nat /\ age'[p] \in Nat
    BY DEF Base, TypeOK, Tick, Steps
<1>a. key \in [tok : Tokens \cup {None}, left : (-MaxAge)..Lease]
      /\ key' = [key EXCEPT !.left = IF Absent \/ key.left = -MaxAge THEN key.left
                                     ELSE key.left - 1]
    BY DEF Base, TypeOK, Tick
<1>b. (IF Absent \/ key.left = -MaxAge THEN key.left ELSE key.left - 1) \in (-MaxAge)..Lease
    BY <1>1
<1>3. key' \in [tok : Tokens \cup {None}, left : (-MaxAge)..Lease]
      /\ key'.tok = key.tok /\ (key.left <= 0 => key'.left <= 0)
    BY <1>1, <1>a, <1>b
<1>4. TypeOK'
  <2>1. wait' \in [Procs -> Nat] /\ age' \in [Procs -> Nat]
      BY <1>2 DEF Tick
  <2> QED BY <1>3, <2>1 DEF Base, TypeOK, Tick
<1>5. Ages'
    BY DEF Base, TypeOK, Tick, Ages, Calling
<1>6. Control' /\ Unique' /\ Readers'
    BY <1>3 DEF Base, TypeOK, Tick, Control, Unique, Readers
<1> QED BY <1>4, <1>5, <1>6 DEF Base

LEMMA NextBase == Base /\ [Next]_vars => Base'
<1> SUFFICES ASSUME Base, [Next]_vars
             PROVE  Base'
    OBVIOUS
<1>1. CASE UNCHANGED vars
    BY <1>1 DEF vars, Base, TypeOK, Control, Unique, Ages, Readers
<1>2. CASE Tick
    BY <1>2, TickBase
<1>3. ASSUME NEW p \in Procs, Step(p) \/ Start(p) \/ Stop(p) \/ Crash(p)
      PROVE  Base'
    BY <1>3, TryBase, CreateBase, ReadKeyBase, StealBase, BeatBase, CheckBase, RenewBase,
       PauseBase, LeaveBase DEF Step, Start
<1> QED BY <1>1, <1>2, <1>3 DEF Next

(* Every variable of the election keeps its type. *)
THEOREM LeaderTypeCorrect == Spec => []TypeOK
<1>1. Spec => []Base
    BY InitBase, NextBase, PTL DEF Spec
<1>2. Base => TypeOK
    BY DEF Base
<1> QED BY <1>1, <1>2, PTL

(* A lease with time left is never taken over, whatever calls cost and however they fail: the *)
(* property TakenOnlyExpired, by what a writer knows of the revision it names.                *)
THEOREM LeaseIsRespected == Spec => TakenOnlyExpired
<1>1. Spec => []Base
    BY InitBase, NextBase, PTL DEF Spec
<1>2. Base /\ [Next]_vars =>
          [key.tok # None /\ key'.tok \notin {key.tok, None} => key.left <= 0]_vars
  <2> SUFFICES ASSUME Base, Next, key.tok # None, key'.tok \notin {key.tok, None}
               PROVE  key.left <= 0
      OBVIOUS
  <2>1. PICK p \in Procs : Create(p) \/ Steal(p) \/ Renew(p) \/ Delete(p)
    <3>1. Next => key' = key \/ key'.tok = key.tok
                  \/ \E p \in Procs : Create(p) \/ Steal(p) \/ Renew(p) \/ Delete(p)
        BY DEF Next, Step, Start, Tick, Try, ReadKey, Beat, Check, Pause, Stop, Crash, Release,
               Base, TypeOK
    <3> QED BY <3>1
  <2>2. CASE Steal(p)
      BY <2>2 DEF Steal, RevisionHolds, Absent, Base, Readers
  <2>3. CASE Renew(p)
      BY <2>3 DEF Renew, RevisionHolds, Write, Base, Readers, Absent, TypeOK
  <2>4. CASE Create(p)
      BY <2>4 DEF Create, Absent
  <2>5. CASE Delete(p)
      BY <2>5 DEF Delete, NoKey
  <2> QED BY <2>1, <2>2, <2>3, <2>4, <2>5
<1> QED BY <1>1, <1>2, PTL DEF Spec, TakenOnlyExpired

-----------------------------------------------------------------------------
(* A single runner *)

\* How long n more failures of a heartbeat take, each with its two calls.
Span(n) == n * (RetryDelay + 2 * CallTime)

\* Failures p can still have before it concedes.
Chances(p) == MaxRetries - 1 - fails[p]

\* A leader holds the key, and the lease outlasts the time in which it renews or concedes.
Reign ==
    \A p \in Procs :
        /\ pc[p] \in Heart => key.tok = token[p]
        /\ pc[p] = "beat"  => key.left > wait[p] + 2 * CallTime + Span(Chances(p))
        /\ pc[p] = "check" => key.left > wait[p] + CallTime + Span(Chances(p))
        /\ pc[p] = "renew" => key.left > wait[p] + Span(Chances(p))

\* Who concedes had the lease until now: it still has time left and is nobody's.
Interregnum ==
    \A p \in Procs : pc[p] = "conceding" =>
        /\ key.tok # None /\ key.left > 0
        /\ \A q \in Procs : /\ token[q] # key.tok
                            /\ q # p => pc[q] # "conceding"

Rule == Base /\ Reign /\ Interregnum

LEMMA SpanFacts ==
    /\ \A n \in Nat : Span(n) \in Nat
    /\ \A n \in Nat : Span(n + 1) = Span(n) + RetryDelay + 2 * CallTime
    /\ \A n, m \in Nat : n <= m => Span(n) <= Span(m)
<1> USE JobLeaderAssumption
<1> DEFINE R == RetryDelay + 2 * CallTime
<1>1. R \in Nat
    OBVIOUS
<1>2. \A n \in Nat : n * R \in Nat /\ (n + 1) * R = n * R + R
    BY <1>1
<1>3. ASSUME NEW n \in Nat, NEW m \in Nat, n <= m
      PROVE  n * R <= m * R
  <2>1. PICK d \in Nat : m = n + d
      BY <1>3
  <2>2. m * R = n * R + d * R
      BY <1>1, <2>1
  <2>3. d * R \in Nat /\ n * R \in Nat
      BY <1>1
  <2> QED BY <2>2, <2>3
<1> QED BY <1>2, <1>3 DEF Span

LEMMA LeaseFits ==
    ASSUME RoomForCalls
    PROVE  Lease > Interval + 2 * CallTime + Span(MaxRetries - 1) + 3 * CallTime
BY JobLeaderAssumption DEF RoomForCalls, Span

Ruling == Heart \cup {"conceding"}

LEMMA InitRule == Init => Rule
BY InitBase DEF Init, Rule, Reign, Interregnum, Heart

(* What a leader can rely on, and what its rivals cannot do. *)
LEMMA Reigning ==
    ASSUME Rule
    PROVE  /\ \A p \in Procs : Chances(p) \in 0..(MaxRetries - 1) /\ Span(Chances(p)) \in Nat
           /\ key.left \in Int /\ \A p \in Procs : wait[p] \in Nat
           /\ \A p \in Procs : pc[p] \in Ruling =>
                 key.tok # None /\ key.left > 0 /\ key.left \in Int
           /\ \A p, q \in Procs : pc[p] \in Ruling /\ pc[q] \in Ruling => p = q
<1> USE JobLeaderAssumption
<1>1. \A p \in Procs : Chances(p) \in 0..(MaxRetries - 1)
    BY DEF Rule, Base, TypeOK, Chances
<1>2. \A p \in Procs : Span(Chances(p)) \in Nat
    BY <1>1, SpanFacts
<1>3. key.left \in Int /\ wait \in [Procs -> Nat]
    BY DEF Rule, Base, TypeOK, MaxAge
<1>4. \A p \in Procs : pc[p] \in Heart => key.tok # None /\ key.left > 0
    BY <1>2, <1>3 DEF Rule, Reign, Base, Control, Heart
<1>5. \A p \in Procs : pc[p] \in Ruling => key.tok # None /\ key.left > 0
    BY <1>4 DEF Rule, Interregnum, Ruling
<1>6. ASSUME NEW p \in Procs, NEW q \in Procs, pc[p] \in Ruling, pc[q] \in Ruling, p # q
      PROVE  FALSE
  <2>1. CASE pc[p] \in Heart /\ pc[q] \in Heart
      BY <1>4, <1>6, <2>1 DEF Rule, Reign, Base, Unique
  <2>2. ASSUME NEW r \in Procs, NEW s \in Procs, r # s, pc[r] = "conceding",
               pc[s] \in Ruling
        PROVE  FALSE
    <3>1. token[s] # key.tok /\ pc[s] # "conceding"
        BY <2>2 DEF Rule, Interregnum
    <3> QED BY <2>2, <3>1 DEF Rule, Reign, Ruling
  <2> QED BY <1>6, <2>1, <2>2 DEF Ruling
<1> QED BY <1>1, <1>2, <1>3, <1>5, <1>6

(* A step of a process that neither leads afterwards nor touches the key. *)
LEMMA BystanderRule ==
    ASSUME Rule, NEW p \in Procs, UNCHANGED key,
           token' \in [Procs -> Tokens \cup {None}],
           pc'[p] \notin Ruling, token'[p] \in {token[p], None},
           \A q \in Procs \ {p} : /\ pc'[q] = pc[q] /\ wait'[q] = wait[q]
                                  /\ fails'[q] = fails[q] /\ token'[q] = token[q]
    PROVE  Reign' /\ Interregnum'
<1>1. ASSUME NEW q \in Procs, pc'[q] \in Ruling
      PROVE  q # p /\ pc'[q] = pc[q] /\ wait'[q] = wait[q] /\ fails'[q] = fails[q]
             /\ token'[q] = token[q]
    BY <1>1
<1>2. Reign'
    BY <1>1 DEF Rule, Reign, Ruling, Heart, Chances
<1>3. Interregnum'
  <2> SUFFICES ASSUME NEW q \in Procs, pc'[q] = "conceding"
               PROVE  /\ key'.tok # None /\ key'.left > 0
                      /\ \A r \in Procs : /\ token'[r] # key'.tok
                                          /\ r # q => pc'[r] # "conceding"
      BY DEF Interregnum
  <2>1. pc[q] = "conceding"
      BY <1>1 DEF Ruling
  <2>2. /\ key.tok # None /\ key.left > 0
        /\ \A r \in Procs : token[r] # key.tok
        /\ \A r \in Procs : r # q => pc[r] # "conceding"
    <3>1. Interregnum
        BY DEF Rule
    <3> QED BY <2>1, <3>1 DEF Interregnum
  <2>3. \A r \in Procs : token'[r] \in {token[r], None}
      OBVIOUS
  <2>4. \A r \in Procs : r # q => pc'[r] # "conceding"
      BY <2>2 DEF Ruling
  <2> QED BY <2>2, <2>3, <2>4
<1> QED BY <1>2, <1>3

(* Nobody rules while the key can be taken. *)
LEMMA Vacant ==
    ASSUME Rule, NEW p \in Procs,
           \/ pc[p] = "create" /\ Absent
           \/ pc[p] = "steal" /\ RevisionHolds(p)
           \/ pc[p] = "delete" /\ RevisionHolds(p)
    PROVE  \A q \in Procs : pc[q] \notin Ruling
<1> SUFFICES ASSUME NEW q \in Procs, pc[q] \in Ruling
             PROVE  FALSE
    OBVIOUS
<1>1. key.tok # None /\ key.left > 0 /\ key.left \in Int
    BY Reigning
<1>2. pc[p] = "delete" /\ seen[p] = "current"
    BY <1>1 DEF Absent, RevisionHolds, Rule, Base, Readers
<1>3. key.tok = token[p] /\ q # p
    BY <1>2 DEF Rule, Base, Readers, Ruling, Heart
<1>4. key.tok # token[q]
    BY <1>1, <1>3 DEF Rule, Base, Unique
<1>5. CASE pc[q] = "conceding"
    BY <1>3, <1>5 DEF Rule, Interregnum
<1>6. CASE pc[q] \in Heart
    BY <1>4, <1>6 DEF Rule, Reign
<1> QED BY <1>5, <1>6 DEF Ruling

LEMMA TryRule ==
    ASSUME Rule, NEW p \in Procs, Try(p) \/ ReadKey(p) \/ Pause(p) \/ Stop(p) \/ Crash(p)
                                 \/ Release(p)
    PROVE  Reign' /\ Interregnum'
<1>1. /\ pc'[p] \notin Ruling /\ token'[p] \in {token[p], None} /\ UNCHANGED key
      /\ token' \in [Procs -> Tokens \cup {None}]
    BY DEF Rule, Base, TypeOK, Try, ReadKey, Lost, Pause, Stop, Crash, Release, Gone, Call,
           Sleep, Ruling, Heart
<1>2. \A q \in Procs \ {p} : /\ pc'[q] = pc[q] /\ wait'[q] = wait[q]
                             /\ fails'[q] = fails[q] /\ token'[q] = token[q]
    BY DEF Rule, Base, TypeOK, Try, ReadKey, Lost, Pause, Stop, Crash, Release, Gone, Call, Sleep
<1> QED BY <1>1, <1>2, BystanderRule

LEMMA DeleteRule ==
    ASSUME Rule, NEW p \in Procs, Delete(p)
    PROVE  Reign' /\ Interregnum'
<1>1. /\ pc'[p] \notin Ruling /\ token'[p] = None
      /\ token' \in [Procs -> Tokens \cup {None}]
      /\ \A q \in Procs \ {p} : /\ pc'[q] = pc[q] /\ wait'[q] = wait[q]
                                /\ fails'[q] = fails[q] /\ token'[q] = token[q]
    BY DEF Rule, Base, TypeOK, Delete, Gone, Sleep, Ruling, Heart
<1>2. CASE UNCHANGED key
    BY <1>1, <1>2, BystanderRule
<1>3. CASE RevisionHolds(p)
  <2>1. \A q \in Procs : pc'[q] \notin Ruling
      BY <1>1, <1>3, Vacant DEF Delete
  <2> QED BY <2>1 DEF Reign, Interregnum, Ruling, Heart
<1> QED BY <1>2, <1>3 DEF Delete

(* The common part of the two ways to win the lease. *)
LEMMA WonRule ==
    ASSUME RoomForCalls, Rule, NEW p \in Procs, pc[p] \in {"create", "steal"},
           \A q \in Procs : pc[q] \notin Ruling,
           Write(draft[p], Lease - age[p]), Won(p)
    PROVE  Reign' /\ Interregnum'
<1> USE JobLeaderAssumption
<1>1. age[p] \in 0..(3 * CallTime)
    BY DEF Rule, Base, TypeOK, Ages
<1>2. key'.tok = draft[p] /\ key'.left = Lease - age[p] /\ token'[p] = draft[p]
    BY DEF Write, Won, Resumed, Rule, Base, TypeOK
<1>3. pc'[p] = "beat" /\ wait'[p] = Interval /\ fails'[p] = 0
    BY DEF Won, Resumed, Sleep, Rule, Base, TypeOK
<1>4. \A q \in Procs : pc'[q] \in Ruling => q = p
    BY DEF Won, Resumed, Sleep, Rule, Base, TypeOK
<1>5. Span(MaxRetries - 1) \in Nat /\ MaxRetries - 1 - fails'[p] = MaxRetries - 1
  <2>1. MaxRetries - 1 \in Nat /\ MaxRetries - 1 - 0 = MaxRetries - 1
      OBVIOUS
  <2>2. Span(MaxRetries - 1) \in Nat
      BY <2>1, SpanFacts
  <2> QED BY <1>3, <2>1, <2>2
<1>6. key'.left > wait'[p] + 2 * CallTime + Span(MaxRetries - 1)
    BY <1>1, <1>2, <1>3, <1>5, LeaseFits
<1>7. Reign'
  <2>1. \A q \in Procs : pc'[q] \in Heart => q = p
      BY <1>4 DEF Ruling
  <2>2. Span(Chances(p))' = Span(MaxRetries - 1)
      BY <1>5 DEF Span, Chances
  <2> QED BY <1>2, <1>3, <1>6, <2>1, <2>2 DEF Reign, Heart
<1>8. Interregnum'
    BY <1>3, <1>4 DEF Interregnum, Ruling
<1> QED BY <1>7, <1>8

(* The common part of the steps in which the renewal of a leader fails. *)
LEMMA FailureRule ==
    ASSUME RoomForCalls, Rule, NEW p \in Procs, pc[p] \in {"check", "renew"},
           RenewalFailed(p),
           \/ UNCHANGED key
           \/ pc[p] = "renew" /\ key' = [tok |-> token[p], left |-> Lease - age[p]]
    PROVE  Reign' /\ Interregnum'
<1> USE JobLeaderAssumption
<1> DEFINE c == Chances(p)
<1>1. c \in 0..(MaxRetries - 1) /\ Span(c) \in Nat /\ Span(c) <= Span(MaxRetries - 1)
      /\ Span(MaxRetries - 1) \in Nat
    BY Reigning, SpanFacts
<1>2. wait[p] \in Nat /\ key.left \in Int
    BY DEF Rule, Base, TypeOK, MaxAge
<1>3. pc[p] = "renew" => age[p] \in 0..CallTime
    BY DEF Rule, Base, TypeOK, Ages
<1>4. key'.tok = token[p] /\ key'.left \in Int /\ key'.left > Span(c)
    BY <1>1, <1>2, <1>3, LeaseFits DEF Rule, Reign, Heart
<1>5. \A q \in Procs : pc[q] \in Ruling => q = p
    BY Reigning DEF Ruling, Heart
<1>6. token[p] \in Tokens /\ \A q \in Procs : q # p => token[q] # token[p]
    BY DEF Rule, Base, Control, Unique, Heart
<1>7. CASE Exhausted(fails[p] + 1) /\ Concede(p)
  <2>1. \A q \in Procs : pc'[q] \in Ruling => q = p
      BY <1>5, <1>7 DEF Concede, Sleep, Rule, Base, TypeOK
  <2>2. pc'[p] = "conceding" /\ token' = [token EXCEPT ![p] = None]
      BY <1>7 DEF Concede, Sleep, Rule, Base, TypeOK
  <2>3. Reign'
      BY <2>1, <2>2 DEF Reign, Heart, Ruling
  <2>4. \A q \in Procs : token'[q] # key'.tok
      BY <1>4, <1>6, <2>2 DEF Rule, Base, TypeOK
  <2>5. key'.tok # None /\ key'.left > 0
      BY <1>1, <1>4, <1>6
  <2>6. Interregnum'
      BY <2>1, <2>4, <2>5 DEF Interregnum, Ruling
  <2> QED BY <2>3, <2>6
<1>8. CASE /\ ~Exhausted(fails[p] + 1)
           /\ fails' = [fails EXCEPT ![p] = fails[p] + 1]
           /\ Sleep(p, "beat", RetryDelay) /\ UNCHANGED token
  <2>1. \A q \in Procs : pc'[q] \in Ruling => q = p
      BY <1>5, <1>8 DEF Sleep, Rule, Base, TypeOK
  <2>2. pc'[p] = "beat" /\ wait'[p] = RetryDelay /\ fails'[p] = fails[p] + 1
      BY <1>8 DEF Sleep, Rule, Base, TypeOK
  <2>3. c - 1 \in Nat /\ c - 1 = MaxRetries - 1 - fails'[p]
      BY <1>8, <2>2 DEF Exhausted, Chances, Rule, Base, TypeOK
  <2>4. Span(c) = Span(c - 1) + RetryDelay + 2 * CallTime
    <3>1. Span((c - 1) + 1) = Span(c - 1) + RetryDelay + 2 * CallTime
        BY <2>3, SpanFacts
    <3>2. (c - 1) + 1 = c
        BY <1>1
    <3> QED BY <3>1, <3>2
  <2>5. Span(Chances(p))' = Span(c - 1)
      BY <2>3 DEF Span, Chances
  <2>6. Span(c - 1) \in Nat
      BY <2>3, SpanFacts
  <2>7. key'.left > wait'[p] + 2 * CallTime + Span(Chances(p))'
      BY <1>4, <2>2, <2>4, <2>5, <2>6
  <2>8. Reign'
      BY <1>4, <1>8, <2>1, <2>2, <2>7 DEF Reign, Heart, Ruling
  <2>9. Interregnum'
      BY <2>1, <2>2 DEF Interregnum, Ruling
  <2> QED BY <2>8, <2>9
<1> QED BY <1>7, <1>8 DEF RenewalFailed, RetryWait

LEMMA BeatRule ==
    ASSUME Rule, NEW p \in Procs, Beat(p)
    PROVE  Reign' /\ Interregnum'
<1> USE JobLeaderAssumption
<1>1. \A q \in Procs : pc'[q] \in Ruling => q = p
    BY Reigning DEF Beat, Call, Rule, Base, TypeOK, Ruling, Heart
<1>2. pc'[p] = "check" /\ wait'[p] = CallTime /\ UNCHANGED <<key, token, fails>>
    BY DEF Beat, Call, Rule, Base, TypeOK
<1>3. Span(Chances(p)) \in Nat /\ key.left \in Int
    BY Reigning
<1>4. key.tok = token[p] /\ key.left > 2 * CallTime + Span(Chances(p))
    BY <1>3 DEF Beat, Rule, Reign, Heart
<1>5. Span(Chances(p))' = Span(Chances(p))
    BY <1>2 DEF Span, Chances
<1>6. Reign'
    BY <1>1, <1>2, <1>3, <1>4, <1>5 DEF Reign, Heart, Ruling
<1>7. Interregnum'
    BY <1>1, <1>2 DEF Interregnum, Ruling
<1> QED BY <1>6, <1>7

LEMMA CheckRule ==
    ASSUME RoomForCalls, Rule, NEW p \in Procs, Check(p)
    PROVE  Reign' /\ Interregnum'
<1> USE JobLeaderAssumption
<1>1. key.tok = token[p] /\ UNCHANGED key
    BY DEF Check, Rule, Reign, Heart
<1>2. CASE RenewalFailed(p)
    BY <1>1, <1>2, FailureRule DEF Check
<1>3. CASE Call(p, "renew") /\ UNCHANGED <<token, fails>>
  <2>1. \A q \in Procs : pc'[q] \in Ruling => q = p
      BY <1>3, Reigning DEF Check, Call, Rule, Base, TypeOK, Ruling, Heart
  <2>2. pc'[p] = "renew" /\ wait'[p] = CallTime
      BY <1>3 DEF Call, Rule, Base, TypeOK
  <2>3. Span(Chances(p)) \in Nat /\ key.left \in Int /\ wait[p] \in Nat
      BY Reigning
  <2>4. key.left > CallTime + Span(Chances(p))
      BY <2>3 DEF Check, Rule, Reign
  <2>5. Span(Chances(p))' = Span(Chances(p))
      BY <1>3 DEF Span, Chances
  <2>6. Reign'
      BY <1>1, <1>3, <2>1, <2>2, <2>4, <2>5 DEF Reign, Heart, Ruling
  <2>7. Interregnum'
      BY <2>1, <2>2 DEF Interregnum, Ruling
  <2> QED BY <2>6, <2>7
<1> QED BY <1>1, <1>2, <1>3 DEF Check

LEMMA RenewRule ==
    ASSUME RoomForCalls, Rule, NEW p \in Procs, Renew(p)
    PROVE  Reign' /\ Interregnum'
<1> USE JobLeaderAssumption
<1>1. CASE RenewalFailed(p)
    BY <1>1, FailureRule DEF Renew, Write
<1>2. CASE /\ Write(token[p], Lease - age[p]) /\ fails' = [fails EXCEPT ![p] = 0]
           /\ Sleep(p, "beat", Interval) /\ UNCHANGED token
  <2>1. \A q \in Procs : pc'[q] \in Ruling => q = p
      BY <1>2, Reigning DEF Renew, Sleep, Rule, Base, TypeOK, Ruling, Heart
  <2>2. pc'[p] = "beat" /\ wait'[p] = Interval /\ fails'[p] = 0
        /\ key' = [tok |-> token[p], left |-> Lease - age[p]]
      BY <1>2 DEF Sleep, Write, Rule, Base, TypeOK
  <2>3. age[p] \in 0..CallTime
      BY DEF Renew, Rule, Base, TypeOK, Ages
  <2>4. Span(Chances(p))' = Span(MaxRetries - 1) /\ Span(MaxRetries - 1) \in Nat
    <3>1. Chances(p)' = MaxRetries - 1
        BY <2>2 DEF Chances
    <3> QED BY <3>1, SpanFacts DEF Span
  <2>5. key'.left > wait'[p] + 2 * CallTime + Span(Chances(p))'
      BY <2>2, <2>3, <2>4, LeaseFits
  <2>6. Reign'
      BY <1>2, <2>1, <2>2, <2>5 DEF Reign, Heart, Ruling
  <2>7. Interregnum'
      BY <2>1, <2>2 DEF Interregnum, Ruling
  <2> QED BY <2>6, <2>7
<1> QED BY <1>1, <1>2 DEF Renew

LEMMA TakeRule ==
    ASSUME RoomForCalls, Rule, NEW p \in Procs, Create(p) \/ Steal(p)
    PROVE  Reign' /\ Interregnum'
<1>1. CASE Write(draft[p], Lease - age[p]) /\ (Steal(p) => RevisionHolds(p))
                                          /\ (Create(p) => Absent)
  <2>1. \A q \in Procs : pc[q] \notin Ruling
      BY <1>1, Vacant DEF Create, Steal
  <2>2. CASE Won(p)
      BY <1>1, <2>1, <2>2, WonRule DEF Create, Steal
  <2>3. CASE Call(p, "read") \/ Lost(p)
    <3>1. \A q \in Procs : pc'[q] \notin Ruling
        BY <2>1, <2>3 DEF Call, Lost, Sleep, Rule, Base, TypeOK, Ruling, Heart
    <3> QED BY <3>1 DEF Reign, Interregnum, Ruling, Heart
  <2> QED BY <2>2, <2>3 DEF Create, Steal
<1>2. CASE UNCHANGED key /\ UNCHANGED token /\ (Call(p, "read") \/ Lost(p)) /\ UNCHANGED fails
  <2>1. /\ pc'[p] \notin Ruling
        /\ \A q \in Procs \ {p} : /\ pc'[q] = pc[q] /\ wait'[q] = wait[q]
                                  /\ fails'[q] = fails[q] /\ token'[q] = token[q]
      BY <1>2 DEF Call, Lost, Sleep, Rule, Base, TypeOK, Ruling, Heart
  <2> QED BY <1>2, <2>1, BystanderRule DEF Rule, Base, TypeOK
<1> QED BY <1>1, <1>2 DEF Create, Steal, Lost

LEMMA TickRule ==
    ASSUME Rule, Tick
    PROVE  Reign' /\ Interregnum'
<1> USE JobLeaderAssumption
<1>1. \A p \in Procs : pc[p] # "conceding"
    BY DEF Tick
<1>2. Interregnum'
    BY <1>1 DEF Tick, Interregnum
<1>3. ASSUME NEW p \in Procs, pc[p] \in Heart
      PROVE  key'.tok = key.tok /\ key'.left = key.left - 1 /\ wait'[p] = wait[p] - 1
             /\ key.left \in Int /\ wait[p] \in Nat /\ Span(Chances(p)) \in Nat
             /\ Span(Chances(p))' = Span(Chances(p))
  <2>1. key.tok # None /\ key.left > 0 /\ key.left \in Int
      BY <1>3, Reigning DEF Ruling
  <2>2. key.left # -MaxAge
      BY <2>1 DEF MaxAge
  <2>3. key' = [key EXCEPT !.left = key.left - 1]
      BY <2>1, <2>2 DEF Tick, Absent
  <2>4. key'.tok = key.tok /\ key'.left = key.left - 1
      BY <2>3 DEF Rule, Base, TypeOK
  <2>5. wait'[p] = wait[p] - 1 /\ wait[p] \in Nat
      BY <1>3 DEF Tick, Heart, Rule, Base, TypeOK
  <2>6. Span(Chances(p)) \in Nat /\ Span(Chances(p))' = Span(Chances(p))
      BY Reigning, SpanFacts DEF Tick, Span, Chances
  <2> QED BY <2>1, <2>4, <2>5, <2>6
<1>4. Reign'
  <2> SUFFICES ASSUME NEW p \in Procs, pc'[p] \in Heart
               PROVE  /\ key'.tok = token'[p]
                      /\ pc'[p] = "beat" =>
                            key'.left > wait'[p] + 2 * CallTime + Span(Chances(p))'
                      /\ pc'[p] = "check" =>
                            key'.left > wait'[p] + CallTime + Span(Chances(p))'
                      /\ pc'[p] = "renew" => key'.left > wait'[p] + Span(Chances(p))'
      BY DEF Reign, Heart
  <2>1. pc[p] = pc'[p] /\ token'[p] = token[p]
      BY DEF Tick
  <2> QED BY <1>3, <2>1 DEF Rule, Reign, Heart
<1> QED BY <1>2, <1>4

LEMMA NextRule ==
    ASSUME RoomForCalls, Rule, [Next]_vars
    PROVE  Rule'
<1>1. Base'
    BY NextBase DEF Rule
<1>2. CASE UNCHANGED vars
    BY <1>1, <1>2 DEF vars, Rule, Reign, Interregnum, Chances, Span
<1>3. CASE Tick
    BY <1>1, <1>3, TickRule DEF Rule
<1>4. ASSUME NEW p \in Procs, Step(p) \/ Start(p) \/ Stop(p) \/ Crash(p)
      PROVE  Rule'
    BY <1>1, <1>4, TryRule, DeleteRule, TakeRule, BeatRule, CheckRule, RenewRule
       DEF Rule, Step, Start
<1> QED BY <1>2, <1>3, <1>4 DEF Next

(* The scheduled jobs have one runner at most, for every timing of the calls that leaves the  *)
(* heartbeat enough room: a leader concedes before its lease is over.                         *)
THEOREM SingleRunner == ASSUME RoomForCalls PROVE Spec => []OneScheduler
<1>1. Init => Rule
    BY InitRule
<1>2. Rule /\ [Next]_vars => Rule'
    BY NextRule
<1>3. Rule => OneScheduler
  <2> SUFFICES ASSUME Rule, NEW p \in Procs, NEW q \in Procs,
                      sched[p] = "running", sched[q] = "running"
               PROVE  p = q
      BY DEF OneScheduler
  <2>1. pc[p] \in Ruling /\ pc[q] \in Ruling
      BY DEF Rule, Base, Control, Ruling
  <2> QED BY <2>1, Reigning
<1> QED BY <1>1, <1>2, <1>3, PTL DEF Spec

-----------------------------------------------------------------------------
(* The election implements the lease of JobLease *)

\* Every ruler runs the jobs, and a key that is gone has no time left.
Rulers == \A p \in Procs : pc[p] \in Ruling => sched[p] = "running"
Empty  == Absent => key.left = -MaxAge

Court == Rule /\ Rulers /\ Empty

LEMMA InitCourt == Init => Court
BY InitRule DEF Init, Court, Rulers, Empty, NoKey, Ruling, Heart

\* Who runs the jobs rules alone, on a lease with time left.
LEMMA RunsAlone ==
    ASSUME Court, NEW p \in Procs, sched[p] = "running" \/ pc[p] \in Ruling
    PROVE  Running = {p} /\ pc[p] \in Ruling /\ sched[p] = "running" /\ key.left > 0
<1>1. \A q \in Procs : sched[q] = "running" <=> pc[q] \in Ruling
  BY DEF Court, Rulers, Rule, Base, Control, Ruling
<1> QED
  BY <1>1, Reigning DEF Court, Running

LEMMA RunsNobody ==
    ASSUME Court, \A q \in Procs : pc[q] \notin Ruling
    PROVE  Running = {}
BY DEF Court, Rule, Base, Control, Ruling, Running

-----------------------------------------------------------------------------
(* Court is kept *)

\* A step of one process that does not make it a ruler, or makes it run the jobs too.
LEMMA RulersStep ==
    ASSUME Court, NEW p \in Procs,
           sched' \in [Procs -> {"stopped", "running", "paused"}],
           \A q \in Procs \ {p} : pc'[q] = pc[q] /\ sched'[q] = sched[q],
           \/ pc'[p] \notin Ruling
           \/ sched'[p] = "running"
           \/ pc[p] \in Ruling /\ sched'[p] = sched[p]
    PROVE  Rulers'
BY DEF Court, Rulers

LEMMA RulersKept ==
    ASSUME Court, NEW p \in Procs, Step(p) \/ Start(p) \/ Stop(p) \/ Crash(p)
    PROVE  Rulers'
<1> USE DEF Ruling, Heart
<1>t. /\ sched \in [Procs -> {"stopped", "running", "paused"}] /\ pc \in [Procs -> Steps]
  BY DEF Court, Rule, Base, TypeOK
<1>1. CASE Try(p)
  BY <1>t, <1>1, RulersStep DEF Try, Call
<1>2. CASE Create(p) \/ Steal(p)
  <2>1. CASE Won(p)
    BY <1>t, <2>1, RulersStep DEF Won, Resumed, Sleep
  <2>2. CASE (Call(p, "read") \/ Sleep(p, "reclaim", Interval)) /\ UNCHANGED sched
    BY <1>t, <2>2, RulersStep DEF Call, Sleep
  <2> QED
    BY <1>2, <2>1, <2>2 DEF Create, Steal, Lost
<1>3. CASE ReadKey(p)
  BY <1>t, <1>3, RulersStep DEF ReadKey, Lost, Sleep, Call
<1>4. CASE Beat(p) \/ Check(p) \/ Renew(p)
  <2>1. pc[p] \in Ruling /\ UNCHANGED sched
    BY <1>4 DEF Beat, Check, Renew, Concede, RenewalFailed
  <2>2. \A q \in Procs \ {p} : pc'[q] = pc[q]
    BY <1>t, <1>4 DEF Beat, Check, Renew, Concede, RenewalFailed, Call, Sleep
  <2> QED
    BY <1>t, <2>1, <2>2, RulersStep
<1>5. CASE Pause(p) \/ Stop(p)
  BY <1>t, <1>5, RulersStep DEF Pause, Stop, Call, Sleep
<1>6. CASE Release(p) \/ Delete(p) \/ Crash(p)
  BY <1>t, <1>6, RulersStep DEF Release, Delete, Crash, Gone, Call, Sleep
<1> QED
  BY <1>1, <1>2, <1>3, <1>4, <1>5, <1>6 DEF Step, Start

LEMMA EmptyKept ==
    ASSUME Court, NEW p \in Procs, Step(p) \/ Start(p) \/ Stop(p) \/ Crash(p)
    PROVE  Empty'
<1>1. CASE UNCHANGED key
  BY <1>1 DEF Court, Empty, Absent
<1>2. CASE key' = NoKey
  BY <1>2 DEF NoKey, Empty
<1>3. CASE (Create(p) \/ Steal(p)) /\ Write(draft[p], Lease - age[p])
  <2>1. draft[p] \in Tokens
    BY <1>3 DEF Court, Rule, Base, Control, Create, Steal, Trying
  <2> QED
    BY <1>3, <2>1, JobLeaderAssumption DEF Write, Empty, Absent
<1>4. CASE Renew(p) /\ Write(token[p], Lease - age[p])
  <2>1. token[p] \in Tokens
    BY <1>4 DEF Court, Rule, Base, Control, Renew, Heart
  <2> QED
    BY <1>4, <2>1, JobLeaderAssumption DEF Write, Empty, Absent
<1> QED
  BY <1>1, <1>2, <1>3, <1>4
     DEF Step, Start, Try, Create, ReadKey, Steal, Beat, Check, Renew, Pause, Release, Delete,
         Stop, Crash

LEMMA NextCourt ==
    ASSUME RoomForCalls, Court, [Next]_vars
    PROVE  Court'
<1>1. Rule'
  BY NextRule DEF Court
<1>2. CASE UNCHANGED vars
  BY <1>1, <1>2 DEF vars, Court, Rulers, Empty, Absent
<1>3. CASE Tick
  <2>1. Rulers'
    BY <1>3 DEF Court, Rulers, Tick
  <2>2. Empty'
    BY <1>3 DEF Court, Empty, Tick, Absent, Rule, Base, TypeOK
  <2> QED
    BY <1>1, <2>1, <2>2 DEF Court
<1>4. ASSUME NEW p \in Procs, Step(p) \/ Start(p) \/ Stop(p) \/ Crash(p)
      PROVE  Court'
  BY <1>1, <1>4, RulersKept, EmptyKept DEF Court
<1> QED
  BY <1>2, <1>3, <1>4 DEF Next

-----------------------------------------------------------------------------
(* Every step is one of the lease, or none *)

\* A lease is written by a process that found the key free, on time.
LEMMA WrittenFresh ==
    ASSUME Court, NEW p \in Procs, pc[p] \in {"create", "steal", "renew"}, NEW t,
           Write(t, Lease - age[p])
    PROVE  key'.left \in L!Fresh
<1>1. age[p] \in 0..(3 * CallTime)
  BY JobLeaderAssumption DEF Court, Rule, Base, TypeOK, Ages
<1> QED
  BY <1>1, JobLeaderAssumption DEF Write, L!Fresh, MaxAge

LEMMA FreeKey ==
    ASSUME Court, NEW p \in Procs, \/ pc[p] = "create" /\ Absent
                                   \/ pc[p] = "steal" /\ RevisionHolds(p)
    PROVE  Running = {} /\ key.left <= 0
<1>1. Running = {}
  BY Vacant, RunsNobody DEF Court
<1>2. key.left <= 0
  BY JobLeaderAssumption DEF Court, Empty, MaxAge, RevisionHolds, Rule, Base, Readers
<1> QED
  BY <1>1, <1>2

LEMMA TakeLease ==
    ASSUME Court, NEW p \in Procs, Create(p) \/ Steal(p)
    PROVE  L!Grant(p) \/ L!Waste \/ UNCHANGED L!leaseVars
<1>1. CASE /\ Write(draft[p], Lease - age[p])
           /\ Create(p) => Absent
           /\ Steal(p) => RevisionHolds(p)
  <2>1. Running = {} /\ key.left <= 0
    BY <1>1, FreeKey DEF Create, Steal
  <2>2. key'.left \in L!Fresh
    BY <1>1, WrittenFresh DEF Create, Steal
  <2>3. CASE Won(p)
    <3>1. Running' = {p}
      BY <2>1, <2>3 DEF Won, Resumed, Running, Court, Rule, Base, TypeOK
    <3> QED
      BY <2>1, <2>2, <3>1 DEF L!Grant
  <2>4. CASE UNCHANGED sched
    BY <2>1, <2>2, <2>4 DEF L!Waste, Running
  <2> QED
    BY <2>3, <2>4 DEF Create, Steal, Lost
<1>2. CASE UNCHANGED key /\ UNCHANGED sched
  BY <1>2 DEF L!leaseVars, Running
<1> QED
  BY <1>1, <1>2 DEF Create, Steal, Lost

LEMMA RenewLease ==
    ASSUME Court, NEW p \in Procs, Renew(p)
    PROVE  L!Extend(p) \/ UNCHANGED L!leaseVars
<1>1. UNCHANGED sched
  BY DEF Renew, RenewalFailed, Concede
<1>2. CASE Write(token[p], Lease - age[p])
  <2>1. key'.left \in L!Fresh
    BY <1>2, WrittenFresh DEF Renew
  <2>2. Running = {p} /\ key.left > 0
    BY RunsAlone DEF Renew, Ruling, Heart
  <2> QED
    BY <1>1, <2>1, <2>2 DEF L!Extend, Running
<1>3. CASE UNCHANGED key
  BY <1>1, <1>3 DEF L!leaseVars, Running
<1> QED
  BY <1>2, <1>3 DEF Renew

LEMMA LeaveLease ==
    ASSUME Court, NEW p \in Procs, Pause(p) \/ Stop(p) \/ Crash(p)
    PROVE  L!GiveUp(p) \/ UNCHANGED L!leaseVars
<1>1. UNCHANGED key /\ \E s \in {"paused", "stopped"} : sched' = [sched EXCEPT ![p] = s]
  BY DEF Pause, Stop, Crash
<1>2. \A q \in Procs : sched'[q] = "running" <=> q # p /\ sched[q] = "running"
  BY <1>1 DEF Court, Rule, Base, TypeOK
<1>3. CASE sched[p] = "running"
  <2>1. Running = {p} /\ Running' = {}
    <3>1. Running = {p}
      BY <1>3, RunsAlone
    <3> QED
      BY <1>2, <3>1 DEF Running
  <2> QED
    BY <1>1, <2>1 DEF L!GiveUp
<1>4. CASE sched[p] # "running"
  BY <1>1, <1>2, <1>4 DEF L!leaseVars, Running
<1> QED
  BY <1>3, <1>4

LEMMA DeleteLease ==
    ASSUME Court, NEW p \in Procs, Delete(p)
    PROVE  L!GiveBack \/ UNCHANGED L!leaseVars
<1>1. UNCHANGED sched
  BY DEF Delete
<1>2. CASE RevisionHolds(p) /\ key' = NoKey
  <2>1. Running = {}
    BY <1>2, Vacant, RunsNobody DEF Court, Delete
  <2> QED
    BY <1>1, <1>2, <2>1 DEF L!GiveBack, NoKey, Running
<1>3. CASE UNCHANGED key
  BY <1>1, <1>3 DEF L!leaseVars, Running
<1> QED
  BY <1>2, <1>3 DEF Delete

LEMMA TickLease ==
    ASSUME Court, Tick
    PROVE  L!Pass
<1>1. key'.left = IF key.left = -MaxAge THEN key.left ELSE key.left - 1
  BY DEF Tick, Court, Empty, Rule, Base, TypeOK
<1>2. ASSUME NEW p \in Procs, sched[p] = "running"
      PROVE  key'.left > 0
  <2>1. pc[p] \in Heart
    BY <1>2, RunsAlone DEF Tick, Ruling
  <2>2. wait[p] > 0 /\ wait[p] \in Nat
    BY <2>1 DEF Tick, Heart, Sleeping, Calling, Court, Rule, Base, TypeOK
  <2>3. Span(Chances(p)) \in Nat /\ key.left \in Int
    BY Reigning DEF Court
  <2>4. key.left > wait[p]
    BY <2>1, <2>2, <2>3, JobLeaderAssumption DEF Court, Rule, Reign, Heart
  <2> QED
    BY <1>1, <2>2, <2>3, <2>4
<1>3. UNCHANGED sched
  BY DEF Tick
<1> QED
  BY <1>1, <1>2, <1>3 DEF L!Pass, Running

LEMMA NextLease ==
    ASSUME Court, [Next]_vars
    PROVE  [L!Next]_(L!leaseVars)
<1>1. CASE UNCHANGED vars
  BY <1>1 DEF vars, L!leaseVars, Running
<1>2. CASE Tick
  BY <1>2, TickLease DEF L!Next
<1>3. ASSUME NEW p \in Procs, Step(p) \/ Start(p) \/ Stop(p) \/ Crash(p)
      PROVE  [L!Next]_(L!leaseVars)
  <2>1. CASE Try(p) \/ ReadKey(p) \/ Beat(p) \/ Check(p) \/ Release(p)
    <3>1. UNCHANGED <<key, sched>>
      BY <2>1 DEF Try, ReadKey, Beat, Check, Release, Lost, Concede, RenewalFailed
    <3> QED
      BY <3>1 DEF L!leaseVars, Running
  <2>2. CASE Create(p) \/ Steal(p)
    BY <2>2, TakeLease DEF L!Next
  <2>3. CASE Renew(p)
    BY <2>3, RenewLease DEF L!Next
  <2>4. CASE Pause(p) \/ Stop(p) \/ Crash(p)
    BY <2>4, LeaveLease DEF L!Next
  <2>5. CASE Delete(p)
    BY <2>5, DeleteLease DEF L!Next
  <2> QED
    BY <1>3, <2>1, <2>2, <2>3, <2>4, <2>5 DEF Step, Start
<1> QED
  BY <1>1, <1>2, <1>3 DEF Next

\* The election implements the lease, for every timing of the calls that leaves the heartbeat
\* enough room: jobs are only run on a lease that nobody else can hold, and no lease ends
\* under the process that runs them (app/nats/leader.py).
THEOREM LeaseImplemented ==
    ASSUME RoomForCalls
    PROVE  Spec => LeaseKept
<1>1. Init => Court
  BY InitCourt
<1>2. Court /\ [Next]_vars => Court'
  BY NextCourt
<1>3. Init => L!Init
  BY DEF Init, L!Init, Running, NoKey
<1>4. Court /\ [Next]_vars => [L!Next]_(L!leaseVars)
  BY NextLease
<1> QED
  BY <1>1, <1>2, <1>3, <1>4, PTL DEF Spec, LeaseKept, L!Spec
=============================================================================
