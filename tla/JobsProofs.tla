----------------------------- MODULE JobsProofs -----------------------------
(***************************************************************************)
(* Proofs about the status of a user and the buffer of subscription        *)
(* updates, and about the jobs of MCJobs as a whole: a step of one of them *)
(* leaves the others alone.                                                *)
(***************************************************************************)
EXTENDS MCJobs, JobLeaderProofs, OcUsageProofs, LifecycleProofs, FiniteSetTheorems,
        SequenceTheorems, TLAPS

-----------------------------------------------------------------------------
(* The status of a user (UserStatus) *)

UserType == [status : Statuses, used : 0..MaxUsed, limit : Int, due : Expiries,
             hold : BOOLEAN, plan : BOOLEAN]

(* Every session holds a user, whether it is open or not. *)
StatusShape == StatusTypeOK /\ object \in [Sessions -> UserType]

LEMMA UserFields ==
    ASSUME NEW r
    PROVE  r \in UserType
           <=> /\ r = [status |-> r.status, used |-> r.used, limit |-> r.limit, due |-> r.due,
                       hold |-> r.hold, plan |-> r.plan]
               /\ r.status \in Statuses /\ r.used \in 0..MaxUsed /\ r.limit \in Int
               /\ r.due \in Expiries /\ r.hold \in BOOLEAN /\ r.plan \in BOOLEAN
BY DEF UserType

LEMMA StatusFacts ==
    /\ MaxUsed \in Nat /\ MaxOpen \in Nat /\ MaxEdits \in Nat
    /\ Limits \subseteq Int
    /\ \A plan \in BOOLEAN : NewUser(plan) \in UserType
<1>1. MaxUsed \in Nat /\ MaxOpen \in Nat /\ MaxEdits \in Nat /\ Limits \subseteq Int
    BY UserStatusAssumption DEF UserStatusAssumption
<1>2. 0 \in 0..MaxUsed
    BY <1>1
<1> QED BY <1>1, <1>2 DEF NewUser, UserType, Statuses, Expiries

LEMMA FlushesType ==
    ASSUME row \in UserType, NEW s \in Sessions, object[s] \in UserType, NEW r \in UserType,
           Flushes(s, r)
    PROVE  row' \in UserType
<1>1. DOMAIN row = {"status", "used", "limit", "due", "hold", "plan"}
    BY DEF UserType
<1> DEFINE v(f) == IF r[f] # object[s][f] THEN r[f] ELSE row[f]
<1>2. row' = [f \in {"status", "used", "limit", "due", "hold", "plan"} |-> v(f)]
    BY <1>1 DEF Flushes
<1>3. /\ v("status") \in Statuses /\ v("used") \in 0..MaxUsed /\ v("limit") \in Int
      /\ v("due") \in Expiries /\ v("hold") \in BOOLEAN /\ v("plan") \in BOOLEAN
    BY DEF UserType
<1> HIDE DEF v
<1>4. row' = [status |-> v("status"), used |-> v("used"), limit |-> v("limit"),
              due |-> v("due"), hold |-> v("hold"), plan |-> v("plan")]
    BY <1>2
<1> QED BY <1>3, <1>4 DEF UserType

LEMMA OpensShape ==
    ASSUME StatusShape, NEW s \in Sessions, Opens(s), edits' \in 0..MaxEdits
    PROVE  StatusShape'
<1>1. row \in UserType /\ object \in [Sessions -> UserType]
    BY DEF StatusShape, StatusTypeOK, UserType
<1>2. object' \in [Sessions -> UserType]
    BY <1>1 DEF Opens
<1>3. at' \in [Sessions -> {"idle", "write", "sync"}]
    BY DEF Opens, StatusShape, StatusTypeOK
<1>4. \A t \in Sessions : DOMAIN object'[t] = DOMAIN row'
    BY <1>1, <1>2 DEF Opens, UserType
<1> QED BY <1>2, <1>3, <1>4 DEF Opens, StatusShape, StatusTypeOK

(* A step that writes the row and closes a session, or leaves the sessions alone. *)
LEMMA WritesShape ==
    ASSUME StatusShape, row' \in UserType, online' \in BOOLEAN, period' \in BOOLEAN,
           edits' \in 0..MaxEdits,
           \/ \E s \in Sessions : Closes(s)
           \/ UNCHANGED object /\ at' \in [Sessions -> {"idle", "write", "sync"}]
    PROVE  StatusShape'
<1>1. row \in UserType /\ object \in [Sessions -> UserType]
    BY DEF StatusShape, StatusTypeOK, UserType
<1>2. object' \in [Sessions -> UserType] /\ at' \in [Sessions -> {"idle", "write", "sync"}]
  <2>1. ASSUME NEW s \in Sessions, Closes(s)
        PROVE  object' \in [Sessions -> UserType] /\ at' \in [Sessions -> {"idle", "write", "sync"}]
    <3>1. Nothing \in UserType
        BY StatusFacts DEF Nothing
    <3>2. at \in [Sessions -> {"idle", "write", "sync"}]
        BY DEF StatusShape, StatusTypeOK
    <3>3. object' \in [Sessions -> UserType]
        BY <1>1, <2>1, <3>1 DEF Closes
    <3> QED BY <2>1, <3>2, <3>3 DEF Closes
  <2> QED BY <1>1, <2>1
<1>3. \A t \in Sessions : DOMAIN object'[t] = DOMAIN row'
    BY <1>2 DEF UserType
<1> QED BY <1>2, <1>3 DEF StatusShape, StatusTypeOK, UserType

LEMMA InitStatusShape == StatusInit => StatusShape
<1> SUFFICES ASSUME StatusInit PROVE StatusShape
    OBVIOUS
<1>1. PICK plan \in BOOLEAN, status \in {"active", "disabled"} :
          row = [NewUser(plan) EXCEPT !.status = status]
    BY DEF StatusInit
<1>2. row \in UserType
    BY <1>1, StatusFacts DEF UserType, Statuses
<1>3. object \in [Sessions -> UserType]
    BY StatusFacts DEF StatusInit, Nothing
<1>4. at \in [Sessions -> {"idle", "write", "sync"}]
    BY DEF StatusInit
<1>5. edits \in 0..MaxEdits
    BY StatusFacts DEF StatusInit
<1>6. \A t \in Sessions : DOMAIN object[t] = DOMAIN row
    BY <1>2, <1>3 DEF UserType
<1> QED BY <1>2, <1>3, <1>4, <1>5, <1>6 DEF StatusInit, StatusShape, StatusTypeOK, UserType

(* What is made of a user is a user. *)
LEMMA MadeTypes ==
    ASSUME NEW r \in UserType
    PROVE  /\ \A status \in Statuses : [r EXCEPT !.status = status] \in UserType
           /\ Emptied(r) \in UserType /\ Unlimited(r) \in UserType
           /\ Resolved(r) \in Statuses
<1>1. 0 \in 0..MaxUsed
    BY StatusFacts
<1>2. Emptied(r) \in UserType
    BY <1>1 DEF Emptied, UserType
<1>3. Unlimited(r) \in UserType
    BY <1>2 DEF Unlimited, UserType, Statuses
<1> QED BY <1>2, <1>3 DEF Resolved, UserType, Statuses

LEMMA NextPlanType ==
    ASSUME NEW r \in UserType, NEW limit \in Limits, NEW adds \in BOOLEAN,
           NEW due \in {"never", "later"}, NEW hold \in BOOLEAN
    PROVE  NextPlan(r, limit, adds, due, hold) \in UserType
<1>1. Emptied(r) \in UserType
    BY MadeTypes
<1>2. limit + (IF adds THEN r.limit - r.used ELSE 0) \in Int
    BY StatusFacts DEF UserType
<1> QED BY <1>1, <1>2 DEF NextPlan, UserType, Statuses, Expiries

LEMMA ModifyTypes ==
    ASSUME NEW r \in UserType, NEW status \in {"keep", "active", "on_hold", "disabled"},
           NEW due \in Expiries \cup {"keep"}, NEW limit \in Limits \cup {Keep}
    PROVE  [WithLimit(WithExpire(WithStatus(r, status), due), limit) EXCEPT !.plan = FALSE]
           \in UserType
<1>1. WithStatus(r, status) \in UserType
    BY MadeTypes DEF WithStatus, UserType, Statuses, Expiries
<1>2. ASSUME NEW a \in UserType PROVE WithExpire(a, due) \in UserType
    BY <1>2 DEF WithExpire, UserType, Statuses, Expiries
<1>3. ASSUME NEW b \in UserType PROVE WithLimit(b, limit) \in UserType
  <2>1. CASE limit = Keep
      BY <1>3, <2>1 DEF WithLimit
  <2>2. CASE limit # Keep
    <3> DEFINE given == [b EXCEPT !.limit = limit]
    <3>1. limit \in Int
        BY <2>2, StatusFacts
    <3>2. given \in UserType
        BY <1>3, <3>1 DEF UserType
    <3>3. \/ WithLimit(b, limit) = given
          \/ WithLimit(b, limit) = [given EXCEPT !.status = "limited"]
          \/ WithLimit(b, limit) = [given EXCEPT !.status = "active"]
        BY <2>2 DEF WithLimit
    <3> HIDE DEF given
    <3> QED BY <3>2, <3>3, MadeTypes DEF Statuses
  <2> QED BY <2>1, <2>2
<1>4. ASSUME NEW b \in UserType PROVE [b EXCEPT !.plan = FALSE] \in UserType
    BY <1>4 DEF UserType
<1> QED BY <1>1, <1>2, <1>3, <1>4

LEMMA StepStatusShape == StatusShape /\ [StatusNext]_statusVars => StatusShape'
<1> SUFFICES ASSUME StatusShape, [StatusNext]_statusVars PROVE StatusShape'
    OBVIOUS
<1>t. /\ row \in UserType /\ object \in [Sessions -> UserType]
      /\ at \in [Sessions -> {"idle", "write", "sync"}]
      /\ online \in BOOLEAN /\ period \in BOOLEAN /\ edits \in 0..MaxEdits
    BY DEF StatusShape, StatusTypeOK, UserType
<1>s. Reviews \subseteq Sessions /\ {"hold", "reset", "admin"} \subseteq Sessions
    BY DEF Sessions
<1>e. edits < MaxEdits => edits + 1 \in 0..MaxEdits
    BY <1>t, StatusFacts
<1>1. ASSUME NEW s \in Sessions, Opens(s), edits' \in {edits, edits + 1},
             edits' = edits \/ edits < MaxEdits
      PROVE  StatusShape'
    BY <1>t, <1>e, <1>1, OpensShape
<1>2. ASSUME NEW s \in Reviews, Enforce(s) \/ EnforceAgain(s) PROVE StatusShape'
  <2>1. Verdict(s) \in Statuses
      BY DEF Verdict, Statuses
  <2>2. row' \in UserType
      BY <1>t, <1>2, <2>1, MadeTypes DEF Enforce, EnforceAgain
  <2>3. CASE Enforce(s)
      BY <1>t, <2>2, <2>3, WritesShape DEF Enforce
  <2>4. CASE EnforceAgain(s)
      BY <1>s, <1>t, <2>2, <2>4, WritesShape DEF EnforceAgain
  <2> QED BY <1>2, <2>3, <2>4
<1>3. ASSUME NEW s \in Sessions, ApplyNextPlan(s) PROVE StatusShape'
  <2>1. row' \in UserType
      BY <1>t, <1>3, NextPlanType, FlushesType DEF ApplyNextPlan
  <2> QED BY <1>t, <1>3, <2>1, WritesShape DEF ApplyNextPlan
<1>4. ASSUME NEW s \in Sessions, ResetUsage(s) PROVE StatusShape'
  <2>1. row' \in UserType
      BY <1>t, <1>4, MadeTypes, FlushesType DEF ResetUsage
  <2> QED BY <1>t, <1>4, <2>1, WritesShape DEF ResetUsage
<1>5. CASE StartExpire
  <2>1. row' \in UserType
      BY <1>5, <1>t DEF StartExpire, UserType, Statuses, Expiries
  <2> QED BY <1>s, <1>t, <1>5, <2>1, WritesShape DEF StartExpire
<1>6. CASE Toggle
  <2>1. "disabled" \in Statuses /\ Resolved(object["admin"]) \in Statuses
      BY <1>s, <1>t, MadeTypes DEF Statuses
  <2>2. row' \in UserType
      BY <1>s, <1>t, <1>6, <2>1, MadeTypes, FlushesType DEF Toggle
  <2> QED BY <1>s, <1>t, <1>6, <2>2, WritesShape DEF Toggle
<1>7. CASE Modify
  <2>1. row' \in UserType
      BY <1>s, <1>t, <1>7, ModifyTypes, FlushesType DEF Modify
  <2> QED BY <1>s, <1>t, <1>7, <2>1, WritesShape DEF Modify
<1>8. CASE ResetAll
    BY <1>t, <1>e, <1>8, MadeTypes, WritesShape DEF ResetAll, ForAll
<1>9. CASE DisableAll
  <2>1. [row EXCEPT !.status = "disabled"] \in UserType
      BY <1>t, MadeTypes DEF Statuses
  <2> QED BY <1>t, <1>e, <1>9, <2>1, WritesShape DEF DisableAll, ForAll
<1>10. CASE ActivateAll
  <2> DEFINE s == IF row.hold /\ row.due = "never" THEN "on_hold" ELSE "active"
  <2>1. s \in Statuses
      BY DEF Statuses
  <2>2. [row EXCEPT !.status = s] \in UserType
      BY <1>t, <2>1, MadeTypes
  <2>3. row' = [row EXCEPT !.status = s]
      BY <1>10 DEF ActivateAll, ForAll
  <2> QED BY <1>t, <1>e, <1>10, <2>2, <2>3, WritesShape DEF ActivateAll, ForAll
<1>11. CASE Usage
  <2>1. row.used + 1 \in 0..MaxUsed
      BY <1>t, <1>11, StatusFacts DEF Usage, UserType
  <2>2. row' \in UserType
      BY <1>t, <1>11, <2>1 DEF Usage, UserType
  <2> QED BY <1>t, <1>11, <2>2, WritesShape DEF Usage
<1>12. CASE ExpiryPasses
  <2>1. row' \in UserType
      BY <1>t, <1>12 DEF ExpiryPasses, UserType, Expiries
  <2> QED BY <1>t, <1>12, <2>1, WritesShape DEF ExpiryPasses
<1>13. CASE HoldTimesOut \/ PeriodPasses \/ UNCHANGED statusVars
    BY <1>t, <1>13, WritesShape DEF HoldTimesOut, PeriodPasses, statusVars
<1>14. ASSUME NEW s \in Reviews, Review(s) PROVE StatusShape'
    BY <1>s, <1>1, <1>14 DEF Review
<1>15. CASE FindHeld \/ FindDue \/ AdminReads
    BY <1>s, <1>1, <1>15 DEF FindHeld, FindDue, AdminReads
<1> QED BY <1>2, <1>3, <1>4, <1>5, <1>6, <1>7, <1>8, <1>9, <1>10, <1>11, <1>12, <1>13, <1>14,
           <1>15 DEF StatusNext

-----------------------------------------------------------------------------
(* The buffer of subscription updates (SubBuffer) *)

(* Records leave the buffer in the order in which they arrived. *)
Rising(s)    == \A i, j \in 1..Len(s) : i < j => s[i] < s[j]
Before(S, T) == \A a \in S : \A b \in T : a < b

InOrder == Rising(batch) /\ Rising(pending) /\ Before(ToSet(batch), ToSet(pending))

Seen == ToSet(batch) \cup ToSet(pending) \cup dropped \subseteq 1..arrived

Traced ==
    \A n \in 1..arrived :
        n \in ToSet(batch) \cup ToSet(pending) \cup dropped \cup missing \/ written[n] > 0

(* Only a transaction that failed has written a record that is still held. *)
RowsWritten ==
    \A n \in Records :
        /\ written[n] <= failed + 1
        /\ n \in ToSet(batch) \cup ToSet(pending) => written[n] <= failed
        /\ n > arrived => written[n] = 0

(* While a batch is out the buffer may lose records that are newer than the batch.  It is full *)
(* from then on, so that the batch is what goes if it is put back.                             *)
OldestLost ==
    /\ Len(pending) <= MaxBuffer
    /\ Before(dropped, ToSet(pending))
    /\ Len(pending) < MaxBuffer => Before(dropped, ToSet(batch))

BufferInv == BufferTypeOK /\ InOrder /\ Seen /\ Traced /\ RowsWritten /\ OldestLost

LEMMA BufferFacts ==
    /\ MaxBuffer \in Nat \ {0} /\ BatchSize \in Nat \ {0} /\ BatchSize <= MaxBuffer
    /\ MaxRecords \in Nat /\ MaxFailed \in Nat
BY SubBufferAssumption DEF SubBufferAssumption

LEMMA Members ==
    ASSUME NEW s \in Seq(Records)
    PROVE  /\ Len(s) \in Nat /\ DOMAIN s = 1..Len(s)
           /\ \A i \in 1..Len(s) : s[i] \in Records /\ s[i] \in ToSet(s)
           /\ \A n \in ToSet(s) : \E i \in 1..Len(s) : s[i] = n
           /\ ToSet(s) \subseteq Records
BY LenProperties DEF ToSet

LEMMA NoMembers == <<>> \in Seq(Records) /\ ToSet(<<>>) = {} /\ Rising(<<>>) /\ Len(<<>>) = 0
BY DEF ToSet, Rising

LEMMA Appended ==
    ASSUME NEW s \in Seq(Records), NEW n \in Records, Rising(s), Before(ToSet(s), {n})
    PROVE  /\ Append(s, n) \in Seq(Records) /\ Rising(Append(s, n))
           /\ ToSet(Append(s, n)) = ToSet(s) \cup {n}
           /\ Len(Append(s, n)) = Len(s) + 1
<1> DEFINE t == Append(s, n)
<1>1. /\ t \in Seq(Records) /\ Len(t) = Len(s) + 1 /\ t[Len(s) + 1] = n
      /\ \A i \in 1..Len(s) : t[i] = s[i]
    BY AppendProperties
<1> HIDE DEF t
<1>2. Len(s) \in Nat /\ 1..Len(t) = 1..Len(s) \cup {Len(s) + 1}
    BY <1>1, Members
<1>3. \A i \in 1..Len(s) : s[i] < n
    BY Members DEF Before
<1>4. Rising(t)
  <2> SUFFICES ASSUME NEW i \in 1..Len(t), NEW j \in 1..Len(t), i < j PROVE t[i] < t[j]
      BY DEF Rising
  <2>1. i \in 1..Len(s)
      BY <1>1, <1>2
  <2>2. CASE j = Len(s) + 1
      BY <1>1, <1>3, <2>1, <2>2
  <2>3. CASE j \in 1..Len(s)
      BY <1>1, <2>1, <2>3 DEF Rising
  <2> QED BY <1>2, <2>2, <2>3
<1>5. ToSet(t) = ToSet(s) \cup {n}
  <2>1. ASSUME NEW m \in ToSet(t) PROVE m \in ToSet(s) \cup {n}
    <3>1. PICK i \in 1..Len(t) : t[i] = m
        BY <1>1, Members
    <3> QED BY <1>1, <1>2, <3>1, Members
  <2>2. ASSUME NEW m \in ToSet(s) PROVE m \in ToSet(t)
    <3>1. PICK i \in 1..Len(s) : s[i] = m
        BY Members
    <3>2. i \in 1..Len(t) /\ t[i] = m
        BY <1>1, <1>2, <3>1
    <3> QED BY <1>1, <3>2, Members
  <2>3. n \in ToSet(t)
    <3>1. Len(s) + 1 \in 1..Len(t)
        BY <1>2
    <3> QED BY <1>1, <3>1, Members
  <2> QED BY <2>1, <2>2, <2>3
<1> QED BY <1>1, <1>4, <1>5 DEF t

LEMMA PutTogether ==
    ASSUME NEW s \in Seq(Records), NEW t \in Seq(Records), Rising(s), Rising(t),
           Before(ToSet(s), ToSet(t))
    PROVE  /\ s \o t \in Seq(Records) /\ Rising(s \o t) /\ Len(s \o t) = Len(s) + Len(t)
           /\ ToSet(s \o t) = ToSet(s) \cup ToSet(t)
<1> DEFINE r == s \o t
<1>1. /\ r \in Seq(Records) /\ Len(r) = Len(s) + Len(t)
      /\ \A i \in 1..(Len(s) + Len(t)) : r[i] = IF i <= Len(s) THEN s[i] ELSE t[i - Len(s)]
    BY ConcatProperties
<1> HIDE DEF r
<1>2. Len(s) \in Nat /\ Len(t) \in Nat
    BY Members
<1>3. ASSUME NEW i \in 1..Len(r)
      PROVE  \/ i \in 1..Len(s) /\ r[i] = s[i]
             \/ i > Len(s) /\ i - Len(s) \in 1..Len(t) /\ r[i] = t[i - Len(s)]
    BY <1>1, <1>2
<1>4. Rising(r)
  <2> SUFFICES ASSUME NEW i \in 1..Len(r), NEW j \in 1..Len(r), i < j PROVE r[i] < r[j]
      BY DEF Rising
  <2>1. CASE i \in 1..Len(s) /\ j \in 1..Len(s)
    <3>1. s[i] < s[j] /\ r[i] = s[i] /\ r[j] = s[j]
        BY <1>2, <1>3, <2>1 DEF Rising
    <3> QED BY <3>1
  <2>2. CASE i \in 1..Len(s) /\ j > Len(s)
    <3>1. j - Len(s) \in 1..Len(t) /\ r[i] = s[i] /\ r[j] = t[j - Len(s)]
        BY <1>2, <1>3, <2>2
    <3>2. s[i] \in ToSet(s) /\ t[j - Len(s)] \in ToSet(t)
        BY <2>2, <3>1, Members
    <3> QED BY <3>1, <3>2 DEF Before
  <2>3. CASE i > Len(s) /\ j > Len(s)
    <3>1. /\ i - Len(s) \in 1..Len(t) /\ j - Len(s) \in 1..Len(t) /\ i - Len(s) < j - Len(s)
          /\ r[i] = t[i - Len(s)] /\ r[j] = t[j - Len(s)]
        BY <1>2, <1>3, <2>3
    <3>2. t[i - Len(s)] < t[j - Len(s)]
        BY <3>1 DEF Rising
    <3> QED BY <3>1, <3>2
  <2> QED BY <1>2, <1>3, <2>1, <2>2, <2>3
<1>5. ToSet(r) = ToSet(s) \cup ToSet(t)
  <2>1. ASSUME NEW m \in ToSet(r) PROVE m \in ToSet(s) \cup ToSet(t)
    <3>1. PICK i \in 1..Len(r) : r[i] = m
        BY <1>1, Members
    <3>2. CASE i \in 1..Len(s) /\ r[i] = s[i]
        BY <3>1, <3>2, Members
    <3>3. CASE i - Len(s) \in 1..Len(t) /\ r[i] = t[i - Len(s)]
        BY <3>1, <3>3, Members
    <3> QED BY <1>3, <3>2, <3>3
  <2>2. ASSUME NEW m \in ToSet(s) PROVE m \in ToSet(r)
    <3>1. PICK i \in 1..Len(s) : s[i] = m
        BY Members
    <3>2. i \in 1..Len(r) /\ r[i] = m
        BY <1>1, <1>2, <3>1
    <3> QED BY <1>1, <3>2, Members
  <2>3. ASSUME NEW m \in ToSet(t) PROVE m \in ToSet(r)
    <3>1. PICK i \in 1..Len(t) : t[i] = m
        BY Members
    <3>2. /\ i + Len(s) \in 1..Len(r) /\ ~(i + Len(s) <= Len(s)) /\ (i + Len(s)) - Len(s) = i
        BY <1>1, <1>2
    <3>3. r[i + Len(s)] = m
        BY <1>1, <3>1, <3>2
    <3> QED BY <1>1, <3>2, <3>3, Members
  <2> QED BY <2>1, <2>2, <2>3
<1> QED BY <1>1, <1>4, <1>5 DEF r

(* A queue that is cut in two. *)
LEMMA Cut ==
    ASSUME NEW s \in Seq(Records), NEW k \in 0..Len(s), Rising(s)
    PROVE  LET a == SubSeq(s, 1, k)
               b == SubSeq(s, k + 1, Len(s))
           IN  /\ a \in Seq(Records) /\ Rising(a) /\ Len(a) = k
               /\ b \in Seq(Records) /\ Rising(b) /\ Len(b) = Len(s) - k
               /\ ToSet(a) \cup ToSet(b) = ToSet(s) /\ Before(ToSet(a), ToSet(b))
<1> DEFINE a == SubSeq(s, 1, k)
           b == SubSeq(s, k + 1, Len(s))
<1>0. Len(s) \in Nat /\ k \in Nat /\ k <= Len(s)
    BY Members
<1>1. /\ a \in Seq(Records) /\ Len(a) = k /\ \A i \in 1..k : a[i] = s[i]
  <2>1. \A i \in 1..k : s[i] \in Records
      BY <1>0, Members
  <2>2. /\ a \in Seq(Records) /\ Len(a) = IF 1 <= k THEN k - 1 + 1 ELSE 0
        /\ \A i \in 1..(k - 1 + 1) : a[i] = s[1 + i - 1]
      BY <1>0, <2>1, SubSeqProperties
  <2> HIDE DEF a
  <2>3. k - 1 + 1 = k /\ \A i \in 1..k : 1 + i - 1 = i
      BY <1>0
  <2> QED BY <1>0, <2>2, <2>3
<1>2. /\ b \in Seq(Records) /\ Len(b) = Len(s) - k
      /\ \A i \in 1..(Len(s) - k) : b[i] = s[k + i]
  <2>1. \A i \in (k + 1)..Len(s) : s[i] \in Records
      BY <1>0, Members
  <2>2. /\ b \in Seq(Records)
        /\ Len(b) = IF k + 1 <= Len(s) THEN Len(s) - (k + 1) + 1 ELSE 0
        /\ \A i \in 1..(Len(s) - (k + 1) + 1) : b[i] = s[k + 1 + i - 1]
      BY <1>0, <2>1, SubSeqProperties
  <2> HIDE DEF b
  <2>3. Len(s) - (k + 1) + 1 = Len(s) - k
      BY <1>0
  <2>4. Len(b) = Len(s) - k
      BY <1>0, <2>2
  <2>5. ASSUME NEW i \in 1..(Len(s) - k) PROVE b[i] = s[k + i]
    <3>1. k + 1 + i - 1 = k + i
        BY <1>0
    <3> QED BY <2>2, <2>3, <3>1
  <2> QED BY <2>2, <2>4, <2>5
<1> HIDE DEF a, b
<1>3. \A i \in 1..k : i \in 1..Len(s)
    BY <1>0
<1>4. \A i \in 1..(Len(s) - k) : k + i \in 1..Len(s)
    BY <1>0
<1>5. Rising(a)
    BY <1>1, <1>3 DEF Rising
<1>6. Rising(b)
  <2> SUFFICES ASSUME NEW i \in 1..Len(b), NEW j \in 1..Len(b), i < j PROVE b[i] < b[j]
      BY DEF Rising
  <2>1. k + i \in 1..Len(s) /\ k + j \in 1..Len(s) /\ k + i < k + j
      BY <1>0, <1>2, <1>4
  <2>2. s[k + i] < s[k + j]
      BY <2>1 DEF Rising
  <2> QED BY <1>2, <2>2
<1>7. ToSet(a) \cup ToSet(b) = ToSet(s)
  <2>1. ASSUME NEW m \in ToSet(a) PROVE m \in ToSet(s)
    <3>1. PICK i \in 1..k : a[i] = m
        BY <1>1, Members
    <3> QED BY <1>1, <1>3, <3>1, Members
  <2>2. ASSUME NEW m \in ToSet(b) PROVE m \in ToSet(s)
    <3>1. PICK i \in 1..(Len(s) - k) : b[i] = m
        BY <1>2, Members
    <3> QED BY <1>2, <1>4, <3>1, Members
  <2>3. ASSUME NEW m \in ToSet(s) PROVE m \in ToSet(a) \cup ToSet(b)
    <3>1. PICK i \in 1..Len(s) : s[i] = m
        BY Members
    <3>2. CASE i <= k
      <4>1. i \in 1..k
          BY <1>0, <3>2
      <4> QED BY <1>1, <3>1, <4>1, Members
    <3>3. CASE ~(i <= k)
      <4>1. i - k \in 1..(Len(s) - k) /\ k + (i - k) = i
          BY <1>0, <3>3
      <4>2. b[i - k] = m
          BY <1>2, <3>1, <4>1
      <4> QED BY <1>2, <4>1, <4>2, Members
    <3> QED BY <3>2, <3>3
  <2> QED BY <2>1, <2>2, <2>3
<1>8. Before(ToSet(a), ToSet(b))
  <2> SUFFICES ASSUME NEW m \in ToSet(a), NEW n \in ToSet(b) PROVE m < n
      BY DEF Before
  <2>1. PICK i \in 1..k : a[i] = m
      BY <1>1, Members
  <2>2. PICK j \in 1..(Len(s) - k) : b[j] = n
      BY <1>2, Members
  <2>3. i \in 1..Len(s) /\ k + j \in 1..Len(s) /\ i < k + j
      BY <1>0, <1>3, <1>4
  <2> QED BY <1>1, <1>2, <2>1, <2>2, <2>3 DEF Rising
<1> QED BY <1>1, <1>2, <1>5, <1>6, <1>7, <1>8 DEF a, b

(* What a full buffer keeps is newer than what it loses. *)
LEMMA KeptNewest ==
    ASSUME NEW s \in Seq(Records), Rising(s)
    PROVE  /\ Kept(s) \in Seq(Records) /\ Rising(Kept(s)) /\ Len(Kept(s)) <= MaxBuffer
           /\ Kept(s) # s => Len(Kept(s)) = MaxBuffer
           /\ ToSet(s) = Oldest(s) \cup ToSet(Kept(s)) /\ Before(Oldest(s), ToSet(Kept(s)))
<1>0. Len(s) \in Nat /\ MaxBuffer \in Nat \ {0}
    BY Members, BufferFacts
<1>1. CASE Len(s) <= MaxBuffer
  <2>1. Kept(s) = s
      BY <1>0, <1>1 DEF Kept
  <2>2. Oldest(s) = {}
      BY <2>1 DEF Oldest
  <2> QED BY <1>1, <2>1, <2>2 DEF Before
<1>2. CASE ~(Len(s) <= MaxBuffer)
  <2> DEFINE k == Len(s) - MaxBuffer
             a == SubSeq(s, 1, k)
             b == SubSeq(s, k + 1, Len(s))
  <2>1. k \in 0..Len(s) /\ Len(s) - k = MaxBuffer /\ Len(s) > MaxBuffer
      BY <1>0, <1>2
  <2>2. Kept(s) = b
      BY <2>1 DEF Kept, Overflow
  <2> HIDE DEF k
  <2>3. /\ a \in Seq(Records) /\ Rising(a) /\ Len(a) = k
        /\ b \in Seq(Records) /\ Rising(b) /\ Len(b) = Len(s) - k
        /\ ToSet(a) \cup ToSet(b) = ToSet(s) /\ Before(ToSet(a), ToSet(b))
      BY <2>1, Cut
  <2> HIDE DEF a, b
  <2>4. Oldest(s) \subseteq ToSet(a) /\ ToSet(s) = Oldest(s) \cup ToSet(b)
      BY <2>2, <2>3 DEF Oldest
  <2>5. Before(Oldest(s), ToSet(b))
      BY <2>3, <2>4 DEF Before
  <2> QED BY <1>0, <2>1, <2>2, <2>3, <2>4, <2>5
<1> QED BY <1>1, <1>2

LEMMA InitBuffer == BufferInit => BufferInv
<1> SUFFICES ASSUME BufferInit PROVE BufferInv
    OBVIOUS
<1>1. /\ pending = <<>> /\ batch = <<>> /\ arrived = 0 /\ dropped = {} /\ missing = {}
      /\ failed = 0 /\ written = [n \in Records |-> 0] /\ drain = "free" /\ served = "up"
    BY DEF BufferInit
<1>2. \A n \in Records : written[n] = 0
    BY <1>1
<1>3. BufferTypeOK
  <2>1. 0 \in 0..MaxRecords /\ 0 \in 0..MaxFailed /\ 0 \in 0..(MaxFailed + 1)
      BY BufferFacts
  <2> QED BY <1>1, <2>1, NoMembers DEF BufferTypeOK
<1>4. InOrder /\ Seen /\ OldestLost
    BY <1>1, NoMembers, BufferFacts DEF InOrder, Seen, OldestLost, Before
<1>5. Traced
    BY <1>1 DEF Traced
<1>6. RowsWritten
    BY <1>1, <1>2 DEF RowsWritten
<1> QED BY <1>3, <1>4, <1>5, <1>6 DEF BufferInv

(* What a step may use of the invariant. *)
LEMMA BufferState ==
    ASSUME BufferInv
    PROVE  /\ pending \in Seq(Records) /\ batch \in Seq(Records)
           /\ Rising(pending) /\ Rising(batch) /\ Before(ToSet(batch), ToSet(pending))
           /\ arrived \in Nat /\ arrived <= MaxRecords /\ failed \in Nat /\ failed <= MaxFailed
           /\ written \in [Records -> 0..(MaxFailed + 1)]
           /\ \A n \in Records : written[n] \in Nat
           /\ ToSet(pending) \subseteq Records /\ ToSet(batch) \subseteq Records
           /\ dropped \subseteq Records /\ missing \subseteq Records
           /\ \A n \in Records : n \in Nat
<1>1. /\ pending \in Seq(Records) /\ batch \in Seq(Records) /\ arrived \in 0..MaxRecords
      /\ failed \in 0..MaxFailed /\ written \in [Records -> 0..(MaxFailed + 1)]
      /\ dropped \subseteq Records /\ missing \subseteq Records
    BY DEF BufferInv, BufferTypeOK
<1>2. \A n \in Records : n \in Nat
    BY BufferFacts DEF Records
<1>3. \A n \in Records : written[n] \in Nat
    BY <1>1, BufferFacts
<1>4. arrived \in Nat /\ arrived <= MaxRecords /\ failed \in Nat /\ failed <= MaxFailed
    BY <1>1, BufferFacts
<1> QED BY <1>1, <1>2, <1>3, <1>4, Members DEF BufferInv, InOrder

(* How much a transaction writes. *)
LEMMA WrittenRows ==
    ASSUME BufferInv, Written
    PROVE  /\ written' \in [Records -> 0..(MaxFailed + 1)]
           /\ \A n \in Records :
                 /\ n \in ToSet(batch) => written'[n] = written[n] + 1 /\ written'[n] <= failed + 1
                 /\ n \notin ToSet(batch) => written'[n] = written[n]
<1> DEFINE w(n) == written[n] + IF n \in ToSet(batch) THEN 1 ELSE 0
<1>1. written' = [n \in Records |-> w(n)]
    BY DEF Written
<1>2. \A n \in Records : n \in ToSet(batch) => written[n] <= failed
    BY DEF BufferInv, RowsWritten
<1>3. \A n \in Records : written[n] \in 0..(MaxFailed + 1)
    BY BufferState
<1>4. ASSUME NEW n \in Records
      PROVE  /\ w(n) \in 0..(MaxFailed + 1)
             /\ n \in ToSet(batch) => w(n) = written[n] + 1 /\ w(n) <= failed + 1
             /\ n \notin ToSet(batch) => w(n) = written[n]
  <2>1. written[n] \in Nat /\ failed \in Nat /\ failed <= MaxFailed /\ MaxFailed \in Nat
      BY BufferState, BufferFacts
  <2>2. CASE n \in ToSet(batch)
      BY <1>2, <2>1, <2>2
  <2>3. CASE n \notin ToSet(batch)
      BY <1>3, <2>1, <2>3
  <2> QED BY <2>2, <2>3
<1> HIDE DEF w
<1> QED BY <1>1, <1>4

LEMMA QueueBuffer ==
    ASSUME BufferInv, Queue
    PROVE  BufferInv'
<1> DEFINE n == arrived + 1
           q == Append(pending, n)
<1>1. /\ arrived' = n /\ arrived < MaxRecords /\ pending' = Kept(q)
      /\ dropped' = dropped \cup Oldest(q)
      /\ UNCHANGED <<batch, drain, served, written, missing, failed>>
    BY DEF Queue
<1>2. n \in Records /\ arrived \in Nat /\ arrived < n
    BY <1>1, BufferState, BufferFacts DEF Records
<1> HIDE DEF n
<1>3. /\ ToSet(batch) \cup ToSet(pending) \cup dropped \subseteq 1..arrived
      /\ \A m \in 1..arrived : m < n
      /\ 1..n = 1..arrived \cup {n} /\ n \notin 1..arrived
    BY <1>2 DEF BufferInv, Seen, n
<1>4. q \in Seq(Records) /\ Rising(q) /\ ToSet(q) = ToSet(pending) \cup {n}
    BY <1>2, <1>3, BufferState, Appended DEF Before
<1>l. Len(q) = Len(pending) + 1 /\ Len(pending) \in Nat
    BY <1>2, <1>3, BufferState, Appended, Members DEF Before
<1> HIDE DEF q
<1>5. /\ Kept(q) \in Seq(Records) /\ Rising(Kept(q)) /\ Len(Kept(q)) <= MaxBuffer
      /\ Kept(q) # q => Len(Kept(q)) = MaxBuffer
      /\ ToSet(q) = Oldest(q) \cup ToSet(Kept(q)) /\ Before(Oldest(q), ToSet(Kept(q)))
    BY <1>4, KeptNewest
<1>6. BufferTypeOK'
  <2>1. n \in 0..MaxRecords
      BY <1>2 DEF Records
  <2>2. Oldest(q) \subseteq Records
      BY <1>2, <1>4, <1>5, BufferState
  <2> QED BY <1>1, <1>5, <2>1, <2>2 DEF BufferInv, BufferTypeOK
<1>7. InOrder'
  <2>1. Before(ToSet(batch), ToSet(Kept(q)))
      BY <1>3, <1>4, <1>5, BufferState DEF Before
  <2> QED BY <1>1, <1>5, <2>1, BufferState DEF InOrder
<1>8. Seen'
    BY <1>1, <1>3, <1>4, <1>5 DEF Seen
<1>9. Traced'
  <2> SUFFICES ASSUME NEW m \in 1..n
               PROVE  \/ m \in ToSet(batch) \cup ToSet(Kept(q)) \cup (dropped \cup Oldest(q))
                               \cup missing
                      \/ written[m] > 0
      BY <1>1 DEF Traced
  <2>1. CASE m = n
      BY <1>4, <1>5, <2>1
  <2>2. CASE m \in 1..arrived
      BY <1>4, <1>5, <2>2 DEF BufferInv, Traced
  <2> QED BY <1>3, <2>1, <2>2
<1>10. RowsWritten'
  <2> SUFFICES ASSUME NEW m \in Records
               PROVE  /\ written[m] <= failed + 1
                      /\ m \in ToSet(batch) \cup ToSet(Kept(q)) => written[m] <= failed
                      /\ m > n => written[m] = 0
      BY <1>1 DEF RowsWritten
  <2>1. /\ written[m] <= failed + 1
        /\ m \in ToSet(batch) \cup ToSet(pending) => written[m] <= failed
        /\ m > arrived => written[m] = 0
      BY DEF BufferInv, RowsWritten
  <2>2. m > n \/ m = n => m > arrived
      BY <1>2, BufferState
  <2>3. failed \in Nat
      BY BufferState
  <2>4. m \in ToSet(Kept(q)) => m \in ToSet(pending) \/ m = n
      BY <1>4, <1>5
  <2> QED BY <2>1, <2>2, <2>3, <2>4
<1>11. OldestLost'
  <2>1. Before(dropped \cup Oldest(q), ToSet(Kept(q)))
    <3>1. Before(dropped, ToSet(pending))
        BY DEF BufferInv, OldestLost
    <3> QED BY <1>3, <1>4, <1>5, <3>1 DEF Before
  <2>2. ASSUME Len(Kept(q)) < MaxBuffer PROVE Before(dropped \cup Oldest(q), ToSet(batch))
    <3>1. Kept(q) = q
        BY <1>5, <2>2, Members, BufferFacts
    <3>2. Oldest(q) = {}
        BY <3>1 DEF Oldest
    <3>3. Len(pending) < MaxBuffer
        BY <1>l, <2>2, <3>1, BufferFacts
    <3> QED BY <3>2, <3>3 DEF BufferInv, OldestLost
  <2> QED BY <1>1, <1>5, <2>1, <2>2 DEF OldestLost
<1> QED BY <1>6, <1>7, <1>8, <1>9, <1>10, <1>11 DEF BufferInv

LEMMA TakeBuffer ==
    ASSUME BufferInv, TakeBatch
    PROVE  BufferInv'
<1> DEFINE k == IF Len(pending) < BatchSize THEN Len(pending) ELSE BatchSize
           a == SubSeq(pending, 1, k)
           b == SubSeq(pending, k + 1, Len(pending))
<1>1. /\ batch = <<>> /\ batch' = a /\ pending' = b /\ pending # <<>>
      /\ UNCHANGED <<drain, served, arrived, written, dropped, missing, failed>>
    BY DEF TakeBatch
<1>2. k \in 0..Len(pending) /\ k > 0 /\ Len(pending) \in Nat
  <2>1. Len(pending) \in Nat /\ Len(pending) # 0
      BY <1>1, BufferState, Members, EmptySeq
  <2> QED BY <2>1, BufferFacts
<1> HIDE DEF k
<1>3. /\ a \in Seq(Records) /\ Rising(a)
      /\ b \in Seq(Records) /\ Rising(b) /\ Len(b) = Len(pending) - k
      /\ ToSet(a) \cup ToSet(b) = ToSet(pending) /\ Before(ToSet(a), ToSet(b))
    BY <1>2, BufferState, Cut
<1> HIDE DEF a, b
<1>4. ToSet(batch) = {} /\ ToSet(batch) \cup ToSet(pending) = ToSet(a) \cup ToSet(b)
    BY <1>1, <1>3, NoMembers
<1>5. BufferTypeOK'
    BY <1>1, <1>3 DEF BufferInv, BufferTypeOK
<1>6. InOrder'
    BY <1>1, <1>3 DEF InOrder
<1>7. Seen' /\ Traced'
    BY <1>1, <1>4 DEF BufferInv, Seen, Traced
<1>8. RowsWritten'
    BY <1>1, <1>4 DEF BufferInv, RowsWritten
<1>9. OldestLost'
  <2>1. Len(b) <= MaxBuffer
      BY <1>2, <1>3, BufferFacts DEF BufferInv, OldestLost
  <2>2. Before(dropped, ToSet(a)) /\ Before(dropped, ToSet(b))
      BY <1>3 DEF BufferInv, OldestLost, Before
  <2> QED BY <1>1, <2>1, <2>2 DEF OldestLost
<1> QED BY <1>5, <1>6, <1>7, <1>8, <1>9 DEF BufferInv

(* The batch is out: its records are written, or went missing with the flush. *)
LEMMA BatchGone ==
    ASSUME BufferInv, batch' = <<>>, drain' \in {"free", "loop", "other", "last"},
           served' \in {"up", "stopping", "gone"}, UNCHANGED <<pending, arrived, dropped, failed>>,
           \/ Written /\ UNCHANGED missing
           \/ UNCHANGED written /\ missing' = missing \cup ToSet(batch)
    PROVE  BufferInv'
<1>1. ToSet(batch') = {} /\ batch' \in Seq(Records) /\ Rising(batch')
    BY NoMembers
<1>2. /\ \A n \in Records : written'[n] = written[n] \/ n \in ToSet(batch)
      /\ \A n \in ToSet(batch) : written'[n] > 0 \/ n \in missing'
      /\ \A n \in Records : written'[n] <= failed + 1
      /\ written' \in [Records -> 0..(MaxFailed + 1)] /\ missing \subseteq missing'
      /\ missing' \subseteq Records
  <2>1. CASE Written /\ UNCHANGED missing
    <3>1. \A n \in ToSet(batch) : n \in Records /\ written[n] \in Nat
        BY BufferState
    <3>2. \A n \in Records : written[n] <= failed + 1
        BY DEF BufferInv, RowsWritten
    <3>3. \A n \in ToSet(batch) : written'[n] > 0
        BY <2>1, <3>1, WrittenRows
    <3> QED BY <2>1, <3>2, <3>3, WrittenRows, BufferState
  <2>2. CASE UNCHANGED written /\ missing' = missing \cup ToSet(batch)
      BY <2>2, BufferState DEF BufferInv, RowsWritten
  <2> QED BY <2>1, <2>2
<1>3. BufferTypeOK'
    BY <1>1, <1>2 DEF BufferInv, BufferTypeOK
<1>4. InOrder'
    BY <1>1 DEF BufferInv, InOrder, Before
<1>5. Seen'
    BY <1>1 DEF BufferInv, Seen
<1>6. Traced'
  <2> SUFFICES ASSUME NEW n \in 1..arrived
               PROVE  n \in ToSet(pending) \cup dropped \cup missing' \/ written'[n] > 0
      BY <1>1 DEF Traced
  <2>1. n \in Records
      BY BufferState, BufferFacts DEF Records
  <2> QED BY <1>2, <2>1 DEF BufferInv, Traced
<1>7. RowsWritten'
  <2> SUFFICES ASSUME NEW n \in Records
               PROVE  /\ written'[n] <= failed + 1
                      /\ n \in ToSet(pending) => written'[n] <= failed
                      /\ n > arrived => written'[n] = 0
      BY <1>1 DEF RowsWritten
  <2>1. /\ n \in ToSet(pending) => written[n] <= failed
        /\ n > arrived => written[n] = 0
      BY DEF BufferInv, RowsWritten
  <2>2. n \in ToSet(pending) \/ n > arrived => n \notin ToSet(batch)
    <3>1. n \in ToSet(pending) => n \notin ToSet(batch)
        BY BufferState DEF Before
    <3>2. n > arrived => n \notin ToSet(batch)
        BY BufferState DEF BufferInv, Seen
    <3> QED BY <3>1, <3>2
  <2> QED BY <1>2, <2>1, <2>2
<1>8. OldestLost'
    BY <1>1 DEF BufferInv, OldestLost, Before
<1> QED BY <1>3, <1>4, <1>5, <1>6, <1>7, <1>8 DEF BufferInv

LEMMA AfterBatch ==
    ASSUME NEW s \in Seq(Records), NEW t \in Seq(Records)
    PROVE  SubSeq(s \o t, Len(s) + 1, Len(s \o t)) = t
<1> DEFINE r == s \o t
           k == Len(s) + 1
           u == SubSeq(r, k, Len(r))
<1>1. /\ r \in Seq(Records) /\ Len(r) = Len(s) + Len(t)
      /\ \A i \in 1..(Len(s) + Len(t)) : r[i] = IF i <= Len(s) THEN s[i] ELSE t[i - Len(s)]
    BY ConcatProperties
<1>2. Len(s) \in Nat /\ Len(t) \in Nat
    BY Members
<1> HIDE DEF r
<1>3. \A i \in k..Len(r) : r[i] \in Records
    BY <1>1, <1>2, Members
<1>4. /\ u \in Seq(Records) /\ Len(u) = IF k <= Len(r) THEN Len(r) - k + 1 ELSE 0
      /\ \A i \in 1..(Len(r) - k + 1) : u[i] = r[k + i - 1]
    BY <1>1, <1>2, <1>3, SubSeqProperties
<1> HIDE DEF u
<1>5. Len(u) = Len(t) /\ Len(r) - k + 1 = Len(t)
    BY <1>1, <1>2, <1>4
<1>6. ASSUME NEW i \in 1..Len(t) PROVE u[i] = t[i]
  <2>1. /\ k + i - 1 = Len(s) + i /\ Len(s) + i \in 1..(Len(s) + Len(t))
        /\ ~(Len(s) + i <= Len(s)) /\ (Len(s) + i) - Len(s) = i
      BY <1>2
  <2> QED BY <1>1, <1>4, <1>5, <2>1
<1>7. u = t
    BY <1>4, <1>5, <1>6, SeqEqual
<1> QED BY <1>7 DEF u, r

LEMMA FailBuffer ==
    ASSUME BufferInv, FlushFails
    PROVE  BufferInv'
<1> DEFINE q == batch \o pending
<1>1. /\ batch # <<>> /\ failed < MaxFailed /\ failed' = failed + 1 /\ arrived' = arrived
      /\ Written \/ UNCHANGED written
      /\ dropped' = dropped \cup Oldest(q) /\ drain' = "free" /\ batch' = <<>>
      /\ \/ /\ served' = "gone" /\ pending' = <<>> /\ missing' = missing \cup ToSet(Kept(q))
         \/ pending' = Kept(q) /\ UNCHANGED <<served, missing>>
    BY DEF FlushFails, EndsWith, PutBack
<1>2. /\ q \in Seq(Records) /\ Rising(q) /\ Len(q) = Len(batch) + Len(pending)
      /\ ToSet(q) = ToSet(batch) \cup ToSet(pending)
    BY BufferState, PutTogether
<1>3. /\ Kept(q) \in Seq(Records) /\ Rising(Kept(q)) /\ Len(Kept(q)) <= MaxBuffer
      /\ ToSet(q) = Oldest(q) \cup ToSet(Kept(q)) /\ Before(Oldest(q), ToSet(Kept(q)))
    BY <1>2, KeptNewest
<1>4. Before(dropped, ToSet(Kept(q)))
  <2>1. Before(dropped, ToSet(pending))
      BY DEF BufferInv, OldestLost
  <2>2. CASE Len(pending) < MaxBuffer
      BY <1>2, <1>3, <2>1, <2>2 DEF BufferInv, OldestLost, Before
  <2>3. CASE ~(Len(pending) < MaxBuffer)
    <3>1. Len(pending) = MaxBuffer /\ Len(batch) \in Nat /\ Len(batch) # 0
      <4>1. Len(batch) \in Nat /\ Len(batch) # 0 /\ Len(pending) \in Nat
          BY <1>1, BufferState, Members, EmptySeq
      <4> QED BY <2>3, <4>1, BufferFacts DEF BufferInv, OldestLost
    <3>2. Len(q) > MaxBuffer /\ Len(q) - MaxBuffer + 1 = Len(batch) + 1
        BY <1>2, <3>1, BufferFacts
    <3>3. Kept(q) = SubSeq(q, Len(batch) + 1, Len(q))
        BY <3>2, BufferFacts DEF Kept, Overflow
    <3>4. Kept(q) = pending
        BY <3>3, AfterBatch, BufferState
    <3> QED BY <2>1, <3>4
  <2> QED BY <2>2, <2>3
<1> HIDE DEF q
<1>5. /\ pending' \in Seq(Records) /\ Rising(pending') /\ Len(pending') <= MaxBuffer
      /\ ToSet(pending') \subseteq ToSet(Kept(q)) /\ ToSet(batch') = {} /\ batch' = <<>>
      /\ ToSet(Kept(q)) \subseteq ToSet(pending') \cup missing' /\ missing \subseteq missing'
      /\ missing' \subseteq Records /\ served' \in {"up", "stopping", "gone"}
  <2>1. CASE /\ served' = "gone" /\ pending' = <<>>
             /\ missing' = missing \cup ToSet(Kept(q))
      BY <1>1, <1>3, <2>1, NoMembers, Members, BufferState, BufferFacts
  <2>2. CASE pending' = Kept(q) /\ UNCHANGED <<served, missing>>
      BY <1>1, <1>3, <2>2, NoMembers, BufferState DEF BufferInv, BufferTypeOK
  <2> QED BY <1>1, <2>1, <2>2
<1>6. /\ written' \in [Records -> 0..(MaxFailed + 1)]
      /\ \A n \in Records : /\ written'[n] = written[n] \/ n \in ToSet(batch)
                            /\ written'[n] <= failed + 1
                            /\ written[n] > 0 => written'[n] > 0
  <2>1. CASE Written
    <3>1. \A n \in Records : written[n] \in Nat /\ written[n] <= failed + 1
        BY BufferState DEF BufferInv, RowsWritten
    <3>2. \A n \in Records : written[n] > 0 => written'[n] > 0
        BY <2>1, <3>1, WrittenRows
    <3> QED BY <2>1, <3>1, <3>2, WrittenRows
  <2>2. CASE UNCHANGED written
      BY <2>2, BufferState DEF BufferInv, RowsWritten
  <2> QED BY <1>1, <2>1, <2>2
<1>7. BufferTypeOK'
  <2>1. failed' \in 0..MaxFailed
      BY <1>1, BufferState, BufferFacts
  <2>2. dropped' \subseteq Records
      BY <1>1, <1>2, <1>3, BufferState
  <2>3. batch' \in Seq(Records)
      BY <1>5, NoMembers
  <2> QED BY <1>1, <1>5, <1>6, <2>1, <2>2, <2>3 DEF BufferInv, BufferTypeOK
<1>8. InOrder'
    BY <1>5, NoMembers DEF InOrder, Before
<1>9. Seen'
    BY <1>1, <1>2, <1>3, <1>5 DEF BufferInv, Seen
<1>10. Traced'
  <2> SUFFICES ASSUME NEW n \in 1..arrived
               PROVE  n \in ToSet(pending') \cup dropped' \cup missing' \/ written'[n] > 0
      BY <1>1, <1>5 DEF Traced
  <2>1. n \in Records
      BY BufferState, BufferFacts DEF Records
  <2>2. n \in ToSet(batch) \cup ToSet(pending) \cup dropped \cup missing \/ written[n] > 0
      BY DEF BufferInv, Traced
  <2> QED BY <1>1, <1>2, <1>3, <1>5, <1>6, <2>1, <2>2
<1>11. RowsWritten'
  <2> SUFFICES ASSUME NEW n \in Records
               PROVE  /\ written'[n] <= failed' + 1
                      /\ n \in ToSet(pending') => written'[n] <= failed'
                      /\ n > arrived => written'[n] = 0
      BY <1>1, <1>5 DEF RowsWritten
  <2>1. written'[n] <= failed + 1 /\ written'[n] \in Nat
      BY <1>6, BufferFacts
  <2>2. failed' = failed + 1 /\ failed \in Nat
      BY <1>1, BufferState
  <2>3. n > arrived => n \notin ToSet(batch) /\ written[n] = 0
      BY BufferState DEF BufferInv, Seen, RowsWritten
  <2> QED BY <1>6, <2>1, <2>2, <2>3
<1>12. OldestLost'
    BY <1>1, <1>3, <1>4, <1>5 DEF OldestLost, Before
<1> QED BY <1>7, <1>8, <1>9, <1>10, <1>11, <1>12 DEF BufferInv

LEMMA DrainBuffer ==
    ASSUME BufferInv, Drained
    PROVE  BufferInv'
<1>1. /\ batch' = batch /\ pending' = pending /\ missing' = missing /\ drain' = "free"
      /\ served' = served \/ served' = "gone"
      /\ UNCHANGED <<arrived, written, dropped, failed>>
    BY NoMembers DEF Drained, EndsWith
<1> QED BY <1>1
        DEF BufferInv, BufferTypeOK, InOrder, Seen, Traced, RowsWritten, OldestLost

LEMMA StepBuffer == BufferInv /\ [BufferNext]_bufferVars => BufferInv'
<1> SUFFICES ASSUME BufferInv, [BufferNext]_bufferVars PROVE BufferInv'
    OBVIOUS
<1>1. ASSUME UNCHANGED <<pending, batch, arrived, written, dropped, missing, failed>>,
             drain' \in {"free", "loop", "other", "last"}, served' \in {"up", "stopping", "gone"}
      PROVE  BufferInv'
    BY <1>1 DEF BufferInv, BufferTypeOK, InOrder, Seen, Traced, RowsWritten, OldestLost
<1>2. drain \in {"free", "loop", "other", "last"} /\ served \in {"up", "stopping", "gone"}
    BY DEF BufferInv, BufferTypeOK
<1>3. ASSUME NEW who \in {"loop", "other", "last"}, Flush(who) PROVE BufferInv'
    BY <1>1, <1>2, <1>3 DEF Flush
<1>4. CASE Commit
    BY <1>2, <1>4, BatchGone DEF Commit
<1>5. CASE ShutDown
  <2>1. CASE drain = "loop"
      BY <1>2, <1>5, <2>1, BatchGone DEF ShutDown
  <2>2. CASE drain # "loop"
      BY <1>1, <1>2, <1>5, <2>2 DEF ShutDown
  <2> QED BY <2>1, <2>2
<1>6. CASE UNCHANGED bufferVars
    BY <1>1, <1>2, <1>6 DEF bufferVars
<1> QED BY <1>3, <1>4, <1>5, <1>6, QueueBuffer, TakeBuffer, FailBuffer, DrainBuffer
        DEF BufferNext

LEMMA RisingOnce ==
    ASSUME NEW s \in Seq(Records), Rising(s), NEW n \in Records
    PROVE  LET places == {i \in DOMAIN s : s[i] = n}
           IN  IF n \in ToSet(s) THEN Cardinality(places) = 1 ELSE Cardinality(places) = 0
<1> DEFINE places == {i \in DOMAIN s : s[i] = n}
<1>1. \A i, j \in places : i = j
  <2> SUFFICES ASSUME NEW i \in 1..Len(s), NEW j \in 1..Len(s), s[i] = n, s[j] = n, i < j
               PROVE  FALSE
    <3>1. \A i, j \in places : i \in 1..Len(s) /\ j \in 1..Len(s) /\ s[i] = n /\ s[j] = n
        BY Members
    <3> QED BY <3>1
  <2>1. n < n /\ n \in Int
      BY BufferFacts DEF Rising, Records
  <2> QED BY <2>1
<1>2. CASE n \in ToSet(s)
  <2>1. PICK i \in places : TRUE
      BY <1>2, Members
  <2>2. places = {i}
      BY <1>1
  <2> QED BY <1>2, <2>2, FS_Singleton
<1>3. CASE n \notin ToSet(s)
  <2>1. places = {}
      BY <1>3, Members
  <2> QED BY <1>3, <2>1, FS_EmptySet
<1> QED BY <1>2, <1>3

LEMMA BufferHolds == BufferInv => RecordsKept
<1> SUFFICES ASSUME BufferInv PROVE RecordsKept
    OBVIOUS
<1>1. /\ Held \in Seq(Records) /\ Rising(Held)
      /\ ToSet(Held) = ToSet(batch) \cup ToSet(pending)
    BY BufferState, PutTogether DEF Held
<1>2. \A n \in 1..arrived : n \in ToSet(Held) \cup dropped \cup missing \/ written[n] > 0
    BY <1>1 DEF BufferInv, Traced
<1>3. ASSUME failed = 0, NEW n \in Records
      PROVE  written[n] + Cardinality({i \in DOMAIN Held : Held[i] = n}) <= 1
  <2>1. written[n] \in Nat /\ written[n] <= 1 /\ (n \in ToSet(Held) => written[n] <= 0)
      BY <1>1, <1>3, BufferState DEF BufferInv, RowsWritten
  <2>2. CASE n \in ToSet(Held)
      BY <1>1, <2>1, <2>2, RisingOnce
  <2>3. CASE n \notin ToSet(Held)
      BY <1>1, <2>1, <2>3, RisingOnce
  <2> QED BY <2>2, <2>3
<1>4. \A n \in ToSet(pending), d \in dropped : d < n
    BY DEF BufferInv, OldestLost, Before
<1> QED BY <1>2, <1>3, <1>4 DEF RecordsKept

(* A record that has arrived and is not held any more stays away and is not written again. *)
Departed ==
    \A n \in 1..arrived : n \notin ToSet(batch) \cup ToSet(pending) =>
        n \notin ToSet(batch') \cup ToSet(pending') /\ written'[n] = written[n]

LEMMA WrittenHeld ==
    ASSUME BufferInv, Written \/ UNCHANGED written,
           ToSet(batch') \cup ToSet(pending') \subseteq ToSet(batch) \cup ToSet(pending)
    PROVE  Departed
<1>1. 1..arrived \subseteq Records
    BY BufferState, BufferFacts DEF Records
<1> QED BY <1>1, WrittenRows DEF Departed

LEMMA DepartedStep ==
    ASSUME BufferInv, [BufferNext]_bufferVars
    PROVE  Departed
<1>1. CASE Queue
  <2> DEFINE n == arrived + 1
             q == Append(pending, n)
  <2>1. pending' = Kept(q) /\ UNCHANGED <<batch, written>> /\ arrived < MaxRecords
      BY <1>1 DEF Queue
  <2>2. n \in Records /\ n \notin 1..arrived /\ \A m \in 1..arrived : m < n
      BY <2>1, BufferState, BufferFacts DEF Records
  <2> HIDE DEF n
  <2>3. q \in Seq(Records) /\ Rising(q) /\ ToSet(q) = ToSet(pending) \cup {n}
      BY <2>2, BufferState, Appended DEF BufferInv, Seen, Before
  <2>4. ToSet(Kept(q)) \subseteq ToSet(pending) \cup {n}
      BY <2>3, KeptNewest
  <2> QED BY <2>1, <2>2, <2>4 DEF Departed
<1>2. CASE TakeBatch
  <2> DEFINE k == IF Len(pending) < BatchSize THEN Len(pending) ELSE BatchSize
  <2>1. /\ batch' = SubSeq(pending, 1, k) /\ pending' = SubSeq(pending, k + 1, Len(pending))
        /\ UNCHANGED written
      BY <1>2 DEF TakeBatch
  <2>2. k \in 0..Len(pending)
      BY BufferState, BufferFacts, Members
  <2> HIDE DEF k
  <2>3. ToSet(batch') \cup ToSet(pending') = ToSet(pending)
      BY <2>1, <2>2, BufferState, Cut
  <2> QED BY <2>1, <2>3, WrittenHeld
<1>3. CASE Commit
  <2>1. batch' = <<>> /\ pending' = pending /\ Written
      BY <1>3 DEF Commit
  <2> QED BY <2>1, NoMembers, WrittenHeld
<1>4. CASE FlushFails
  <2> DEFINE q == batch \o pending
  <2>1. /\ batch' = <<>>
        /\ pending' = <<>> \/ pending' = Kept(q)
        /\ Written \/ UNCHANGED written
      BY <1>4 DEF FlushFails, EndsWith, PutBack
  <2>2. q \in Seq(Records) /\ Rising(q) /\ ToSet(q) = ToSet(batch) \cup ToSet(pending)
      BY BufferState, PutTogether
  <2> HIDE DEF q
  <2>3. ToSet(Kept(q)) \subseteq ToSet(q)
      BY <2>2, KeptNewest
  <2>4. ToSet(batch') = {}
      BY <2>1, NoMembers
  <2>5. ToSet(pending') \subseteq ToSet(batch) \cup ToSet(pending)
    <3>1. CASE pending' = <<>>
        BY <3>1, NoMembers
    <3>2. CASE pending' = Kept(q)
        BY <2>2, <2>3, <3>2
    <3> QED BY <2>1, <3>1, <3>2
  <2> QED BY <2>1, <2>4, <2>5, WrittenHeld
<1>5. CASE Drained
    BY <1>5, NoMembers, WrittenHeld DEF Drained, EndsWith
<1>6. CASE ShutDown
  <2>1. batch' = batch \/ batch' = <<>>
      BY <1>6 DEF ShutDown
  <2>2. pending' = pending /\ (Written \/ UNCHANGED written)
      BY <1>6 DEF ShutDown
  <2> QED BY <2>1, <2>2, NoMembers, WrittenHeld
<1>7. ASSUME NEW who \in {"loop", "other", "last"}, Flush(who) PROVE Departed
    BY <1>7, WrittenHeld DEF Flush
<1>8. CASE UNCHANGED bufferVars
    BY <1>8, WrittenHeld DEF bufferVars
<1> QED BY <1>1, <1>2, <1>3, <1>4, <1>5, <1>6, <1>7, <1>8 DEF BufferNext

-----------------------------------------------------------------------------
(* The jobs *)

(* A step of the jobs is a step of one of them and leaves the others alone. *)
LEMMA JobSteps ==
    ASSUME [JobsNext]_jobsVars
    PROVE  /\ [Next]_vars /\ [UsageNext]_usageVars /\ [StatusNext]_statusVars
           /\ [LifecycleNext]_lifecycleVars /\ [BufferNext]_bufferVars
<1>1. CASE Leader /\ Next
    BY <1>1 DEF Leader
<1>2. CASE Usages /\ UsageNext
    BY <1>2 DEF Usages
<1>3. CASE Status /\ StatusNext
    BY <1>3 DEF Status
<1>4. CASE Nodes /\ LifecycleNext
    BY <1>4 DEF Nodes
<1>5. CASE Buffer /\ BufferNext
    BY <1>5 DEF Buffer
<1>6. CASE UNCHANGED jobsVars
    BY <1>6 DEF jobsVars
<1> QED BY <1>1, <1>2, <1>3, <1>4, <1>5, <1>6 DEF JobsNext

(* Every process, run, session, task and flush stays within its types, whatever the calls cost, *)
(* whichever sessions overlap and however often a flush fails: no counter leaves its bounds, no *)
(* lock has two owners and a user's row is never anything but a user.                           *)
THEOREM JobsTypes == JobsSpec => []JobsTypeOK
<1> DEFINE Inv == Base /\ UsageTypeOK /\ StatusShape /\ LifecycleInv /\ BufferInv
<1>1. JobsInit => Inv
    BY LifecycleAssumption, InitBase, InitType, InitStatusShape, InvStart, InitBuffer DEF JobsInit
<1>2. Inv /\ [JobsNext]_jobsVars => Inv'
    BY LifecycleAssumption, JobSteps, NextBase, NextType, StepStatusShape, InvStep, StepBuffer
<1>3. Inv => JobsTypeOK
    BY InvTypes DEF Base, StatusShape, BufferInv, JobsTypeOK
<1> QED
    BY <1>1, <1>2, <1>3, PTL DEF JobsSpec

(* The buffer of subscription updates (sub_update_buffer.py): no record disappears by itself,  *)
(* none is written twice unless a failed transaction had committed, and what a full buffer     *)
(* lost is older than what it keeps, whatever arrives, fails or is put back during a flush.    *)
THEOREM RecordsAreKept == JobsSpec => []RecordsKept
<1>1. JobsInit => BufferInv
    BY InitBuffer DEF JobsInit
<1>2. BufferInv /\ [JobsNext]_jobsVars => BufferInv'
    BY JobSteps, StepBuffer
<1>3. BufferInv => RecordsKept
    BY BufferHolds
<1> QED
    BY <1>1, <1>2, <1>3, PTL DEF JobsSpec

(* A record that was written, lost to a full buffer or gone with a cancelled flush is never in the *)
(* buffer again and never written again, whatever fails and is put back later (_pending[0:0] =     *)
(* batch): only a record that is held can become a row.                                            *)
THEOREM DepartedForGood == JobsSpec => [][Departed]_bufferVars
<1>1. JobsInit => BufferInv
    BY InitBuffer DEF JobsInit
<1>2. BufferInv /\ [JobsNext]_jobsVars => BufferInv'
    BY JobSteps, StepBuffer
<1>3. BufferInv /\ [JobsNext]_jobsVars => [Departed]_bufferVars
    BY JobSteps, DepartedStep
<1> QED
    BY <1>1, <1>2, <1>3, PTL DEF JobsSpec

(* What is proved of one job holds when it runs beside the others: the jobs share no state. *)
THEOREM JobsCompose ==
    JobsSpec => Spec /\ UsageSpec /\ StatusSpec /\ LifecycleSpec /\ BufferSpec
<1>1. JobsInit => Init /\ UsageInit /\ StatusInit /\ LifecycleInit /\ BufferInit
    BY DEF JobsInit
<1>2. [JobsNext]_jobsVars
      => /\ [Next]_vars /\ [UsageNext]_usageVars /\ [StatusNext]_statusVars
         /\ [LifecycleNext]_lifecycleVars /\ [BufferNext]_bufferVars
    BY JobSteps
<1> QED
    BY <1>1, <1>2, PTL DEF JobsSpec, Spec, UsageSpec, StatusSpec, LifecycleSpec, BufferSpec
=============================================================================
