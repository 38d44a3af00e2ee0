--------------------------- MODULE UserSyncProofs ---------------------------
(***************************************************************************)
(* Proofs about UserSync.  HandedOutOnce needs that a pending key never    *)
(* holds a revision that was handed out.  KeptUntilSent is not inductive:  *)
(* a claim that keeps a user may be one its worker is about to clean up,   *)
(* so Keeper asks for a claim nobody is going to delete.                   *)
(***************************************************************************)
EXTENDS UserSync, TLAPS

(* Types *)

\* What TypeOK says of one worker.
WorkerOK(w) ==
    /\ pc[w] \in {"idle", "expired", "pending"} <=> cur[w] = None
    /\ pc[w] \in {"idle", "expired"} => got[w] = {}
    /\ pc[w] = "idle" => todo[w] = {}
    /\ pc[w] \in {"putback", "unclaim"} => got[w] = {} \/ cur[w] \in got[w]

LEMMA InitType == Init => TypeOK
BY UserSyncAssumption DEF Init, TypeOK, NoKey, Steps, ClaimToks

\* A key is put: by an enqueue, its repetition or a requeue.
LEMMA PutType ==
    ASSUME TypeOK, NEW e \in Emails, NEW v \in Nat \ {0}, Put(e, v)
    PROVE  /\ puts' \in Nat
           /\ pend' \in [Emails -> {NoKey} \cup [ver : Nat \ {0}, rev : 1..puts']]
           /\ owed' \in [Emails -> 0..puts']
           /\ taken \subseteq 1..puts'
BY DEF TypeOK, Put

LEMMA SettledType ==
    ASSUME TypeOK, NEW S, Settled(S)
    PROVE  owed' \in [Emails -> 0..puts]
BY DEF TypeOK, Settled

LEMMA DeleteType ==
    ASSUME TypeOK, NEW c, DeleteClaim(c)
    PROVE  claims' \subseteq Item /\ expired' \subseteq ClaimToks'
BY DEF TypeOK, DeleteClaim, ClaimToks

LEMMA NextType == TypeOK /\ [Next]_vars => TypeOK'
<1> SUFFICES ASSUME TypeOK, [Next]_vars
             PROVE  TypeOK'
    OBVIOUS
<1> USE UserSyncAssumption DEF Fault, NoFault, store, workers
<1>1. ASSUME NEW e \in Emails, Enqueue(e)
      PROVE  TypeOK'
  <2>1. latest[e] \in Nat /\ latest[e] + 1 \in Nat \ {0}
      BY DEF TypeOK
  <2>2. latest' \in [Emails -> Nat] /\ resend' \subseteq [email : Emails, ver : Nat \ {0}]
      BY <1>1, <2>1 DEF TypeOK, Enqueue
  <2>3. Put(e, latest[e] + 1) /\ faults' \in 0..MaxFaults
      BY <1>1 DEF TypeOK, Enqueue
  <2> QED BY <1>1, <2>1, <2>2, <2>3, PutType DEF TypeOK, Enqueue, ClaimToks
<1>2. ASSUME NEW u \in resend, Resend(u)
      PROVE  TypeOK'
  <2>1. u.email \in Emails /\ u.ver \in Nat \ {0}
      BY DEF TypeOK
  <2> QED BY <1>2, <2>1, PutType DEF TypeOK, Resend, ClaimToks
<1>3. ASSUME NEW w \in Workers, NEW keys \in SUBSET (Tokens \cup Emails),
             ScanClaims(w, keys) \/ ScanPending(w, keys) \/ Crash(w)
      PROVE  TypeOK'
  <2>1. \A x \in Workers : WorkerOK(x)'
      BY <1>3 DEF TypeOK, ScanClaims, ScanPending, Crash, GoTo, Steps, WorkerOK
  <2>2. /\ todo' \in [Workers -> SUBSET (Tokens \cup Emails)]
        /\ cur' \in [Workers -> Item \cup {None}]
        /\ got' \in [Workers -> SUBSET Item]
      BY <1>3 DEF TypeOK, ScanClaims, ScanPending, Crash
  <2>3. pc' \in [Workers -> Steps] /\ faults' \in 0..MaxFaults
      BY <1>3 DEF TypeOK, ScanClaims, ScanPending, Crash, GoTo, Steps
  <2> QED BY <1>3, <2>1, <2>2, <2>3 DEF TypeOK, ScanClaims, ScanPending, Crash, WorkerOK, ClaimToks
<1>4. ASSUME NEW w \in Workers, NEW k, SkipClaim(w, k) \/ SkipPending(w, k) \/ Done(w)
      PROVE  TypeOK'
  <2>1. CASE SkipClaim(w, k) \/ SkipPending(w, k)
    <3>1. todo' \in [Workers -> SUBSET (Tokens \cup Emails)]
        BY <2>1 DEF TypeOK, SkipClaim, SkipPending, Visited
    <3>2. UNCHANGED <<latest, pend, claims, puts, owed, expired, pc, cur, got, resend, clearing, taken,
                      faults>>
        BY <2>1 DEF SkipClaim, SkipPending
    <3>3. \A x \in Workers : pc'[x] = "idle" => todo'[x] = {}
        BY <2>1 DEF TypeOK, SkipClaim, SkipPending, Visited
    <3> QED BY <3>1, <3>2, <3>3 DEF TypeOK, ClaimToks
  <2>2. CASE Done(w)
    <3>1. \A x \in Workers : WorkerOK(x)'
        BY <2>2 DEF TypeOK, Done, Returned, GoTo, Steps, WorkerOK
    <3> QED BY <2>2, <3>1 DEF TypeOK, Done, GoTo, Steps, WorkerOK, ClaimToks
  <2> QED BY <1>4, <2>1, <2>2
<1>5. ASSUME NEW w \in Workers, NEW c \in claims, ReadExpired(w, c)
      PROVE  TypeOK'
    BY <1>5 DEF TypeOK, ReadExpired, Visited, GoTo, Steps, ClaimToks
<1>6. ASSUME NEW w \in Workers, NEW c \in got[w], SendFails(w, c)
      PROVE  TypeOK'
    BY <1>6 DEF TypeOK, SendFails, Returned, GoTo, Steps, ClaimToks
<1>7. ASSUME NEW w \in Workers, PutBack(w)
      PROVE  TypeOK'
  <2>1. cur[w] \in Item
      BY <1>7 DEF TypeOK, PutBack
  <2>2. cur[w].email \in Emails /\ cur[w].ver \in Nat \ {0}
      BY <2>1 DEF Item
  <2>3. pc' \in [Workers -> Steps] /\ faults' \in 0..MaxFaults
      BY <1>7 DEF TypeOK, PutBack, GoTo, Steps
  <2>4. \A x \in Workers : WorkerOK(x)'
      BY <1>7 DEF TypeOK, PutBack, GoTo, Steps, WorkerOK
  <2> QED BY <1>7, <2>2, <2>3, <2>4, PutType DEF TypeOK, PutBack, ClaimToks, WorkerOK
<1>8. ASSUME NEW w \in Workers, Unclaim(w) \/ Cleanup(w)
      PROVE  TypeOK'
  <2>1. claims' \subseteq Item /\ expired' \subseteq ClaimToks'
      BY <1>8, DeleteType DEF TypeOK, Unclaim, Cleanup, ClaimToks
  <2>2. /\ cur' \in [Workers -> Item \cup {None}]
        /\ got' \in [Workers -> SUBSET Item]
        /\ pc' \in [Workers -> Steps] /\ faults' \in 0..MaxFaults
      BY <1>8 DEF TypeOK, Unclaim, Cleanup, GoTo, Steps
  <2>3. \A x \in Workers : WorkerOK(x)'
      BY <1>8 DEF TypeOK, Unclaim, Cleanup, GoTo, Steps, WorkerOK
  <2> QED BY <1>8, <2>1, <2>2, <2>3 DEF TypeOK, Unclaim, Cleanup, WorkerOK
<1>9. ASSUME NEW w \in Workers, NEW e \in PendingKeys, ReadPending(w, e)
      PROVE  TypeOK'
  <2> DEFINE t == CHOOSE x \in Tokens : Unused(x)
  <2>1. t \in Tokens /\ e \in Emails
      BY <1>9 DEF ReadPending, PendingKeys
  <2>0. pend[e] \in [ver : Nat \ {0}, rev : 1..puts] /\ puts \in Nat
      BY <2>1 DEF TypeOK, PendingKeys
  <2>2. [tok |-> t, email |-> e, ver |-> pend[e].ver, rev |-> pend[e].rev] \in Item
      BY <2>0, <2>1 DEF Item
  <2>3. cur' \in [Workers -> Item \cup {None}]
      BY <1>9, <2>2 DEF TypeOK, ReadPending
  <2>4. \A x \in Workers : WorkerOK(x)'
      BY <1>9, <2>2 DEF TypeOK, ReadPending, Visited, GoTo, Steps, WorkerOK
  <2> QED BY <1>9, <2>3, <2>4 DEF TypeOK, ReadPending, Visited, GoTo, Steps, WorkerOK, ClaimToks
<1>10. ASSUME NEW w \in Workers, CreateClaim(w)
      PROVE  TypeOK'
  <2>1. cur[w] \in Item
      BY <1>10 DEF TypeOK, CreateClaim
  <2>2. claims' \subseteq Item /\ expired' \subseteq ClaimToks'
      BY <1>10, <2>1 DEF TypeOK, CreateClaim, ClaimToks
  <2>3. \A x \in Workers : WorkerOK(x)'
      BY <1>10 DEF TypeOK, CreateClaim, GoTo, Steps, WorkerOK
  <2> QED BY <1>10, <2>2, <2>3 DEF TypeOK, CreateClaim, GoTo, Steps, WorkerOK
<1>11. ASSUME NEW w \in Workers, Take(w) \/ TakeFails(w)
      PROVE  TypeOK'
  <2>1. cur[w] \in Item
      BY <1>11 DEF TypeOK, Take, TakeFails
  <2>2. cur[w].email \in Emails /\ cur[w].rev \in Nat \ {0}
      BY <2>1 DEF Item
  <2>3. owed' \in [Emails -> 0..puts] /\ pend' \in [Emails -> {NoKey} \cup [ver : Nat \ {0}, rev : 1..puts]]
    <3>1. Settled({cur[w]}) \/ UNCHANGED owed
        BY <1>11 DEF Take, TakeFails
    <3>2. owed' \in [Emails -> 0..puts]
        BY <3>1, SettledType DEF TypeOK
    <3>3. pend' = pend \/ pend' = [pend EXCEPT ![cur[w].email] = NoKey]
        BY <1>11 DEF Take, TakeFails
    <3> QED BY <3>2, <3>3 DEF TypeOK
  <2>4. \A x \in Workers : WorkerOK(x)'
      BY <1>11, <2>1 DEF TypeOK, Take, TakeFails, GoTo, Steps, WorkerOK
  <2>5. taken' \subseteq 1..puts
    <3>1. CASE Take(w)
      <4>1. pend[cur[w].email].rev = cur[w].rev /\ taken' = taken \cup {cur[w].rev}
          BY <3>1 DEF Take, SameRevision
      <4>2. pend[cur[w].email] \in {NoKey} \cup [ver : Nat \ {0}, rev : 1..puts]
          BY <2>2 DEF TypeOK
      <4>3. cur[w].rev \in 1..puts
          BY <2>2, <4>1, <4>2 DEF NoKey
      <4> QED BY <4>1, <4>3 DEF TypeOK
    <3> QED BY <1>11, <3>1 DEF TakeFails, TypeOK
  <2>6. got' \in [Workers -> SUBSET Item] /\ cur' \in [Workers -> Item \cup {None}]
      BY <1>11, <2>1 DEF TypeOK, Take, TakeFails
  <2>7. pc' \in [Workers -> Steps] /\ faults' \in 0..MaxFaults
      BY <1>11 DEF TypeOK, Take, TakeFails, GoTo, Steps
  <2> QED BY <1>11, <2>3, <2>4, <2>5, <2>6, <2>7 DEF TypeOK, Take, TakeFails, WorkerOK, ClaimToks
<1>12. ASSUME NEW w \in Workers, NEW c \in got[w], Ack(w, c)
      PROVE  TypeOK'
  <2>1. claims' \subseteq Item /\ expired' \subseteq ClaimToks'
      BY <1>12, DeleteType DEF TypeOK, Ack, ClaimToks
  <2>2. owed' \in [Emails -> 0..puts]
      BY <1>12, SettledType DEF Ack
  <2>3. \A x \in Workers : WorkerOK(x)'
      BY <1>12 DEF TypeOK, Ack, Returned, WorkerOK
  <2> QED BY <1>12, <2>1, <2>2, <2>3 DEF TypeOK, Ack, WorkerOK
<1>13. ASSUME NEW c \in claims, Expire(c)
      PROVE  TypeOK'
    BY <1>13 DEF TypeOK, Expire, ClaimToks
<1>14. CASE Clear
    BY <1>14 DEF TypeOK, Clear, ClaimToks, PendingKeys, Item
<1>15. ASSUME NEW e \in Emails, ClearPending(e)
      PROVE  TypeOK'
  <2>1. owed' \in [Emails -> 0..puts]
      BY <1>15, SettledType DEF ClearPending
  <2> QED BY <1>15, <2>1 DEF TypeOK, ClearPending, NoKey, ClaimToks
<1>16. ASSUME NEW t \in Tokens, ClearClaim(t)
      PROVE  TypeOK'
  <2>1. owed' \in [Emails -> 0..puts]
      BY <1>16, SettledType DEF ClearClaim
  <2>2. claims' \subseteq Item /\ expired' \subseteq ClaimToks'
      BY <1>16 DEF TypeOK, ClearClaim, ClaimToks
  <2> QED BY <1>16, <2>1, <2>2 DEF TypeOK, ClearClaim
<1>17. CASE UNCHANGED vars
    BY <1>17 DEF TypeOK, vars, ClaimToks
<1>18. OverToks \subseteq Tokens /\ PendingKeys \subseteq Emails
    BY DEF TypeOK, OverToks, PendingKeys, Item
<1> QED
    BY <1>1, <1>2, <1>3, <1>4, <1>5, <1>6, <1>7, <1>8, <1>9, <1>10, <1>11, <1>12, <1>13,
       <1>14, <1>15, <1>16, <1>17, <1>18 DEF Next, Step

(* Every variable of the queue keeps its type. *)
THEOREM QueueTypeCorrect == Spec => []TypeOK
BY InitType, NextType, PTL DEF Spec

-----------------------------------------------------------------------------
(* Handed out once *)

\* Pending keys hold revisions of their own, which nobody was handed.
Fresh ==
    \A e \in Emails : pend[e] # NoKey =>
        /\ pend[e].rev \notin taken
        /\ \A f \in Emails : pend[f].rev = pend[e].rev => f = e

\* What a step does to the pending keys and to what was handed out.
LEMMA PendingSteps ==
    ASSUME TypeOK, [Next]_vars
    PROVE  \/ UNCHANGED <<pend, taken>>
           \/ UNCHANGED taken /\ \E e \in Emails : pend' = [pend EXCEPT ![e] = NoKey]
           \/ UNCHANGED taken /\ \E e \in Emails, v \in Nat \ {0} : Put(e, v)
           \/ \E w \in Workers : Take(w)
<1> USE DEF store, workers
<1>1. ASSUME NEW e \in Emails, Enqueue(e)
      PROVE  UNCHANGED taken /\ \E v \in Nat \ {0} : Put(e, v)
    BY <1>1 DEF TypeOK, Enqueue
<1>2. ASSUME NEW u \in resend, Resend(u)
      PROVE  UNCHANGED taken /\ \E e \in Emails, v \in Nat \ {0} : Put(e, v)
  <2>1. u.email \in Emails /\ u.ver \in Nat \ {0}
      BY DEF TypeOK
  <2> QED BY <1>2, <2>1 DEF Resend
<1>3. ASSUME NEW w \in Workers, PutBack(w)
      PROVE  UNCHANGED taken /\ \E e \in Emails, v \in Nat \ {0} : Put(e, v)
  <2>1. cur[w] \in Item
      BY <1>3, UserSyncAssumption DEF TypeOK, PutBack
  <2>2. cur[w].email \in Emails /\ cur[w].ver \in Nat \ {0}
      BY <2>1 DEF Item
  <2> QED BY <1>3, <2>2 DEF PutBack
<1>4. ASSUME NEW w \in Workers, TakeFails(w)
      PROVE  UNCHANGED taken /\ (pend' = pend \/ \E e \in Emails : pend' = [pend EXCEPT ![e] = NoKey])
  <2>1. cur[w] \in Item
      BY <1>4, UserSyncAssumption DEF TypeOK, TakeFails
  <2>2. cur[w].email \in Emails
      BY <2>1 DEF Item
  <2> QED BY <1>4, <2>2 DEF TakeFails
<1>5. ASSUME NEW w \in Workers, Step(w)
      PROVE  UNCHANGED <<pend, taken>> \/ PutBack(w) \/ Take(w) \/ TakeFails(w)
    BY <1>5 DEF Step, SkipClaim, SkipPending, ReadExpired, Unclaim, ScanPending, ReadPending,
                CreateClaim, Cleanup, Ack, SendFails, Done
<1>6. UNCHANGED <<pend, taken>>
      \/ (\E e \in Emails : Enqueue(e) \/ ClearPending(e))
      \/ (\E u \in resend : Resend(u))
      \/ \E w \in Workers : Step(w)
    BY DEF Next, ScanClaims, Crash, Expire, ClearClaim, Clear, vars
<1>7. ASSUME NEW e \in Emails, ClearPending(e)
      PROVE  UNCHANGED taken /\ pend' = [pend EXCEPT ![e] = NoKey]
    BY <1>7 DEF ClearPending
<1> QED BY <1>1, <1>2, <1>3, <1>4, <1>5, <1>6, <1>7

LEMMA FreshInit == Init => Fresh
BY DEF Init, Fresh

LEMMA FreshNext == TypeOK /\ Fresh /\ [Next]_vars => Fresh'
<1> SUFFICES ASSUME TypeOK, Fresh, [Next]_vars
             PROVE  Fresh'
    OBVIOUS
<1>1. CASE UNCHANGED <<pend, taken>>
    BY <1>1 DEF Fresh
<1>2. ASSUME NEW e \in Emails, pend' = [pend EXCEPT ![e] = NoKey], UNCHANGED taken
      PROVE  Fresh'
  <2> SUFFICES ASSUME NEW f \in Emails, pend'[f] # NoKey, NEW g \in Emails,
                      pend'[g].rev = pend'[f].rev
               PROVE  pend'[f].rev \notin taken' /\ g = f
      BY DEF Fresh
  <2>1. f # e /\ pend'[f] = pend[f] /\ pend[f].rev \in 1..puts /\ puts \in Nat
      BY <1>2 DEF TypeOK
  <2>2. g # e
      BY <1>2, <2>1 DEF TypeOK, NoKey
  <2> QED BY <1>2, <2>1, <2>2 DEF TypeOK, Fresh
<1>3. ASSUME NEW e \in Emails, NEW v \in Nat \ {0}, Put(e, v), UNCHANGED taken
      PROVE  Fresh'
  <2> SUFFICES ASSUME NEW f \in Emails, pend'[f] # NoKey, NEW g \in Emails,
                      pend'[g].rev = pend'[f].rev
               PROVE  pend'[f].rev \notin taken' /\ g = f
      BY DEF Fresh
  <2>1. pend'[e].rev = puts + 1 /\ \A h \in Emails \ {e} : pend'[h] = pend[h]
      BY <1>3 DEF TypeOK, Put
  <2>2. \A h \in Emails : pend[h].rev \in 0..puts
      BY DEF TypeOK, NoKey
  <2> QED BY <1>3, <2>1, <2>2 DEF TypeOK, Fresh
<1>4. ASSUME NEW w \in Workers, Take(w)
      PROVE  Fresh'
  <2>1. cur[w] \in Item
      BY <1>4, UserSyncAssumption DEF TypeOK, Take
  <2>2. cur[w].email \in Emails /\ cur[w].rev \in Nat \ {0}
      BY <2>1 DEF Item
  <2> DEFINE e == cur[w].email
  <2>3. /\ pend[e].rev = cur[w].rev /\ taken' = taken \cup {pend[e].rev}
        /\ pend' = [pend EXCEPT ![e] = NoKey]
      BY <1>4 DEF Take, SameRevision
  <2>4. pend[e] # NoKey
      BY <2>2, <2>3 DEF NoKey
  <2> SUFFICES ASSUME NEW f \in Emails, pend'[f] # NoKey, NEW g \in Emails,
                      pend'[g].rev = pend'[f].rev
               PROVE  pend'[f].rev \notin taken' /\ g = f
      BY DEF Fresh
  <2>5. f # e /\ pend'[f] = pend[f] /\ pend[f].rev \in 1..puts /\ puts \in Nat
      BY <2>2, <2>3 DEF TypeOK
  <2>6. g # e
      BY <2>2, <2>3, <2>5 DEF TypeOK, NoKey
  <2> QED BY <2>2, <2>3, <2>4, <2>5, <2>6 DEF TypeOK, Fresh
<1> QED BY <1>1, <1>2, <1>3, <1>4, PendingSteps

\* Only Take hands anything out.
LEMMA HandingStep ==
    ASSUME TypeOK, [Next]_vars, NEW w \in Workers, NEW c \in got'[w] \ got[w]
    PROVE  Take(w) /\ c = cur[w]
<1> USE DEF store, workers
<1>1. ASSUME NEW v \in Workers, Step(v)
      PROVE  Take(w) /\ c = cur[w]
  <2>1. CASE Take(v)
      BY <2>1 DEF Take, TypeOK
  <2>2. got' = got \/ Take(v) \/ \E S : got' = [got EXCEPT ![v] = got[v] \ S]
      BY <1>1 DEF Step, SkipClaim, SkipPending, ReadExpired, PutBack, Unclaim, ScanPending,
                  ReadPending, CreateClaim, TakeFails, Cleanup, Ack, SendFails, Done
  <2> QED BY <2>1, <2>2 DEF TypeOK
<1>2. ASSUME NEW v \in Workers, Crash(v)
      PROVE  FALSE
    BY <1>2 DEF Crash, TypeOK
<1>3. got' = got \/ \E v \in Workers : Step(v) \/ Crash(v)
    BY DEF Next, Enqueue, ClearPending, Resend, ScanClaims, Expire, ClearClaim, Clear, vars
<1> QED BY <1>1, <1>2, <1>3

(* A payload that was put in the queue is handed to one worker at most, for any number of      *)
(* workers, failures and crashes: deleting the pending key by its revision decides.            *)
THEOREM ClaimsAreExclusive == Spec => HandedOutOnce
<1>1. TypeOK /\ Fresh /\ [Next]_vars =>
          [\A w \in Workers : \A c \in got'[w] \ got[w] : c.rev \notin taken]_vars
  <2> SUFFICES ASSUME TypeOK, Fresh, [Next]_vars, NEW w \in Workers, NEW c \in got'[w] \ got[w]
               PROVE  c.rev \notin taken
      OBVIOUS
  <2>1. Take(w) /\ c = cur[w]
      BY HandingStep
  <2>2. c \in Item
      BY <2>1, UserSyncAssumption DEF TypeOK, Take
  <2>3. c.email \in Emails /\ c.rev # 0 /\ pend[c.email].rev = c.rev
      BY <2>1, <2>2 DEF Item, Take, SameRevision
  <2> QED BY <2>3 DEF Fresh, NoKey
<1> QED BY <1>1, FreshInit, FreshNext, QueueTypeCorrect, PTL DEF Spec, HandedOutOnce
-----------------------------------------------------------------------------
(* Kept until sent *)

\* The worker made its claim key, or is about to.
Owns(w) == pc[w] \in {"create", "take", "cleanup"}

\* No worker may still clean c up.
Secure(c) == \A w \in Workers : cur[w] = c => pc[w] \notin {"take", "cleanup"}

\* The pending key or a secure claim holds what is owed to e.
Keeper(e) ==
    pend[e].rev = owed[e] \/ \E c \in claims : c.email = e /\ c.rev = owed[e] /\ Secure(c)

\* Nobody waits for revision c.rev any more: it was replaced or settled.
Obsolete(c) == owed[c.email] # c.rev

\* Revisions in workers' hands were given out.
Given ==
    \A w \in Workers : /\ cur[w] # None => cur[w].rev <= puts
                       /\ \A c \in got[w] : c.rev <= puts

\* Claims are their makers' own, and a worker may drop its pending key or its claim safely.
Owners ==
    \A w \in Workers :
        /\ Owns(w) => \A v \in Workers : Owns(v) /\ cur[v] = cur[w] => v = w
        /\ pc[w] = "create" => cur[w] \notin claims
        /\ pc[w] = "take" => cur[w] \in claims \/ Obsolete(cur[w])
        /\ pc[w] = "unclaim" => Obsolete(cur[w])

Kept ==
    /\ Given /\ (\A c \in claims : c.rev <= puts) /\ Owners
    /\ \A e \in Emails : owed[e] # 0 => Keeper(e)

LEMMA KeptInit == Init => Kept
BY DEF Init, Kept, Given, Owners, Owns, NoKey

\* Types of the item in a worker's hands.
LEMMA CurType ==
    ASSUME TypeOK, NEW w \in Workers, pc[w] \notin {"idle", "expired", "pending"}
    PROVE  /\ cur[w] # None /\ cur[w] \in Item
           /\ cur[w].email \in Emails /\ cur[w].rev \in Nat \ {0} /\ cur[w].ver \in Nat \ {0}
<1>1. cur[w] # None /\ cur[w] \in Item
    BY DEF TypeOK
<1> QED BY <1>1 DEF Item

\* Steps that leave the keys alone and put no worker on the way to delete one.
LEMMA KeptQuiet ==
    ASSUME TypeOK, Kept, UNCHANGED store,
           \A w \in Workers : got'[w] \subseteq got[w],
           \A w \in Workers :
              \/ cur'[w] = cur[w] /\ pc'[w] = pc[w]
              \/ /\ pc'[w] \notin {"create", "take", "cleanup", "unclaim"}
                 /\ cur'[w] = None \/ cur'[w] \in claims \cup got[w]
    PROVE  Kept'
<1> USE DEF store
<1>1. Given'
    BY DEF Kept, Given
<1>2. Owners'
    BY DEF Kept, Owners, Owns, Obsolete
<1>3. ASSUME NEW c \in claims, Secure(c)
      PROVE  Secure(c)'
    BY <1>3 DEF Secure
<1>4. \A e \in Emails : owed'[e] # 0 => Keeper(e)'
    BY <1>3 DEF Kept, Keeper
<1> QED BY <1>1, <1>2, <1>4 DEF Kept

\* A key is put; no worker's claim is touched, and one may go on to delete the claim it put back.
LEMMA KeptPut ==
    ASSUME TypeOK, Kept, NEW e \in Emails, NEW v, Put(e, v), UNCHANGED <<claims, cur, got>>,
           \A w \in Workers :
              pc'[w] = pc[w] \/ (pc[w] = "putback" /\ pc'[w] = "unclaim" /\ cur[w].email = e)
    PROVE  Kept'
<1>1. puts \in Nat /\ puts' = puts + 1
    BY DEF TypeOK, Put
<1>2. /\ owed'[e] = puts + 1 /\ pend'[e].rev = puts + 1
      /\ \A f \in Emails \ {e} : owed'[f] = owed[f] /\ pend'[f] = pend[f]
    BY DEF TypeOK, Put
<1>3. ASSUME NEW w \in Workers, cur[w] # None
      PROVE  cur[w] \in Item /\ cur[w].email \in Emails /\ cur[w].rev \in Nat /\ cur[w].rev <= puts
    BY <1>3 DEF TypeOK, Item, Kept, Given
<1>4. Given' /\ \A c \in claims' : c.rev <= puts'
  <2>1. \A c \in claims : c.rev \in Nat
      BY DEF TypeOK, Item
  <2>2. \A w \in Workers : \A c \in got[w] : c.rev \in Nat
      BY DEF TypeOK, Item
  <2> QED BY <1>1, <1>3, <2>1, <2>2 DEF Kept, Given
<1>5. Owners'
  <2>1. ASSUME NEW w \in Workers, cur[w] # None, Obsolete(cur[w]) \/ cur[w].email = e
        PROVE  Obsolete(cur[w])'
      BY <1>1, <1>2, <1>3, <2>1 DEF Obsolete
  <2>2. \A w \in Workers : pc[w] \in {"take", "unclaim", "putback"} => cur[w] # None
      BY DEF TypeOK
  <2> QED BY <2>1, <2>2 DEF Kept, Owners, Owns
<1>6. ASSUME NEW c \in claims, Secure(c)
      PROVE  Secure(c)'
    BY <1>6 DEF Secure
<1>7. \A f \in Emails : owed'[f] # 0 => Keeper(f)'
    BY <1>2, <1>6 DEF Kept, Keeper
<1> QED BY <1>4, <1>5, <1>7 DEF Kept

\* Claims are dropped whose revisions are obsolete or settled by the step, or that their own
\* worker cleans up; no other worker moves.
LEMMA KeptDrop ==
    ASSUME TypeOK, Kept, NEW S, claims' = claims \ S, UNCHANGED <<pend, puts>>,
           \A e \in Emails : owed'[e] \in {0, owed[e]},
           \A w \in Workers : got'[w] \subseteq got[w],
           \A w \in Workers :
              \/ cur'[w] = cur[w] /\ pc'[w] = pc[w]
              \/ pc'[w] \in {"idle", "expired", "pending"} /\ cur'[w] = None,
           \A c \in S \cap claims :
              \/ owed'[c.email] # c.rev
              \/ \E w \in Workers : /\ pc[w] = "cleanup" /\ c = cur[w]
                                    /\ cur'[w] = None /\ pc'[w] = "pending"
    PROVE  Kept'
<1>1. Given' /\ \A c \in claims' : c.rev <= puts'
    BY DEF Kept, Given
<1>2. Owners'
  <2>1. ASSUME NEW w \in Workers, pc[w] \in {"take", "unclaim"}, Obsolete(cur[w])
        PROVE  owed'[cur[w].email] # cur[w].rev
    <3>1. cur[w].email \in Emails /\ cur[w].rev # 0
        BY <2>1, CurType
    <3> QED BY <2>1, <3>1 DEF Obsolete
  <2>2. ASSUME NEW w \in Workers, pc[w] = "take", cur[w] \in claims
        PROVE  cur[w] \in claims' \/ owed'[cur[w].email] # cur[w].rev
      BY <2>2 DEF Kept, Owners, Owns
  <2>3. ASSUME NEW w \in Workers, cur'[w] = cur[w], pc'[w] = pc[w]
        PROVE  /\ Owns(w)' => \A v \in Workers : Owns(v)' /\ cur'[v] = cur'[w] => v = w
               /\ pc'[w] = "create" => cur'[w] \notin claims'
               /\ pc'[w] = "take" => cur'[w] \in claims' \/ Obsolete(cur[w])'
               /\ pc'[w] = "unclaim" => Obsolete(cur[w])'
    <3>1. \A v \in Workers : Owns(v)' => Owns(v) /\ cur'[v] = cur[v]
        BY DEF Owns
    <3>2. Owns(w)' => \A v \in Workers : Owns(v)' /\ cur'[v] = cur'[w] => v = w
        BY <2>3, <3>1 DEF Kept, Owners
    <3>3. pc'[w] = "create" => cur'[w] \notin claims'
        BY <2>3 DEF Kept, Owners
    <3>4. pc'[w] = "take" => cur'[w] \in claims' \/ Obsolete(cur[w])'
        BY <2>1, <2>2, <2>3 DEF Kept, Owners, Obsolete
    <3>5. pc'[w] = "unclaim" => Obsolete(cur[w])'
        BY <2>1, <2>3 DEF Kept, Owners, Obsolete
    <3> QED BY <3>2, <3>3, <3>4, <3>5
  <2>4. ASSUME NEW w \in Workers, pc'[w] \in {"idle", "expired", "pending"}
        PROVE  ~Owns(w)' /\ pc'[w] \notin {"create", "take", "unclaim"}
      BY <2>4 DEF Owns
  <2> QED BY <2>3, <2>4 DEF Owners
<1>3. ASSUME NEW c \in claims, Secure(c)
      PROVE  Secure(c)'
    BY <1>3 DEF Secure
<1>4. ASSUME NEW e \in Emails, owed'[e] # 0
      PROVE  Keeper(e)'
  <2>1. owed'[e] = owed[e] /\ Keeper(e)
      BY <1>4 DEF Kept
  <2>2. CASE pend[e].rev = owed[e]
      BY <2>1, <2>2 DEF Keeper
  <2>3. ASSUME NEW c \in claims, c.email = e, c.rev = owed[e], Secure(c)
        PROVE  Keeper(e)'
    <3>1. c \notin S
        BY <2>1, <2>3 DEF Secure
    <3> QED BY <1>3, <2>1, <2>3, <3>1 DEF Keeper
  <2> QED BY <2>1, <2>2, <2>3 DEF Keeper
<1> QED BY <1>1, <1>2, <1>4 DEF Kept

\* Pending keys that are not owed go away, and a worker may turn to its clean up.
LEMMA KeptVoid ==
    ASSUME TypeOK, Kept, UNCHANGED <<claims, puts, cur, got>>,
           \A e \in Emails : owed'[e] \in {0, owed[e]},
           \A e \in Emails : pend'[e] = pend[e] \/ owed'[e] # pend[e].rev,
           \A w \in Workers : pc'[w] = pc[w] \/ (pc[w] = "take" /\ pc'[w] = "cleanup")
    PROVE  Kept'
<1>1. Given' /\ \A c \in claims' : c.rev <= puts'
    BY DEF Kept, Given
<1>2. Owners'
  <2>1. ASSUME NEW w \in Workers, pc[w] \in {"take", "unclaim"}, Obsolete(cur[w])
        PROVE  Obsolete(cur[w])'
    <3>1. cur[w].email \in Emails /\ cur[w].rev # 0
        BY <2>1, CurType
    <3> QED BY <2>1, <3>1 DEF Obsolete
  <2>2. \A w \in Workers : /\ Owns(w)' => Owns(w)
                           /\ pc'[w] \in {"create", "take", "unclaim"} => pc[w] = pc'[w]
      BY DEF Owns
  <2> QED BY <2>1, <2>2 DEF Kept, Owners
<1>3. ASSUME NEW c \in claims, Secure(c)
      PROVE  Secure(c)'
    BY <1>3 DEF Secure
<1>4. \A e \in Emails : owed'[e] # 0 => Keeper(e)'
    BY <1>3 DEF Kept, Keeper
<1> QED BY <1>1, <1>2, <1>4 DEF Kept

\* A fresh token makes the claim a worker is about to create its own.
LEMMA KeptRead ==
    ASSUME TypeOK, Kept, NEW w \in Workers, NEW e \in PendingKeys, ReadPending(w, e)
    PROVE  Kept'
<1> DEFINE t == CHOOSE x \in Tokens : Unused(x)
           c == [tok |-> t, email |-> e, ver |-> pend[e].ver, rev |-> pend[e].rev]
<1>1. Unused(t) /\ e \in Emails
    BY DEF ReadPending, PendingKeys
<1>2. /\ cur' = [cur EXCEPT ![w] = c] /\ pc' = [pc EXCEPT ![w] = "create"]
      /\ UNCHANGED <<pend, claims, puts, owed, got>>
    BY DEF ReadPending, GoTo, store
<1>3. pend[e].rev \in 1..puts /\ puts \in Nat
    BY <1>1 DEF TypeOK, PendingKeys
<1> HIDE DEF t
<1>4. c \notin claims
    BY <1>1 DEF Unused, ClaimToks
<1>5. \A v \in Workers : Owns(v) => cur[v] # c
  <2>1. \A v \in Workers : Owns(v) => cur[v] # None
      BY DEF TypeOK, Owns
  <2> QED BY <1>1, <2>1 DEF Unused
<1>6. /\ cur'[w] = c /\ pc'[w] = "create"
      /\ \A v \in Workers \ {w} : cur'[v] = cur[v] /\ pc'[v] = pc[v]
    BY <1>2 DEF TypeOK
<1>7. Given' /\ \A d \in claims' : d.rev <= puts'
  <2>1. c.rev <= puts
      BY <1>3
  <2> QED BY <1>2, <1>6, <2>1 DEF Kept, Given
<1> HIDE DEF c
<1>8. Owners'
  <2>1. \A x \in Workers : Owns(x)' <=> Owns(x) \/ x = w
      BY <1>6 DEF Owns
  <2>2. \A v, x \in Workers : Owns(v)' /\ Owns(x)' /\ cur'[x] = cur'[v] => x = v
      BY <1>5, <1>6, <2>1 DEF Kept, Owners
  <2>3. \A v \in Workers : pc'[v] = "create" => cur'[v] \notin claims'
      BY <1>2, <1>4, <1>6 DEF Kept, Owners
  <2>4. \A v \in Workers :
          /\ pc'[v] = "take" => cur'[v] \in claims' \/ owed'[cur'[v].email] # cur'[v].rev
          /\ pc'[v] = "unclaim" => owed'[cur'[v].email] # cur'[v].rev
      BY <1>2, <1>6 DEF Kept, Owners, Obsolete
  <2> QED BY <2>2, <2>3, <2>4 DEF Owners, Obsolete
<1>9. ASSUME NEW d \in claims, Secure(d)
      PROVE  Secure(d)'
    BY <1>6, <1>9 DEF Secure
<1>10. \A f \in Emails : owed'[f] # 0 => Keeper(f)'
    BY <1>2, <1>9 DEF Kept, Keeper
<1> QED BY <1>7, <1>8, <1>10 DEF Kept

\* The claim a worker creates is nobody else's, so it cannot be one that keeps a user already.
LEMMA KeptCreate ==
    ASSUME TypeOK, Kept, NEW w \in Workers, CreateClaim(w)
    PROVE  Kept'
<1>1. pc[w] = "create" /\ cur[w] # None /\ cur[w].rev <= puts /\ cur[w] \notin claims
    BY CurType DEF CreateClaim, Kept, Given, Owners
<1>2. /\ claims' \in {claims, claims \cup {cur[w]}} /\ UNCHANGED <<pend, puts, owed, got>>
      /\ \A v \in Workers \ {w} : cur'[v] = cur[v] /\ pc'[v] = pc[v]
      /\ \/ cur'[w] = cur[w] /\ pc'[w] = "take" /\ cur[w] \in claims'
         \/ cur'[w] = None /\ pc'[w] = "pending"
    BY DEF CreateClaim, GoTo, TypeOK
<1>3. Given' /\ \A c \in claims' : c.rev <= puts'
    BY <1>1, <1>2 DEF Kept, Given
<1>4. \A v \in Workers \ {w} : Owns(v) => cur[v] # cur[w]
    BY <1>1 DEF Kept, Owners, Owns
<1>5. Owners'
  <2>1. \A v \in Workers : Owns(v)' => Owns(v) /\ cur'[v] = cur[v]
      BY <1>1, <1>2 DEF Owns
  <2>2. \A v, x \in Workers : Owns(v)' /\ Owns(x)' /\ cur'[x] = cur'[v] => x = v
      BY <2>1 DEF Kept, Owners
  <2>3. \A v \in Workers : pc'[v] = "create" => cur'[v] \notin claims'
      BY <1>2, <1>4 DEF Kept, Owners, Owns
  <2>4. \A v \in Workers :
          /\ pc'[v] = "take" => cur'[v] \in claims' \/ owed'[cur'[v].email] # cur'[v].rev
          /\ pc'[v] = "unclaim" => owed'[cur'[v].email] # cur'[v].rev
      BY <1>2 DEF Kept, Owners, Obsolete
  <2> QED BY <2>2, <2>3, <2>4 DEF Owners, Obsolete
<1>6. ASSUME NEW c \in claims, Secure(c)
      PROVE  Secure(c)'
    BY <1>1, <1>2, <1>6 DEF Secure
<1>7. \A e \in Emails : owed'[e] # 0 => Keeper(e)'
    BY <1>2, <1>6 DEF Kept, Keeper
<1> QED BY <1>3, <1>5, <1>7 DEF Kept

\* The worker whose delete names the pending revision keeps the user by its claim, which from
\* then on nobody cleans up.
LEMMA KeptTake ==
    ASSUME TypeOK, Kept, NEW w \in Workers, Take(w)
    PROVE  Kept'
<1> DEFINE c == cur[w]
<1>1. /\ pc[w] = "take" /\ c # None /\ c.email \in Emails /\ c.rev # 0 /\ c.rev <= puts
      /\ pend[c.email].rev = c.rev
    BY CurType DEF Take, SameRevision, Kept, Given
<1>2. /\ UNCHANGED <<claims, puts, owed>>
      /\ pend' = [pend EXCEPT ![c.email] = NoKey] /\ got'[w] = got[w] \cup {c}
      /\ cur'[w] = None /\ pc'[w] = "pending"
      /\ \A v \in Workers \ {w} : cur'[v] = cur[v] /\ pc'[v] = pc[v] /\ got'[v] = got[v]
    BY DEF Take, GoTo, TypeOK
<1> HIDE DEF c
<1>3. Given' /\ \A d \in claims' : d.rev <= puts'
    BY <1>1, <1>2 DEF Kept, Given
<1>4. \A v \in Workers \ {w} : Owns(v) => cur[v] # c
    BY <1>1 DEF Kept, Owners, Owns, c
<1>5. Owners'
  <2>1. \A v \in Workers : Owns(v)' => Owns(v) /\ cur'[v] = cur[v]
      BY <1>1, <1>2 DEF Owns
  <2>2. \A v, x \in Workers : Owns(v)' /\ Owns(x)' /\ cur'[x] = cur'[v] => x = v
      BY <2>1 DEF Kept, Owners
  <2>3. \A v \in Workers : pc'[v] = "create" => cur'[v] \notin claims'
      BY <1>2 DEF Kept, Owners
  <2>4. \A v \in Workers :
          /\ pc'[v] = "take" => cur'[v] \in claims' \/ owed'[cur'[v].email] # cur'[v].rev
          /\ pc'[v] = "unclaim" => owed'[cur'[v].email] # cur'[v].rev
      BY <1>2 DEF Kept, Owners, Obsolete
  <2> QED BY <2>2, <2>3, <2>4 DEF Owners, Obsolete
<1>6. ASSUME NEW d \in claims, Secure(d) \/ d = c
      PROVE  Secure(d)'
    BY <1>2, <1>4, <1>6 DEF Secure, Owns
<1>7. ASSUME NEW e \in Emails, owed'[e] # 0
      PROVE  Keeper(e)'
  <2>1. owed'[e] = owed[e] /\ Keeper(e)
      BY <1>2, <1>7 DEF Kept
  <2>2. CASE e = c.email /\ owed[e] = c.rev
    <3>1. c \in claims
        BY <1>1, <2>2 DEF Kept, Owners, Obsolete, c
    <3> QED BY <1>2, <1>6, <2>2, <3>1 DEF Keeper
  <2>3. CASE ~(e = c.email /\ owed[e] = c.rev)
    <3>1. pend[e].rev = owed[e] => e # c.email
        BY <1>1, <2>3
    <3>2. e # c.email => pend'[e] = pend[e]
        BY <1>2 DEF TypeOK
    <3> QED BY <1>2, <1>6, <2>1, <3>1, <3>2 DEF Keeper
  <2> QED BY <2>2, <2>3
<1> QED BY <1>3, <1>5, <1>7 DEF Kept

LEMMA KeptStep ==
    ASSUME TypeOK, Kept, NEW w \in Workers, Step(w)
    PROVE  Kept'
<1> USE DEF store, workers
<1>1. ASSUME NEW k, SkipClaim(w, k) \/ SkipPending(w, k)
      PROVE  Kept'
    BY <1>1, KeptQuiet DEF SkipClaim, SkipPending
<1>2. ASSUME NEW keys, ScanPending(w, keys)
      PROVE  Kept'
    BY <1>2, KeptQuiet DEF ScanPending, GoTo, TypeOK
<1>3. CASE Done(w)
    BY <1>3, KeptQuiet DEF Done, Returned, GoTo, TypeOK
<1>4. ASSUME NEW c \in claims, ReadExpired(w, c)
      PROVE  Kept'
    BY <1>4, KeptQuiet DEF ReadExpired, GoTo, TypeOK
<1>5. ASSUME NEW c \in got[w], SendFails(w, c)
      PROVE  Kept'
    BY <1>5, KeptQuiet DEF SendFails, GoTo, TypeOK
<1>6. CASE PutBack(w)
  <2>1. cur[w].email \in Emails /\ pc[w] = "putback"
      BY <1>6, CurType DEF PutBack
  <2>2. \A v \in Workers :
           pc'[v] = pc[v] \/ (pc[v] = "putback" /\ pc'[v] = "unclaim" /\ cur[v].email = cur[w].email)
      BY <1>6 DEF PutBack, GoTo, TypeOK
  <2> QED BY <1>6, <2>1, <2>2, KeptPut DEF PutBack
<1>7. CASE Unclaim(w)
  <2>1. owed[cur[w].email] # cur[w].rev /\ pc[w] = "unclaim"
      BY <1>7 DEF Unclaim, Kept, Owners, Obsolete
  <2>2. claims' = claims \ {cur[w]} \/ claims' = claims \ {}
      BY <1>7 DEF Unclaim, DeleteClaim
  <2>3. /\ cur'[w] = None /\ pc'[w] \in {"pending", "expired"} /\ got'[w] \subseteq got[w]
        /\ \A v \in Workers \ {w} : cur'[v] = cur[v] /\ pc'[v] = pc[v] /\ got'[v] = got[v]
        /\ UNCHANGED <<pend, puts, owed>>
      BY <1>7 DEF Unclaim, GoTo, TypeOK
  <2>4. PICK S \in {{}, {cur[w]}} : claims' = claims \ S
      BY <2>2
  <2>5. \A c \in S \cap claims : owed'[c.email] # c.rev
      BY <2>1, <2>3
  <2>6. \A v \in Workers : got'[v] \subseteq got[v]
      BY <2>3
  <2>7. \A v \in Workers : \/ cur'[v] = cur[v] /\ pc'[v] = pc[v]
                           \/ pc'[v] \in {"idle", "expired", "pending"} /\ cur'[v] = None
      BY <2>3
  <2> QED BY <2>3, <2>4, <2>5, <2>6, <2>7, KeptDrop
<1>8. CASE Cleanup(w)
  <2>1. claims' = claims \ {cur[w]} \/ claims' = claims \ {}
      BY <1>8 DEF Cleanup, DeleteClaim
  <2>2. /\ pc[w] = "cleanup" /\ cur'[w] = None /\ pc'[w] = "pending"
        /\ \A v \in Workers \ {w} : cur'[v] = cur[v] /\ pc'[v] = pc[v]
        /\ UNCHANGED <<pend, puts, owed, got>>
      BY <1>8 DEF Cleanup, GoTo, TypeOK
  <2>3. PICK S \in {{}, {cur[w]}} : claims' = claims \ S
      BY <2>1
  <2>4. \A c \in S \cap claims : \E v \in Workers : /\ pc[v] = "cleanup" /\ c = cur[v]
                                                 /\ cur'[v] = None /\ pc'[v] = "pending"
      BY <2>2
  <2>5. \A v \in Workers : \/ cur'[v] = cur[v] /\ pc'[v] = pc[v]
                           \/ pc'[v] \in {"idle", "expired", "pending"} /\ cur'[v] = None
      BY <2>2
  <2> QED BY <2>2, <2>3, <2>4, <2>5, KeptDrop
<1>9. ASSUME NEW e \in PendingKeys, ReadPending(w, e)
      PROVE  Kept'
    BY <1>9, KeptRead
<1>10. CASE CreateClaim(w)
    BY <1>10, KeptCreate
<1>11. CASE Take(w)
    BY <1>11, KeptTake
<1>12. CASE TakeFails(w)
  <2>1. cur[w].email \in Emails /\ cur[w].rev # 0
      BY <1>12, CurType DEF TakeFails
  <2>2. UNCHANGED <<claims, puts, cur, got>>
        /\ \A v \in Workers : pc'[v] = pc[v] \/ (pc[v] = "take" /\ pc'[v] = "cleanup")
      BY <1>12 DEF TakeFails, GoTo, TypeOK
  <2>3. CASE UNCHANGED <<pend, owed>>
      BY <2>2, <2>3, KeptVoid
  <2>4. CASE /\ SameRevision(cur[w]) /\ pend' = [pend EXCEPT ![cur[w].email] = NoKey]
             /\ Settled({cur[w]})
    <3>1. \A e \in Emails : owed'[e] \in {0, owed[e]}
        BY <2>4 DEF Settled
    <3>2. owed'[cur[w].email] # pend[cur[w].email].rev
        BY <2>1, <2>4 DEF Settled, SameRevision
    <3>3. \A e \in Emails : pend'[e] = pend[e] \/ owed'[e] # pend[e].rev
        BY <2>4, <3>2 DEF TypeOK
    <3> QED BY <2>2, <3>1, <3>3, KeptVoid
  <2> QED BY <1>12, <2>3, <2>4 DEF TakeFails
<1>13. ASSUME NEW c \in got[w], Ack(w, c)
      PROVE  Kept'
  <2>1. c.email \in Emails /\ c.rev # 0
      BY DEF TypeOK, Item
  <2>2. (\A e \in Emails : owed'[e] \in {0, owed[e]}) /\ owed'[c.email] # c.rev
      BY <1>13, <2>1 DEF Ack, Settled
  <2>3. claims' = claims \ {c} \/ claims' = claims \ {}
      BY <1>13 DEF Ack, DeleteClaim
  <2>4. UNCHANGED <<pend, puts, pc, cur>> /\ \A v \in Workers : got'[v] \subseteq got[v]
      BY <1>13 DEF Ack, TypeOK
  <2>5. PICK S \in {{}, {c}} : claims' = claims \ S
      BY <2>3
  <2> QED BY <2>2, <2>4, <2>5, KeptDrop
<1> QED BY <1>1, <1>2, <1>3, <1>4, <1>5, <1>6, <1>7, <1>8, <1>9, <1>10, <1>11, <1>12, <1>13 DEF Step

LEMMA KeptNext == TypeOK /\ Kept /\ [Next]_vars => Kept'
<1> SUFFICES ASSUME TypeOK, Kept, [Next]_vars
             PROVE  Kept'
    OBVIOUS
<1> USE DEF store, workers
<1>1. ASSUME NEW e \in Emails, Enqueue(e)
      PROVE  Kept'
    BY <1>1, KeptPut DEF Enqueue
<1>2. ASSUME NEW u \in resend, Resend(u)
      PROVE  Kept'
  <2>1. u.email \in Emails
      BY DEF TypeOK
  <2> QED BY <1>2, <2>1, KeptPut DEF Resend
<1>3. ASSUME NEW w \in Workers, NEW keys, ScanClaims(w, keys)
      PROVE  Kept'
    BY <1>3, KeptQuiet DEF ScanClaims, GoTo, TypeOK
<1>4. ASSUME NEW w \in Workers, Crash(w)
      PROVE  Kept'
    BY <1>4, KeptQuiet DEF Crash, GoTo, TypeOK
<1>5. CASE Clear \/ (\E c \in claims : Expire(c)) \/ UNCHANGED vars
    BY <1>5, KeptQuiet DEF Clear, Expire, vars
<1>6. ASSUME NEW e \in Emails, ClearPending(e)
      PROVE  Kept'
  <2>1. /\ UNCHANGED <<claims, puts, cur, got, pc>> /\ pend' = [pend EXCEPT ![e] = NoKey]
        /\ Settled({[email |-> e, rev |-> pend[e].rev]})
      BY <1>6 DEF ClearPending
  <2>2. \A f \in Emails : owed'[f] \in {0, owed[f]}
      BY <2>1 DEF Settled
  <2>3. pend[e] = NoKey \/ owed'[e] # pend[e].rev
    <3>1. owed'[e] = IF pend[e].rev = owed[e] THEN 0 ELSE owed[e]
        BY <2>1 DEF Settled
    <3>2. pend[e] = NoKey \/ pend[e].rev # 0
        BY DEF TypeOK
    <3> QED BY <3>1, <3>2
  <2>4. \A f \in Emails : pend'[f] = pend[f] \/ owed'[f] # pend[f].rev
      BY <2>1, <2>3 DEF TypeOK
  <2> QED BY <2>1, <2>2, <2>4, KeptVoid
<1>7. ASSUME NEW t \in Tokens, ClearClaim(t)
      PROVE  Kept'
  <2> DEFINE cs == {c \in claims : c.tok = t}
  <2>1. claims' = claims \ cs /\ Settled(cs) /\ UNCHANGED <<pend, puts, pc, cur, got>>
      BY <1>7 DEF ClearClaim
  <2>2. \A e \in Emails : owed'[e] \in {0, owed[e]}
      BY <2>1 DEF Settled
  <2>3. ASSUME NEW c \in cs
        PROVE  owed'[c.email] # c.rev
    <3>1. c.email \in Emails /\ c.rev # 0
        BY DEF TypeOK, Item
    <3> QED BY <2>1, <3>1 DEF Settled
  <2> HIDE DEF cs
  <2> QED BY <2>1, <2>2, <2>3, KeptDrop
<1> QED BY <1>1, <1>2, <1>3, <1>4, <1>5, <1>6, <1>7, KeptStep DEF Next

(* A user with a change the node has not got keeps a pending or a claim key, whatever workers   *)
(* crash, whichever calls fail and however many of them requeue the same claim, except after a  *)
(* clear or a delete that landed unanswered.                                                    *)
THEOREM UsersAreKept == Spec => []KeptUntilSent
<1>1. Kept => KeptUntilSent
    BY DEF Kept, Keeper, KeptUntilSent
<1> QED BY <1>1, KeptInit, KeptNext, QueueTypeCorrect, PTL DEF Spec
=============================================================================
