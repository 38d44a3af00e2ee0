------------------------------ MODULE UserSync ------------------------------
(***************************************************************************)
(* The shared queue of users to send to one node: NatsUserSyncStore of     *)
(* app/node/nats_memory.py, over the KV helpers of app/nats/kv_cas.py.     *)
(*                                                                         *)
(* A user waits under one pending key per email.  A worker claims it by    *)
(* creating a claim key under a token of its own and deleting the pending  *)
(* key with the revision it read; it acknowledges or requeues the claim,   *)
(* or the claim expires and any worker puts it back.  Every KV call is a   *)
(* step, so workers meet between any two of them.                          *)
(*                                                                         *)
(* kv_put_json reads and updates until its update succeeds: what it does   *)
(* to the key is a single write.  A claim key is written once, so deleting *)
(* it with the revision read is deleting it if it is still there.          *)
(***************************************************************************)
EXTENDS Naturals, FiniteSets

CONSTANTS
    Emails,
    Workers,      \* processes that call claim_users for the node
    Tokens,       \* claim tokens (worker id and uuid)
    None,
    MaxVersion,   \* bound of the checked instance: payloads enqueued per email
    MaxFaults     \* bound of the checked instance: failed calls, crashes, clears, late workers

\* A claim: its token, the email, and the payload and revision of the pending key it was read from.
Item == [tok : Tokens, email : Emails, ver : Nat \ {0}, rev : Nat \ {0}]

ASSUME UserSyncAssumption ==
    /\ None \notin Item
    /\ MaxVersion \in Nat /\ MaxFaults \in Nat
    /\ Emails \cap Tokens = {}

VARIABLES
    latest,    \* latest[e]: number of the newest payload of e
    pend,      \* pend[e]: the pending key: payload and revision
    claims,    \* the claim keys
    expired,   \* tokens of the claims whose expires_at has passed
    puts,      \* revisions given to pending keys
    pc,        \* pc[w]: what w is doing
    todo,      \* todo[w]: keys of the pass still to visit
    cur,       \* cur[w]: the claim w is working on
    got,       \* got[w]: claims returned to w's bridge and not yet answered
    resend,    \* payloads whose enqueue landed without an answer, to be put again
    clearing,  \* keys a running clear has still to delete
    taken,     \* history: revisions that were handed out
    owed,      \* history: owed[e]: revision of e that must not vanish, 0 if there is none
    faults     \* budget spent

store   == <<pend, claims, puts, owed>>
workers == <<pc, todo, cur, got>>
vars == <<latest, pend, claims, expired, puts, pc, todo, cur, got, resend, clearing, taken,
          owed, faults>>

NoKey == [ver |-> 0, rev |-> 0]
Steps == {"idle", "expired", "putback", "unclaim", "pending", "create", "take", "cleanup"}

Init ==
    /\ latest = [e \in Emails |-> 0]
    /\ pend = [e \in Emails |-> NoKey]
    /\ claims = {} /\ expired = {} /\ puts = 0
    /\ pc = [w \in Workers |-> "idle"]
    /\ todo = [w \in Workers |-> {}]
    /\ cur = [w \in Workers |-> None]
    /\ got = [w \in Workers |-> {}]
    /\ resend = {} /\ clearing = {} /\ taken = {}
    /\ owed = [e \in Emails |-> 0]
    /\ faults = 0

-----------------------------------------------------------------------------
(* Keys *)

Fault   == faults < MaxFaults /\ faults' = faults + 1
NoFault == UNCHANGED faults

ClaimToks   == {c.tok : c \in claims}
PendingKeys == {e \in Emails : pend[e] # NoKey}

\* kv_put_json on a pending key.  Whatever was there is replaced.
Put(e, v) ==
    /\ puts' = puts + 1
    /\ pend' = [pend EXCEPT ![e] = [ver |-> v, rev |-> puts + 1]]
    /\ owed' = [owed EXCEPT ![e] = puts + 1]

\* The node has the revision, or somebody decided that it need not.
Settled(S) ==
    owed' = [e \in Emails |-> IF \E c \in S : c.email = e /\ c.rev = owed[e] THEN 0 ELSE owed[e]]

\* kv.delete of the claim key c, which only c's claimant has ever written.
DeleteClaim(c) == claims' = claims \ {c} /\ expired' = expired \ {c.tok}

GoTo(w, step) == pc' = [pc EXCEPT ![w] = step]

-----------------------------------------------------------------------------
(* enqueue_users *)

\* The put of a new payload; when its answer is lost it has landed and is put once more.
Enqueue(e) ==
    /\ latest[e] < MaxVersion
    /\ latest' = [latest EXCEPT ![e] = @ + 1]
    /\ Put(e, latest[e] + 1)
    /\ \/ NoFault /\ UNCHANGED resend
       \/ Fault /\ resend' = resend \cup {[email |-> e, ver |-> latest[e] + 1]}
    /\ UNCHANGED <<claims, expired, workers, clearing, taken>>

Resend(u) ==
    /\ Put(u.email, u.ver)
    /\ resend' = resend \ {u}
    /\ UNCHANGED <<latest, claims, expired, workers, clearing, taken, faults>>

-----------------------------------------------------------------------------
(* claim_users, first pass: _requeue_expired_claims *)

\* Mutant of LeaseOver: expires_at is not looked at.
NeverOver(c) == FALSE

\* expires_at is not after the "now" of the call.
LeaseOver(c) == c.tok \in expired

OverToks == {c.tok : c \in {d \in claims : LeaseOver(d)}}

\* "now" is taken once, before the keys are listed: claims that expire later are passed over.
\* Keys are found through an index that may lag.
ScanClaims(w, keys) ==
    /\ pc[w] = "idle"
    /\ todo' = [todo EXCEPT ![w] = keys] /\ GoTo(w, "expired")
    /\ UNCHANGED <<latest, store, expired, cur, got, resend, clearing, taken, faults>>

Visited(w, k) == todo' = [todo EXCEPT ![w] = @ \ {k}]

\* The claim has gone.
SkipClaim(w, t) ==
    /\ pc[w] = "expired" /\ t \in todo[w]
    /\ t \notin ClaimToks
    /\ Visited(w, t)
    /\ UNCHANGED <<latest, store, expired, pc, cur, got, resend, clearing, taken, faults>>

ReadExpired(w, c) ==
    /\ pc[w] = "expired" /\ c.tok \in todo[w]
    /\ Visited(w, c.tok)
    /\ cur' = [cur EXCEPT ![w] = c] /\ GoTo(w, "putback")
    /\ UNCHANGED <<latest, store, expired, got, resend, clearing, taken, faults>>

\* The claimed payload becomes the pending one; a put that landed unanswered is repeated.
PutBack(w) ==
    /\ pc[w] = "putback"
    /\ Put(cur[w].email, cur[w].ver)
    /\ \/ NoFault /\ GoTo(w, "unclaim")
       \/ Fault /\ UNCHANGED pc
    /\ UNCHANGED <<latest, claims, expired, todo, cur, got, resend, clearing, taken>>

\* The claim is deleted, whichever of the two requeues this is; a failure is only logged.
Unclaim(w) ==
    /\ pc[w] = "unclaim"
    /\ \/ NoFault /\ DeleteClaim(cur[w])
       \/ Fault /\ UNCHANGED <<claims, expired>>
    /\ got' = [got EXCEPT ![w] = @ \ {cur[w]}]
    /\ cur' = [cur EXCEPT ![w] = None]
    /\ GoTo(w, IF cur[w] \in got[w] THEN "pending" ELSE "expired")
    /\ UNCHANGED <<latest, pend, puts, owed, todo, resend, clearing, taken>>

-----------------------------------------------------------------------------
(* claim_users, second pass *)

\* A call visits no more keys than its limit.
ScanPending(w, keys) ==
    /\ pc[w] = "expired" /\ todo[w] = {}
    /\ todo' = [todo EXCEPT ![w] = keys] /\ GoTo(w, "pending")
    /\ UNCHANGED <<latest, store, expired, cur, got, resend, clearing, taken, faults>>

SkipPending(w, e) ==
    /\ pc[w] = "pending" /\ e \in todo[w] /\ e \notin PendingKeys
    /\ Visited(w, e)
    /\ UNCHANGED <<latest, store, expired, pc, cur, got, resend, clearing, taken, faults>>

\* A uuid that is in no key and in nobody's hands.
Unused(t) ==
    /\ t \notin ClaimToks \cup clearing
    /\ \A w \in Workers : /\ t \notin todo[w]
                          /\ cur[w] # None => cur[w].tok # t
                          /\ \A c \in got[w] : c.tok # t

ReadPending(w, e) ==
    /\ pc[w] = "pending" /\ e \in todo[w] \cap PendingKeys
    /\ Visited(w, e)
    /\ \E t \in Tokens : Unused(t)
    /\ cur' = [cur EXCEPT ![w] = [tok |-> CHOOSE t \in Tokens : Unused(t), email |-> e,
                                  ver |-> pend[e].ver, rev |-> pend[e].rev]]
    /\ GoTo(w, "create")
    /\ UNCHANGED <<latest, store, expired, got, resend, clearing, taken, faults>>

\* A create that raised is given up, also if it landed.
CreateClaim(w) ==
    /\ pc[w] = "create"
    /\ \/ NoFault /\ claims' = claims \cup {cur[w]} /\ GoTo(w, "take") /\ UNCHANGED cur
       \/ /\ Fault /\ claims' \in {claims, claims \cup {cur[w]}}
          /\ cur' = [cur EXCEPT ![w] = None] /\ GoTo(w, "pending")
    /\ UNCHANGED <<latest, pend, puts, owed, expired, todo, got, resend, clearing, taken>>

\* Mutant of SameRevision: the delete does not name the revision.
AnyRevision(c) == TRUE

\* kv.delete with last=rev fails when the pending key was written or deleted since.
SameRevision(c) == pend[c.email].rev = c.rev

\* The pending key is deleted: the user is w's.
Take(w) ==
    LET c == cur[w] IN
    /\ pc[w] = "take" /\ SameRevision(c)
    /\ pend' = [pend EXCEPT ![c.email] = NoKey]
    /\ got' = [got EXCEPT ![w] = @ \cup {c}]
    /\ taken' = taken \cup {c.rev}
    /\ cur' = [cur EXCEPT ![w] = None] /\ GoTo(w, "pending")
    /\ UNCHANGED <<latest, claims, expired, puts, owed, todo, resend, clearing, faults>>

\* The delete failed, or its answer was lost: then nothing keeps the user but the claim.
TakeFails(w) ==
    LET c == cur[w] IN
    /\ pc[w] = "take"
    /\ \/ ~SameRevision(c) /\ NoFault /\ UNCHANGED <<pend, owed>>
       \/ SameRevision(c) /\ Fault /\ UNCHANGED <<pend, owed>>
       \/ SameRevision(c) /\ Fault /\ pend' = [pend EXCEPT ![c.email] = NoKey] /\ Settled({c})
    /\ GoTo(w, "cleanup")
    /\ UNCHANGED <<latest, claims, expired, puts, todo, cur, got, resend, clearing, taken>>

\* The claim key is deleted whatever happened; a failure is only logged.
Cleanup(w) ==
    /\ pc[w] = "cleanup"
    /\ \/ NoFault /\ DeleteClaim(cur[w])
       \/ Fault /\ UNCHANGED <<claims, expired>>
    /\ cur' = [cur EXCEPT ![w] = None] /\ GoTo(w, "pending")
    /\ UNCHANGED <<latest, pend, puts, owed, todo, got, resend, clearing, taken>>

-----------------------------------------------------------------------------
(* The bridge's answers: ack_users, requeue_users *)

\* Mutant of Returned: the bridge is called before the pass is over.
Early(w) == pc[w] = "pending"

\* claim_users has returned.
Returned(w) == pc[w] = "pending" /\ todo[w] = {}

\* The node has the user: the claim is deleted if it is still there; a failure is only logged.
Ack(w, c) ==
    /\ Returned(w) /\ c \in got[w]
    /\ got' = [got EXCEPT ![w] = @ \ {c}]
    /\ \/ NoFault /\ DeleteClaim(c)
       \/ Fault /\ UNCHANGED <<claims, expired>>
    /\ Settled({c})
    /\ UNCHANGED <<latest, pend, puts, pc, todo, cur, resend, clearing, taken>>

\* Sending failed: the payload is put back, then its claim deleted (_requeue_one).
SendFails(w, c) ==
    /\ Returned(w) /\ c \in got[w] /\ Fault
    /\ cur' = [cur EXCEPT ![w] = c] /\ GoTo(w, "putback")
    /\ UNCHANGED <<latest, store, expired, todo, got, resend, clearing, taken>>

Done(w) ==
    /\ Returned(w) /\ got[w] = {}
    /\ GoTo(w, "idle")
    /\ UNCHANGED <<latest, store, expired, todo, cur, got, resend, clearing, taken, faults>>

-----------------------------------------------------------------------------
(* Time, failures and the removal of the node *)

\* The worker still means to use the claim.
InUse(c) == \E w \in Workers : c \in got[w] \/ (c = cur[w] /\ pc[w] \in {"take", "cleanup"})

\* A lease is long: only a worker that is late lets it pass (a fault); one without a worker ends.
Expire(c) ==
    /\ c.tok \notin expired
    /\ IF InUse(c) THEN Fault ELSE NoFault
    /\ expired' = expired \cup {c.tok}
    /\ UNCHANGED <<latest, store, workers, resend, clearing, taken>>

\* The process dies, or a KV call raises out of claim_users, ack_users or requeue_users.
Crash(w) ==
    /\ pc[w] # "idle" /\ Fault
    /\ GoTo(w, "idle")
    /\ todo' = [todo EXCEPT ![w] = {}]
    /\ cur' = [cur EXCEPT ![w] = None]
    /\ got' = [got EXCEPT ![w] = {}]
    /\ UNCHANGED <<latest, store, expired, resend, clearing, taken>>

\* clear: the keys there are, then each is read and deleted.
Clear ==
    /\ clearing = {} /\ Fault
    /\ clearing' = ClaimToks \cup PendingKeys
    /\ UNCHANGED <<latest, store, expired, workers, resend, taken>>

ClearPending(e) ==
    /\ e \in clearing
    /\ clearing' = clearing \ {e}
    /\ pend' = [pend EXCEPT ![e] = NoKey]
    /\ Settled({[email |-> e, rev |-> pend[e].rev]})
    /\ UNCHANGED <<latest, claims, expired, puts, workers, resend, taken, faults>>

ClearClaim(t) ==
    LET cs == {c \in claims : c.tok = t} IN
    /\ t \in clearing
    /\ clearing' = clearing \ {t}
    /\ claims' = claims \ cs /\ expired' = expired \ {t}
    /\ Settled(cs)
    /\ UNCHANGED <<latest, pend, puts, workers, resend, taken, faults>>

-----------------------------------------------------------------------------

\* What a worker does once claim_users was called.
Step(w) ==
    \/ \E t \in todo[w] : SkipClaim(w, t) \/ SkipPending(w, t)
    \/ \E c \in claims : ReadExpired(w, c)
    \/ PutBack(w) \/ Unclaim(w)
    \/ \E keys \in SUBSET PendingKeys : ScanPending(w, keys)
    \/ \E e \in PendingKeys : ReadPending(w, e)
    \/ CreateClaim(w) \/ Take(w) \/ TakeFails(w) \/ Cleanup(w)
    \/ \E c \in got[w] : Ack(w, c) \/ SendFails(w, c)
    \/ Done(w)

Next ==
    \/ \E e \in Emails : Enqueue(e) \/ ClearPending(e)
    \/ \E u \in resend : Resend(u)
    \/ \E w \in Workers : \/ \E keys \in SUBSET OverToks : ScanClaims(w, keys)
                          \/ Step(w) \/ Crash(w)
    \/ \E c \in claims : Expire(c)
    \/ \E t \in Tokens : ClearClaim(t)
    \/ Clear

Spec == Init /\ [][Next]_vars

\* The event loops run, and time passes.
Fairness ==
    /\ \A w \in Workers : WF_vars(Step(w))
    /\ WF_vars(\E u \in resend : Resend(u))
    /\ WF_vars(\E c \in claims : ~InUse(c) /\ Expire(c))

FairSpec == Spec /\ Fairness

-----------------------------------------------------------------------------
(* Properties *)

TypeOK ==
    /\ latest \in [Emails -> Nat] /\ puts \in Nat
    /\ pend \in [Emails -> {NoKey} \cup [ver : Nat \ {0}, rev : 1..puts]]
    /\ claims \subseteq Item /\ expired \subseteq ClaimToks
    /\ pc \in [Workers -> Steps]
    /\ todo \in [Workers -> SUBSET (Tokens \cup Emails)]
    /\ cur \in [Workers -> Item \cup {None}]
    /\ got \in [Workers -> SUBSET Item]
    /\ resend \subseteq [email : Emails, ver : Nat \ {0}]
    /\ clearing \subseteq Tokens \cup Emails
    /\ taken \subseteq 1..puts /\ owed \in [Emails -> 0..puts]
    /\ faults \in 0..MaxFaults
    /\ \A w \in Workers :
        /\ pc[w] \in {"idle", "expired", "pending"} <=> cur[w] = None
        /\ pc[w] \in {"idle", "expired"} => got[w] = {}
        /\ pc[w] = "idle" => todo[w] = {}
        /\ pc[w] \in {"putback", "unclaim"} => got[w] = {} \/ cur[w] \in got[w]

\* A payload that was put in the queue is handed to one worker at most: of the workers that
\* read the same pending key, or read it before it was deleted and written again, one wins.
HandedOutOnce ==
    [][\A w \in Workers : \A c \in got'[w] \ got[w] : c.rev \notin taken]_vars

\* The newest put of a user does not vanish before the node has it or the queue is cleared, but
\* by a delete of its pending key that lands unanswered: crashes, failed calls, late workers and
\* requeues by several workers at once leave it in a pending or a claim key.
KeptUntilSent ==
    \A e \in Emails : owed[e] # 0 =>
        pend[e].rev = owed[e] \/ \E c \in claims : c.email = e /\ c.rev = owed[e]

\* Nothing stays in the queue for ever while some process keeps calling claim_users and sees
\* the keys there are: expired claims come back and are sent.
Drained == claims = {} /\ PendingKeys = {}

QueueDrains ==
    (\E w \in Workers : /\ []<><<ScanClaims(w, OverToks)>>_vars
                        /\ []<><<ScanPending(w, PendingKeys)>>_vars)
        => []<>Drained

\* "Latest payload per email wins": a pending payload is not replaced by an older one, leaving
\* aside the enqueues that are repeated because their answer was lost.
LatestWins ==
    [][\A e \in Emails : \/ pend'[e] = NoKey \/ pend'[e].ver >= pend[e].ver
                         \/ resend' # resend]_vars

=============================================================================
