----------------------------- MODULE UserStatus -----------------------------
(***************************************************************************)
(* The status of one user and the sessions that change it: the jobs of     *)
(* app/jobs/review_users.py and app/jobs/reset_user_data_usage.py, the     *)
(* enforcement that follows accounting (app/operation/access_control.py)   *)
(* and the requests of administrators (app/operation/user.py,              *)
(* app/db/crud/user.py).                                                   *)
(*                                                                         *)
(* A session reads the user's row into an object, decides on the object,   *)
(* and writes.  No row is locked: at a commit the ORM writes the           *)
(* attributes that differ from what was read, and the bulk updates write   *)
(* their columns whatever the row has become.                              *)
(*                                                                         *)
(* What a next plan says is chosen when it is applied.  That a request     *)
(* sets a next plan is left out: the first one is there from the start.    *)
(***************************************************************************)
EXTENDS Integers, FiniteSets

CONSTANTS
    Limits,    \* data limits that are asked for; 0 is none
    MaxUsed,   \* bound: traffic on a user's counter
    MaxOpen,   \* bound: sessions open at once
    MaxEdits   \* bound: requests of administrators

ASSUME UserStatusAssumption ==
    Limits \subseteq Nat /\ {MaxUsed, MaxOpen, MaxEdits} \subseteq Nat

VARIABLES
    row,      \* the row of the user, and whether a next plan exists
    object,   \* object[s]: the row as session s has read it
    at,       \* at[s]: what session s does next
    online,   \* become_online: traffic since the last edit, or the hold's timeout
    period,   \* the period of data_limit_reset_strategy has passed since the last reset
    edits     \* requests so far

statusVars == <<row, object, at, online, period, edits>>

\* "limit" and "expire" are the review jobs, "now" is enforce_user_limits_now, "hold" starts users
\* on hold, "reset" is the periodic reset, "admin" a request.
Reviews  == {"limit", "now", "expire"}
Sessions == Reviews \cup {"hold", "reset", "admin"}
Statuses == {"active", "on_hold", "limited", "expired", "disabled"}
Expiries == {"never", "later", "passed"}

NewUser(plan) == [status |-> "active", used |-> 0, limit |-> 1, due |-> "never", hold |-> FALSE,
                  plan |-> plan]
Nothing == NewUser(FALSE)

StatusInit ==
    /\ \E plan \in BOOLEAN, status \in {"active", "disabled"} :
           row = [NewUser(plan) EXCEPT !.status = status]
    /\ object = [s \in Sessions |-> Nothing]
    /\ at = [s \in Sessions |-> "idle"]
    /\ online = FALSE /\ period = FALSE /\ edits = 0

-----------------------------------------------------------------------------
(* The user *)

\* Mutant of IsLimited: the limit itself is still allowed.
IsOverLimit(r) == r.limit > 0 /\ r.used > r.limit

IsLimited(r) == r.limit > 0 /\ r.used >= r.limit

IsExpired(r) == r.due = "passed"

Serves(r) == r.status \in {"active", "on_hold"}

\* _resolve_enabled_user_status.
Resolved(r) ==
    IF IsExpired(r) THEN "expired"
    ELSE IF IsLimited(r) THEN "limited"
    ELSE IF r.hold THEN "on_hold" ELSE "active"

\* What the statement for review s selects.
Selected(s, r) == Serves(r) /\ IF s = "expire" THEN IsExpired(r) ELSE IsLimited(r)

Verdict(s) == IF s = "expire" THEN "expired" ELSE "limited"

-----------------------------------------------------------------------------
(* Sessions *)

Opens(s) ==
    /\ at[s] = "idle" /\ Cardinality({t \in Sessions : at[t] # "idle"}) < MaxOpen
    /\ object' = [object EXCEPT ![s] = row]
    /\ at' = [at EXCEPT ![s] = "write"]
    /\ UNCHANGED <<row, online, period>>

Closes(s) == at' = [at EXCEPT ![s] = "idle"] /\ object' = [object EXCEPT ![s] = Nothing]

\* The commit of an object that has become r: the attributes that differ are written.
Flushes(s, r) == row' = [f \in DOMAIN row |-> IF r[f] # object[s][f] THEN r[f] ELSE row[f]]

\* _reset_user_traffic_and_log: the usage starts again and the next plan is gone.
Emptied(r) == [r EXCEPT !.used = 0, !.plan = FALSE]

\* limit_exceeded_users, expired_users_enforce.
Review(s) == Selected(s, row) /\ Opens(s) /\ UNCHANGED edits

\* update_users_status: whatever the row has become.
Enforce(s) ==
    /\ at[s] = "write" /\ ~object[s].plan
    /\ row' = [row EXCEPT !.status = Verdict(s)]
    /\ at' = [at EXCEPT ![s] = "sync"]
    /\ UNCHANGED <<object, online, period, edits>>

\* The objects got the status after that commit, so the commit that follows the synchronisation
\* with the nodes and the outbox writes it again.
EnforceAgain(s) ==
    /\ at[s] = "sync"
    /\ row' = [row EXCEPT !.status = Verdict(s)]
    /\ Closes(s) /\ UNCHANGED <<online, period, edits>>

\* reset_user_by_next: the object with the plan's limit, to which what was left (or was used too
\* much) may be added, and with the plan's expiry, which for a template on hold comes later.
NextPlan(r, limit, adds, due, hold) ==
    [Emptied(r) EXCEPT
        !.limit = limit + IF adds THEN r.limit - r.used ELSE 0,
        !.due = IF hold THEN "never" ELSE due,
        !.hold = hold \/ r.hold,
        !.status = "active"]

ApplyNextPlan(s) ==
    /\ at[s] = "write" /\ object[s].plan /\ s \in Reviews \cup {"admin"}
    /\ \E limit \in Limits, adds \in BOOLEAN, due \in {"never", "later"}, hold \in BOOLEAN :
           Flushes(s, NextPlan(object[s], limit, adds, due, hold))
    /\ period' = FALSE
    /\ Closes(s) /\ UNCHANGED <<online, edits>>

\* get_on_hold_to_active_users.
FindHeld == row.status = "on_hold" /\ online /\ Opens("hold") /\ UNCHANGED edits

\* start_users_expire, whatever the row has become.
StartExpire ==
    /\ at["hold"] = "write"
    /\ row' = [row EXCEPT !.status = "active", !.hold = FALSE,
                          !.due = IF object["hold"].hold THEN "later" ELSE "never"]
    /\ Closes("hold") /\ UNCHANGED <<online, period, edits>>

\* get_users_to_reset_data_usage.
FindDue == row.status \in {"active", "limited"} /\ period /\ Opens("reset") /\ UNCHANGED edits

\* reset_user_data_usage and bulk_reset_user_data_usage.
Unlimited(r) == [Emptied(r) EXCEPT !.status = IF @ = "limited" THEN "active" ELSE @]

ResetUsage(s) ==
    /\ at[s] = "write" /\ s \in {"reset", "admin"}
    /\ Flushes(s, Unlimited(object[s]))
    /\ period' = FALSE
    /\ Closes(s) /\ UNCHANGED <<online, edits>>

-----------------------------------------------------------------------------
(* Requests *)

AdminReads == edits < MaxEdits /\ edits' = edits + 1 /\ Opens("admin")

\* _set_user_disabled.
Toggle ==
    /\ at["admin"] = "write"
    /\ \E status \in {"disabled", Resolved(object["admin"])} :
           Flushes("admin", [object["admin"] EXCEPT !.status = status])
    /\ Closes("admin") /\ UNCHANGED <<online, period, edits>>

\* modify_user, one field after the other; "keep" and Keep are fields that are not given.
Keep == -1

WithStatus(r, status) ==
    CASE status = "keep"                              -> r
      [] status = "active" /\ r.status = "disabled"   -> [r EXCEPT !.status = Resolved(r)]
      [] status = "on_hold" -> [r EXCEPT !.status = status, !.due = "never", !.hold = TRUE]
      [] OTHER                                        -> [r EXCEPT !.status = status]

WithExpire(r, due) ==
    CASE due = "keep"  -> r
      [] due = "never" -> [r EXCEPT !.due = due, !.status = IF @ = "expired" THEN "active" ELSE @]
      [] OTHER         ->
            [r EXCEPT !.due = due,
                      !.status = IF @ \notin {"active", "expired"} THEN @
                                 ELSE IF due = "later" THEN "active" ELSE "expired"]

WithLimit(r, limit) ==
    LET given == [r EXCEPT !.limit = limit]
    IN  IF limit = Keep THEN r
        ELSE IF r.status \in {"expired", "disabled"} THEN given
        ELSE IF IsLimited(given) THEN [given EXCEPT !.status = "limited"]
        ELSE IF r.status = "on_hold" THEN given
        ELSE [given EXCEPT !.status = "active"]

\* A next plan that is not given again is deleted, and edit_at is set.
Modify ==
    /\ at["admin"] = "write"
    /\ \E status \in {"keep", "active", "on_hold", "disabled"},
          due \in Expiries \cup {"keep"}, limit \in Limits \cup {Keep} :
           /\ status = "on_hold" => due = "keep"
           /\ LET r == WithLimit(WithExpire(WithStatus(object["admin"], status), due), limit)
              IN  Flushes("admin", [r EXCEPT !.plan = FALSE])
    /\ online' = FALSE
    /\ Closes("admin") /\ UNCHANGED <<period, edits>>

\* The statements of app/db/crud/bulk.py for all users, or all users of one administrator.
ForAll(r) ==
    /\ edits < MaxEdits /\ edits' = edits + 1
    /\ row' = r
    /\ UNCHANGED <<object, at, online>>

\* The log of past resets is emptied: the period now counts from the user's creation.
ResetAll == ForAll(Unlimited(row)) /\ period' \in {period, TRUE}

DisableAll ==
    /\ Serves(row) /\ ForAll([row EXCEPT !.status = "disabled"]) /\ UNCHANGED period

\* Whatever the limit and the expiry say.
ActivateAll ==
    /\ row.status = "disabled"
    /\ ForAll([row EXCEPT !.status = IF row.hold /\ row.due = "never" THEN "on_hold" ELSE "active"])
    /\ UNCHANGED period

-----------------------------------------------------------------------------
(* What happens to the user meanwhile *)

\* A batch of usage is recorded; nodes report what was used before a user was limited.
Usage ==
    /\ row.used < MaxUsed
    /\ row' = [row EXCEPT !.used = @ + 1]
    /\ online' = TRUE
    /\ UNCHANGED <<object, at, period, edits>>

ExpiryPasses ==
    /\ row.due = "later" /\ row' = [row EXCEPT !.due = "passed"]
    /\ UNCHANGED <<object, at, online, period, edits>>

HoldTimesOut ==
    /\ row.hold /\ ~online /\ online' = TRUE
    /\ UNCHANGED <<row, object, at, period, edits>>

PeriodPasses ==
    /\ ~period /\ period' = TRUE
    /\ UNCHANGED <<row, object, at, online, edits>>

StatusNext ==
    \/ \E s \in Reviews : Review(s) \/ Enforce(s) \/ EnforceAgain(s)
    \/ \E s \in Sessions : ApplyNextPlan(s) \/ ResetUsage(s)
    \/ FindHeld \/ StartExpire \/ FindDue
    \/ AdminReads \/ Toggle \/ Modify \/ ResetAll \/ DisableAll \/ ActivateAll
    \/ Usage \/ ExpiryPasses \/ HoldTimesOut \/ PeriodPasses

StatusSpec == StatusInit /\ [][StatusNext]_statusVars

\* The steps that end a session.
Proceeds(s) ==
    \/ s \in Reviews /\ (Enforce(s) \/ EnforceAgain(s))
    \/ s = "hold" /\ StartExpire
    \/ s = "admin" /\ (Toggle \/ Modify)
    \/ ApplyNextPlan(s) \/ ResetUsage(s)

-----------------------------------------------------------------------------
(* Properties *)

StatusTypeOK ==
    /\ row \in [status : Statuses, used : 0..MaxUsed, limit : Int, due : Expiries,
                hold : BOOLEAN, plan : BOOLEAN]
    /\ \A s \in Sessions : DOMAIN object[s] = DOMAIN row
    /\ at \in [Sessions -> {"idle", "write", "sync"}]
    /\ {online, period} \subseteq BOOLEAN /\ edits \in 0..MaxEdits

\* Whoever uses up the limit or outlives the expiry is stopped, again and again if need be: no
\* reset, plan, hold or request that overlaps the reviews keeps a user served for good.
ExcessStops ==
    []<>~ /\ Serves(row)
          /\ (row.limit > 0 /\ row.used >= row.limit) \/ row.due = "passed"

\* What the documentation says of the limits' enforcement: it changes users that are served and
\* have used up their limit.
EnforcesExceeded ==
    [][\A s \in {"limit", "now"} : (Enforce(s) \/ EnforceAgain(s)) /\ row' # row
            => Serves(row) /\ IsLimited(row)]_statusVars
=============================================================================
