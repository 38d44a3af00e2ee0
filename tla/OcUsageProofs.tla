---------------------------- MODULE OcUsageProofs ----------------------------
(***************************************************************************)
(* Proofs about OcUsage.  NothingLost needs that reads lag behind the      *)
(* counter; NothingDoubled that the only run is the runner's, and that     *)
(* whatever that run holds can be accounted, or dropped, without exceeding *)
(* what was transferred.                                                   *)
(***************************************************************************)
EXTENDS OcUsage, TLAPS

(* Types *)

LEMMA DeltaType ==
    ASSUME NEW v \in Nat, NEW b \in Nat
    PROVE  Delta(v, b) \in Nat
BY DEF Delta, StartedAgain

LEMMA InitType == UsageInit => UsageTypeOK
BY OcUsageAssumption DEF UsageInit, UsageTypeOK

LEMMA NextType == UsageTypeOK /\ [UsageNext]_usageVars => UsageTypeOK'
<1> SUFFICES ASSUME UsageTypeOK, [UsageNext]_usageVars
             PROVE  UsageTypeOK'
    OBVIOUS
<1> USE OcUsageAssumption
<1>1. ASSUME NEW p \in Processes, StartRun(p) \/ RunDies(p) \/ ChangeLeader(p)
      PROVE  UsageTypeOK'
    BY <1>1 DEF UsageTypeOK, StartRun, RunDies, ChangeLeader, Failure
<1>2. ASSUME NEW p \in Processes, NEW m \in Mappings, Fetch(p, m)
      PROVE  UsageTypeOK'
  <2>1. value[p] \in [Mappings -> Nat] /\ remote[m] \in Nat
        /\ step[p] \in [Mappings -> {"done", "fetch", "account"}]
      BY DEF UsageTypeOK
  <2>2. /\ [value[p] EXCEPT ![m] = remote[m]] \in [Mappings -> Nat]
        /\ \A s \in {"account", "done"} :
              [step[p] EXCEPT ![m] = s] \in [Mappings -> {"done", "fetch", "account"}]
      BY <2>1
  <2>3. value' \in [Processes -> [Mappings -> Nat]]
      BY <1>2, <2>2 DEF UsageTypeOK, Fetch
  <2>4. step' \in [Processes -> [Mappings -> {"done", "fetch", "account"}]]
      BY <1>2, <2>2 DEF UsageTypeOK, Fetch
  <2> QED BY <1>2, <2>3, <2>4 DEF UsageTypeOK, Fetch, Failure
<1>3. ASSUME NEW p \in Processes, NEW m \in Mappings, Account(p, m)
      PROVE  UsageTypeOK'
  <2>1. value[p] \in [Mappings -> Nat] /\ last[m] \in Nat /\ billed[m] \in Nat
        /\ step[p] \in [Mappings -> {"done", "fetch", "account"}]
      BY DEF UsageTypeOK
  <2>2. value[p][m] \in Nat
      BY <2>1
  <2>3. Delta(value[p][m], last[m]) \in Nat
      BY <2>1, <2>2, DeltaType
  <2>4. billed[m] + Delta(value[p][m], last[m]) \in Nat
      BY <2>1, <2>3
  <2>5. /\ [last EXCEPT ![m] = value[p][m]] \in [Mappings -> Nat]
        /\ [billed EXCEPT ![m] = billed[m] + Delta(value[p][m], last[m])] \in [Mappings -> Nat]
      BY <2>2, <2>4 DEF UsageTypeOK
  <2>8. \/ UNCHANGED <<last, billed>>
        \/ /\ last' = [last EXCEPT ![m] = value[p][m]]
           /\ billed' = [billed EXCEPT ![m] = billed[m] + Delta(value[p][m], last[m])]
      BY <1>3 DEF Account, RolledBack
  <2>9. last' \in [Mappings -> Nat] /\ billed' \in [Mappings -> Nat]
    <3>1. last \in [Mappings -> Nat] /\ billed \in [Mappings -> Nat]
        BY DEF UsageTypeOK
    <3> QED BY <2>5, <2>8, <3>1
  <2>6. [step[p] EXCEPT ![m] = "done"] \in [Mappings -> {"done", "fetch", "account"}]
      BY <2>1
  <2>7. step' \in [Processes -> [Mappings -> {"done", "fetch", "account"}]]
      BY <1>3, <2>6 DEF UsageTypeOK, Account, AfterFailure
  <2> QED BY <1>3, <2>9, <2>7 DEF UsageTypeOK, Account, Failure
<1>4. ASSUME NEW m \in Mappings, Traffic(m) \/ Reset(m) \/ SetActive(m, TRUE) \/ SetActive(m, FALSE)
      PROVE  UsageTypeOK'
  <2>1. CASE Traffic(m)
    <3>1. sent[m] + 1 \in 0..MaxTraffic /\ remote[m] + 1 \in Nat
        BY <2>1 DEF UsageTypeOK, Traffic
    <3>2. sent' \in [Mappings -> 0..MaxTraffic] /\ remote' \in [Mappings -> Nat]
        BY <2>1, <3>1 DEF UsageTypeOK, Traffic
    <3> QED BY <2>1, <3>2 DEF UsageTypeOK, Traffic
  <2>2. CASE Reset(m)
      BY <2>2 DEF UsageTypeOK, Reset
  <2>3. CASE SetActive(m, TRUE) \/ SetActive(m, FALSE)
      BY <2>3 DEF UsageTypeOK, SetActive
  <2> QED BY <1>4, <2>1, <2>2, <2>3
<1>5. CASE UNCHANGED usageVars
    BY <1>5 DEF UsageTypeOK, usageVars
<1> QED BY <1>1, <1>2, <1>3, <1>4, <1>5 DEF UsageNext, Run

(* Every variable of the accounting keeps its type. *)
THEOREM UsageTypeCorrect == UsageSpec => []UsageTypeOK
BY InitType, NextType, PTL DEF UsageSpec

-----------------------------------------------------------------------------
(* Nothing is lost *)

(* However runs overlap and fail, traffic below the baseline has been billed as long as no    *)
(* counter starts again: the baseline and the bills move in one transaction.                  *)
THEOREM TrafficIsNotLost == UsageSpec => []NothingLost
<1>1. UsageInit => NothingLost
  <2>1. UsageInit => \A m \in Mappings : billed[m] = 0 /\ last[m] = 0
      BY DEF UsageInit
  <2>2. 0 >= 0
      OBVIOUS
  <2> QED BY <2>1, <2>2 DEF NothingLost
<1>2. UsageTypeOK /\ NothingLost /\ [UsageNext]_usageVars => NothingLost'
  <2> SUFFICES ASSUME UsageTypeOK, NothingLost, [UsageNext]_usageVars, resets' = 0,
                      NEW n \in Mappings
               PROVE  billed'[n] >= last'[n]
      BY DEF NothingLost
  <2>1. resets = 0 /\ billed[n] >= last[n]
      BY OcUsageAssumption
         DEF UsageNext, Run, StartRun, Fetch, Account, RunDies, ChangeLeader, Traffic, Reset,
             SetActive, usageVars, NothingLost, UsageTypeOK
  <2>2. billed[n] \in Nat /\ last[n] \in Nat
      BY DEF UsageTypeOK
  <2>3. CASE UNCHANGED <<last, billed>>
      BY <2>1, <2>3
  <2>4. ASSUME NEW p \in Processes, NEW m \in Mappings, active[m],
               last' = [last EXCEPT ![m] = value[p][m]],
               billed' = [billed EXCEPT ![m] = billed[m] + Delta(value[p][m], last[m])]
        PROVE  billed'[n] >= last'[n]
    <3>1. CASE n # m
        BY <2>1, <2>4, <3>1 DEF UsageTypeOK
    <3>2. CASE n = m
      <4>1. value[p][m] \in Nat
          BY DEF UsageTypeOK
      <4>2. billed'[n] = billed[n] + Delta(value[p][m], last[n]) /\ last'[n] = value[p][m]
          BY <2>4, <3>2 DEF UsageTypeOK
      <4> QED BY <2>1, <2>2, <4>1, <4>2 DEF Delta, StartedAgain
    <3> QED BY <3>1, <3>2
  <2>5. UNCHANGED <<last, billed>>
        \/ \E p \in Processes, m \in Mappings : Account(p, m)
      BY DEF UsageNext, Run, StartRun, Fetch, RunDies, ChangeLeader, Traffic, Reset,
             SetActive, usageVars
  <2> QED BY <2>3, <2>4, <2>5 DEF Account, RolledBack
<1> QED BY <1>1, <1>2, UsageTypeCorrect, PTL DEF UsageSpec

-----------------------------------------------------------------------------
(* Nothing is doubled *)

\* While the lead does not change only the runner's run accounts anything.
OneRun == \A p \in Processes : p # runner => \A m \in Mappings : step[p][m] = "done"

\* Reading the counter now and accounting it at once would not exceed what was transferred,
\* whether the value the runner's run holds is accounted first or dropped.
Within(m) ==
    /\ billed[m] + Delta(remote[m], last[m]) <= sent[m]
    /\ step[runner][m] = "account" =>
          LET v == value[runner][m]
          IN  billed[m] + Delta(v, last[m]) + Delta(remote[m], v) <= sent[m]

Budget == changes = 0 => OneRun /\ \A m \in Mappings : Within(m)

\* What Delta does as its arguments grow or start again.
LEMMA DeltaFacts ==
    /\ \A v, b \in Nat : Delta(v, b) \in Nat
    /\ \A v, b \in Nat : Delta(v + 1, b) <= Delta(v, b) + 1
    /\ \A b \in Nat : Delta(0, b) = 0 /\ Delta(b, b) = 0
BY DEF Delta, StartedAgain

LEMMA NextBudget ==
    ASSUME UsageTypeOK, Budget, [UsageNext]_usageVars, changes' = 0
    PROVE  OneRun' /\ \A m \in Mappings : Within(m)'
<1>1. changes = 0 /\ runner' = runner
    BY OcUsageAssumption
       DEF UsageNext, Run, StartRun, Fetch, Account, RunDies, ChangeLeader, Traffic, Reset,
           SetActive, usageVars, UsageTypeOK
<1>2. OneRun /\ \A m \in Mappings : Within(m)
    BY <1>1 DEF Budget
<1>3. \A m \in Mappings : /\ sent[m] \in Nat /\ remote[m] \in Nat /\ last[m] \in Nat
                          /\ billed[m] \in Nat /\ value[runner][m] \in Nat
    BY DEF UsageTypeOK
<1>4. CASE UNCHANGED usageVars
    BY <1>2, <1>4 DEF usageVars, OneRun, Within
<1>5. ASSUME NEW p \in Processes, StartRun(p) \/ RunDies(p)
      PROVE  OneRun' /\ \A m \in Mappings : Within(m)'
  <2>1. UNCHANGED <<sent, remote, last, billed, value, runner>>
      BY <1>5 DEF StartRun, RunDies
  <2>2. \A m \in Mappings : step'[runner][m] = "account" => step[runner][m] = "account"
      BY <1>5 DEF StartRun, RunDies, UsageTypeOK
  <2>3. OneRun'
      BY <1>2, <1>5, <2>1 DEF OneRun, StartRun, RunDies, UsageTypeOK
  <2>4. \A m \in Mappings : Within(m)'
      BY <1>2, <2>1, <2>2 DEF Within
  <2> QED BY <2>3, <2>4
<1>6. ASSUME NEW p \in Processes, NEW m \in Mappings, Fetch(p, m)
      PROVE  OneRun' /\ \A n \in Mappings : Within(n)'
  <2>1. p = runner
      BY <1>2, <1>6 DEF OneRun, Fetch
  <2>2. UNCHANGED <<sent, remote, last, billed, runner>>
      BY <1>6 DEF Fetch
  <2>3. OneRun'
      BY <1>2, <1>6, <2>1, <2>2 DEF OneRun, Fetch, UsageTypeOK
  <2>4. ASSUME NEW n \in Mappings
        PROVE  Within(n)'
    <3>1. CASE step'[runner][n] = "account" /\ n = m
      <4>1. value'[runner][n] = remote[n]
          BY <1>6, <2>1, <3>1 DEF Fetch, UsageTypeOK
      <4>2. Delta(remote[n], remote[n]) = 0 /\ Delta(remote[n], last[n]) \in Nat
          BY <1>3, DeltaFacts
      <4> QED BY <1>2, <1>3, <2>2, <4>1, <4>2 DEF Within
    <3>2. CASE step'[runner][n] # "account"
        BY <1>2, <2>2, <3>2 DEF Within
    <3>3. CASE n # m
      <4>1. step'[runner][n] = step[runner][n] /\ value'[runner][n] = value[runner][n]
          BY <1>6, <2>1, <3>3 DEF Fetch, UsageTypeOK
      <4> QED BY <1>2, <2>2, <4>1 DEF Within
    <3> QED BY <3>1, <3>2, <3>3
  <2> QED BY <2>3, <2>4
<1>7. ASSUME NEW p \in Processes, NEW m \in Mappings, Account(p, m)
      PROVE  OneRun' /\ \A n \in Mappings : Within(n)'
  <2>1. p = runner
      BY <1>2, <1>7 DEF OneRun, Account
  <2>2. UNCHANGED <<sent, remote, runner, value>>
      BY <1>7 DEF Account
  <2>3. OneRun'
      BY <1>2, <1>7, <2>1, <2>2 DEF OneRun, Account, UsageTypeOK
  <2>4. ASSUME NEW n \in Mappings
        PROVE  Within(n)'
    <3>1. CASE n # m
      <4>1. step'[runner][n] = step[runner][n] /\ last'[n] = last[n] /\ billed'[n] = billed[n]
          BY <1>7, <2>1, <3>1 DEF Account, RolledBack, UsageTypeOK
      <4> QED BY <1>2, <2>2, <4>1 DEF Within
    <3>2. CASE n = m
      <4>1. step'[runner][n] = "done"
          BY <1>7, <2>1, <3>2 DEF Account, AfterFailure, UsageTypeOK
      <4>2. CASE UNCHANGED <<last, billed>>
          BY <1>2, <2>2, <4>1, <4>2 DEF Within
      <4>3. CASE /\ last' = [last EXCEPT ![m] = value[p][m]]
                 /\ billed' = [billed EXCEPT ![m] = billed[m] + Delta(value[p][m], last[m])]
        <5>1. last'[n] = value[runner][n]
              /\ billed'[n] = billed[n] + Delta(value[runner][n], last[n])
            BY <2>1, <3>2, <4>3 DEF UsageTypeOK
        <5>2. billed[n] + Delta(value[runner][n], last[n]) + Delta(remote[n], value[runner][n])
                  <= sent[n]
            BY <1>2, <1>7, <2>1, <3>2 DEF Within, Account
        <5> QED BY <2>2, <4>1, <5>1, <5>2 DEF Within
      <4> QED BY <1>7, <4>2, <4>3 DEF Account, RolledBack
    <3> QED BY <3>1, <3>2
  <2> QED BY <2>3, <2>4
<1>8. ASSUME NEW m \in Mappings, Traffic(m) \/ Reset(m)
      PROVE  OneRun' /\ \A n \in Mappings : Within(n)'
  <2>1. UNCHANGED <<last, billed, step, value, runner>>
      BY <1>8 DEF Traffic, Reset
  <2>2. OneRun'
      BY <1>2, <2>1 DEF OneRun
  <2>3. ASSUME NEW n \in Mappings
        PROVE  Within(n)'
    <3> DEFINE b == last[n]
               v == value[runner][n]
    <3>1. CASE remote'[n] = remote[n] /\ sent'[n] = sent[n]
        BY <1>2, <2>1, <3>1 DEF Within
    <3>2. CASE remote'[n] = remote[n] + 1 /\ sent'[n] = sent[n] + 1
      <4>1. /\ Delta(remote[n] + 1, b) <= Delta(remote[n], b) + 1
            /\ Delta(remote[n] + 1, v) <= Delta(remote[n], v) + 1
            /\ Delta(remote[n] + 1, b) \in Nat /\ Delta(remote[n], b) \in Nat
            /\ Delta(remote[n] + 1, v) \in Nat /\ Delta(remote[n], v) \in Nat
            /\ Delta(v, b) \in Nat
        <5>1. remote[n] \in Nat /\ remote[n] + 1 \in Nat /\ b \in Nat /\ v \in Nat
            BY <1>3
        <5> HIDE DEF b, v
        <5> QED BY <5>1, DeltaFacts
      <4> QED BY <1>2, <1>3, <2>1, <3>2, <4>1 DEF Within
    <3>3. CASE remote'[n] = 0 /\ sent'[n] = sent[n]
      <4>1. /\ Delta(0, b) = 0 /\ Delta(0, v) = 0 /\ Delta(remote[n], b) \in Nat
            /\ Delta(remote[n], v) \in Nat /\ Delta(v, b) \in Nat
          BY <1>3, DeltaFacts
      <4> QED BY <1>2, <1>3, <2>1, <3>3, <4>1 DEF Within
    <3> QED BY <1>8, <3>1, <3>2, <3>3 DEF Traffic, Reset, UsageTypeOK
  <2> QED BY <2>2, <2>3
<1>9. ASSUME NEW m \in Mappings, SetActive(m, TRUE) \/ SetActive(m, FALSE)
      PROVE  OneRun' /\ \A n \in Mappings : Within(n)'
    BY <1>2, <1>9 DEF SetActive, OneRun, Within
<1>10. ASSUME NEW p \in Processes, ChangeLeader(p)
       PROVE  FALSE
    BY <1>1, <1>10 DEF ChangeLeader
<1> QED BY <1>4, <1>5, <1>6, <1>7, <1>8, <1>9, <1>10 DEF UsageNext, Run

(* While one process keeps the lead, nobody is billed for more than was transferred, with any *)
(* number of resets of the counters, failed reads, failed transactions and crashes.           *)
THEOREM TrafficIsNotDoubled == UsageSpec => []NothingDoubled
<1>1. UsageInit => Budget
  <2>1. UsageInit => /\ OneRun
                /\ \A m \in Mappings : /\ billed[m] = 0 /\ sent[m] = 0 /\ remote[m] = 0
                                         /\ last[m] = 0 /\ step[runner][m] = "done"
      BY DEF UsageInit, OneRun
  <2> QED BY <2>1 DEF Budget, Within, Delta, StartedAgain
<1>2. UsageTypeOK /\ Budget /\ [UsageNext]_usageVars => Budget'
    BY NextBudget DEF Budget
<1>3. UsageTypeOK /\ Budget => NothingDoubled
  <2> SUFFICES ASSUME UsageTypeOK, Budget, changes = 0, NEW m \in Mappings
               PROVE  billed[m] <= sent[m]
      BY DEF NothingDoubled
  <2>1. billed[m] + Delta(remote[m], last[m]) <= sent[m]
      BY DEF Budget, Within
  <2>2. billed[m] \in Nat /\ sent[m] \in Nat /\ Delta(remote[m], last[m]) \in Nat
      BY DeltaFacts DEF UsageTypeOK
  <2> QED BY <2>1, <2>2
<1> QED BY <1>1, <1>2, <1>3, UsageTypeCorrect, PTL DEF UsageSpec
=============================================================================
