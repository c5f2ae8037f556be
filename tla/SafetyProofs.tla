---------------------------- MODULE SafetyProofs ----------------------------
(***************************************************************************)
(* Theorems about Safety, for any number of events, any supply and any     *)
(* share, and whatever the cache holds: what the filter announces as safe  *)
(* after it has fetched the mint account cannot be minted, and was not     *)
(* concentrated when its holders were listed.                              *)
(***************************************************************************)
EXTENDS Safety, TLAPS

(* What is proved needs the two tests to be switched on, as the shipped    *)
(* config.toml does.                                                       *)
TestsOn ==
    /\ RequireMintDisabled = TRUE
    /\ MaxHolderPct > 0

-----------------------------------------------------------------------------
(* Type correctness.                                                       *)

LEMMA GoesType ==
    ASSUME TypeOK, NEW e \in Events, NEW t \in Task, Goes(e, t),
           announced' \subseteq Task
    PROVE  TypeOK'
BY DEF TypeOK, Goes, chain

LEMMA StopsType ==
    ASSUME TypeOK, NEW e \in Events, Stops(e)
    PROVE  TypeOK'
<1>1. [task[e] EXCEPT !.at = "done"] \in Task
  BY DEF TypeOK, Task, At
<1>2. QED
  BY <1>1, GoesType DEF Stops, TypeOK

LEMMA JudgedType ==
    ASSUME TypeOK, NEW e \in Events, NEW security, NEW amount \in Nat,
           NEW fetched \in BOOLEAN, Judged(e, security, amount, fetched)
    PROVE  TypeOK'
<1>1. Refused(security) \in BOOLEAN
  BY DEF Refused
<1>2. [task[e] EXCEPT !.at = "lp", !.rejected = Refused(security),
                      !.mintSupply = amount, !.fetched = fetched] \in Task
  <2>1. task[e] \in Task /\ "lp" \in At
    BY DEF TypeOK, At
  <2> HIDE DEF At
  <2>2. QED
    BY <1>1, <2>1 DEF Task
<1>3. QED
  BY <1>2, GoesType DEF Judged, TypeOK

LEMMA ChainType ==
    ASSUME TypeOK, Chain
    PROVE  TypeOK'
<1> USE SafetyAssumption DEF SafetyAssumption
<1>1. CASE Revoke
  BY <1>1 DEF TypeOK, Revoke
<1>2. ASSUME NEW b \in BOOLEAN, Mint(b) PROVE TypeOK'
  BY <1>2 DEF TypeOK, Mint
<1>3. ASSUME NEW b \in BOOLEAN, Burn(b) PROVE TypeOK'
  BY <1>3 DEF TypeOK, Burn
<1>4. CASE Transfer
  BY <1>4 DEF TypeOK, Transfer
<1>5. CASE BurnLp
  BY <1>5 DEF TypeOK, BurnLp
<1>6. CASE Sniff
  BY <1>6 DEF TypeOK, Sniff, chain, Security
<1>7. QED
  BY <1>1, <1>2, <1>3, <1>4, <1>5, <1>6 DEF Chain

LEMMA ValidateType ==
    ASSUME TypeOK, NEW e \in Events, Validate(e)
    PROVE  TypeOK'
<1> USE SafetyAssumption DEF SafetyAssumption
<1>0. task[e] \in Task /\ supply \in Nat /\ top \in Nat
  BY DEF TypeOK
<1>1. CASE Receive(e)
  <2>1. CASE \E security \in cache : Refused(security)
    BY <1>1, <2>1, StopsType DEF Receive
  <2>2. CASE ~ \E security \in cache : Refused(security)
    <3>1. [task[e] EXCEPT !.at = "mint", !.cached = cache] \in Task
      BY <1>0 DEF TypeOK, Task, At
    <3>2. Goes(e, [task[e] EXCEPT !.at = "mint", !.cached = cache])
      BY <1>1, <2>2 DEF Receive
    <3>3. QED
      BY <1>1, <2>2, <3>1, <3>2, GoesType DEF Receive, TypeOK
  <2>3. QED
    BY <2>1, <2>2
<1>2. CASE FetchMint(e)
  BY <1>0, <1>2, JudgedType DEF FetchMint
<1>3. CASE FetchMintFails(e)
  <2>1. CASE Stops(e)
    BY <2>1, StopsType
  <2>2. ASSUME NEW security \in task[e].cached, Judged(e, security, 0, FALSE) PROVE TypeOK'
    BY <2>2, JudgedType
  <2>3. QED
    BY <1>3, <2>1, <2>2 DEF FetchMintFails
<1>4. ASSUME NEW reply \in LpReplies, CheckLp(e, reply) PROVE TypeOK'
  <2> DEFINE refused == task[e].rejected \/ (RequireLpBurned /\ ~CountsAsBurned(reply))
             t == [task[e] EXCEPT !.at = "holders", !.seenLp = lpLeft, !.rejected = refused]
  <2>1. t \in Task
    BY <1>0 DEF TypeOK, Task, At
  <2>2. Goes(e, t) /\ announced' = announced
    BY <1>4 DEF CheckLp
  <2>3. QED
    BY <2>1, <2>2, GoesType DEF TypeOK
<1>5. CASE FetchHolders(e)
  <2> DEFINE t == [task[e] EXCEPT !.at = "supply", !.seenTop = top, !.seenSupply = supply]
  <2>1. t \in Task
    BY <1>0 DEF Task, At
  <2>2. Goes(e, t) /\ announced' = announced
    BY <1>5 DEF FetchHolders
  <2>3. QED
    BY <2>1, <2>2, GoesType DEF TypeOK
<1>6. CASE FetchHoldersFails(e)
  BY <1>6, StopsType DEF FetchHoldersFails
<1>7. ASSUME NEW answered \in BOOLEAN, NEW others \in BOOLEAN, Verdict(e, answered, others)
      PROVE  TypeOK'
  <2>1. [task[e] EXCEPT !.at = "done"] \in Task
    BY <1>0 DEF Task, At
  <2>2. announced' \subseteq Task
    <3> DEFINE total == TotalSupply(e, answered)
               info  == [task[e] EXCEPT !.total = total]
    <3>1. total \in Nat
      BY <1>0 DEF TotalSupply
    <3>2. info \in Task
      BY <1>0, <3>1 DEF Task
    <3>3. announced' = announced \/ announced' = announced \cup {info}
      BY <1>7 DEF Verdict
    <3> HIDE DEF info
    <3>4. QED
      BY <3>2, <3>3 DEF TypeOK
  <2>3. Goes(e, [task[e] EXCEPT !.at = "done"])
    BY <1>7 DEF Verdict
  <2>4. QED
    BY <2>1, <2>2, <2>3, GoesType
<1>8. QED
  BY <1>1, <1>2, <1>3, <1>4, <1>5, <1>6, <1>7 DEF Validate

LEMMA StepType ==
    ASSUME TypeOK, [Next]_vars
    PROVE  TypeOK'
<1>1. CASE UNCHANGED vars
  BY <1>1 DEF TypeOK, vars, chain
<1>2. QED
  BY <1>1, ChainType, ValidateType DEF Next

LEMMA InitType == Init => TypeOK
BY SafetyAssumption DEF SafetyAssumption, Init, TypeOK, Waiting, Task, At, Security

(* Every variable of the safety filter and of the chain keeps its type:    *)
(* whatever is sniffed, and with the last of the token burned, no holder   *)
(* holder has more than there is and the token has one cache entry.        *)
THEOREM SafetyTypeCorrect == Spec => []TypeOK
<1>1. QED
  BY InitType, StepType, PTL DEF Spec

-----------------------------------------------------------------------------
(* The inductive invariant: what a task has found out is still true.       *)

Looked == {"lp", "holders", "supply"}

(* A task that went on after it fetched the mint account has seen that     *)
(* nobody can mint; and an authority does not come back.                   *)
NoAuthoritySeen ==
    \A e \in Events :
        task[e].at \in Looked /\ task[e].fetched /\ ~task[e].rejected => authority = FALSE

(* So the supply can only have fallen since the holders were listed.       *)
SupplyFalls ==
    \A e \in Events :
        task[e].at = "supply" =>
            /\ task[e].seenTop <= task[e].seenSupply
            /\ task[e].fetched /\ ~task[e].rejected => supply <= task[e].seenSupply

IInv == TypeOK /\ NoAuthoritySeen /\ SupplyFalls /\ SafeCannotBeMinted /\ SafeIsNotConcentrated

LEMMA ChainKeeps ==
    ASSUME IInv, Chain
    PROVE  IInv'
<1>1. TypeOK'
  BY ChainType DEF IInv
<1>2. task' = task /\ announced' = announced
  BY DEF Chain, Revoke, Mint, Burn, Transfer, BurnLp, Sniff
<1>3. authority = FALSE => authority' = FALSE
  BY DEF Chain, Revoke, Mint, Burn, Transfer, BurnLp, Sniff, chain
<1>4. authority = FALSE => supply' <= supply
  BY DEF Chain, Revoke, Mint, Burn, Transfer, BurnLp, Sniff, chain, IInv, TypeOK
<1>5. NoAuthoritySeen'
  BY <1>2, <1>3 DEF IInv, NoAuthoritySeen
<1>6. SupplyFalls'
  <2> SUFFICES ASSUME NEW e \in Events, task'[e].at = "supply"
               PROVE  /\ task'[e].seenTop <= task'[e].seenSupply
                      /\ task'[e].fetched /\ ~task'[e].rejected =>
                            supply' <= task'[e].seenSupply
    BY DEF SupplyFalls
  <2>1. /\ task[e].seenTop <= task[e].seenSupply
        /\ task[e].fetched /\ ~task[e].rejected =>
              authority = FALSE /\ supply <= task[e].seenSupply
    BY <1>2 DEF IInv, NoAuthoritySeen, SupplyFalls, Looked
  <2>2. supply \in Nat /\ supply' \in Nat /\ task[e].seenSupply \in Nat
    BY <1>1 DEF IInv, TypeOK, Task
  <2>3. QED
    BY <1>2, <1>4, <2>1, <2>2
<1>7. SafeCannotBeMinted' /\ SafeIsNotConcentrated'
  BY <1>1, <1>2, <1>3 DEF IInv, TypeOK, SafeCannotBeMinted, SafeIsNotConcentrated
<1>8. QED
  BY <1>1, <1>5, <1>6, <1>7 DEF IInv

LEMMA LargerTotal ==
    ASSUME NEW pct \in Nat, NEW total \in Nat, NEW seen \in Nat, total <= seen
    PROVE  pct * total <= pct * seen
<1>1. PICK more \in Nat : seen = total + more
  <2>1. seen - total \in Nat /\ seen = total + (seen - total)
    OBVIOUS
  <2>2. QED
    BY <2>1
<1>2. pct * seen = pct * total + pct * more
  BY <1>1
<1>3. pct * more \in Nat /\ pct * total \in Nat
  OBVIOUS
<1>4. QED
  BY <1>2, <1>3

(* A step of the task of e that announces nothing.                         *)
LEMMA TaskKeeps ==
    ASSUME IInv, NEW e \in Events, NEW t, Goes(e, t), announced' = announced, TypeOK',
           t.at \in Looked /\ t.fetched /\ ~t.rejected => authority = FALSE,
           t.at = "supply" => t.seenSupply = supply /\ t.seenTop <= t.seenSupply
    PROVE  IInv'
<1>1. task' = [task EXCEPT ![e] = t] /\ UNCHANGED chain /\ task \in [Events -> Task]
  BY DEF Goes, IInv, TypeOK
<1>2. \A f \in Events : task'[f] = IF f = e THEN t ELSE task[f]
  BY <1>1
<1>3. NoAuthoritySeen'
  BY <1>1, <1>2 DEF IInv, NoAuthoritySeen, chain
<1>4. SupplyFalls'
  <2>1. supply' = supply /\ supply \in Nat
    BY <1>1 DEF IInv, TypeOK, chain
  <2>2. QED
    BY <1>2, <2>1 DEF IInv, SupplyFalls
<1>5. SafeCannotBeMinted' /\ SafeIsNotConcentrated'
  BY <1>1 DEF IInv, SafeCannotBeMinted, SafeIsNotConcentrated, chain
<1>6. QED
  BY <1>3, <1>4, <1>5 DEF IInv

LEMMA StopsKeeps ==
    ASSUME IInv, NEW e \in Events, Stops(e)
    PROVE  IInv'
<1> DEFINE t == [task[e] EXCEPT !.at = "done"]
<1>1. task[e] \in Task
  BY DEF IInv, TypeOK
<1>2. t.at = "done"
  BY <1>1 DEF Task
<1>3. TypeOK' /\ Goes(e, t) /\ announced' = announced
  BY StopsType DEF IInv, Stops
<1>4. QED
  BY <1>2, <1>3, TaskKeeps DEF Looked

LEMMA JudgedKeeps ==
    ASSUME IInv, TestsOn, NEW e \in Events, NEW security, NEW amount \in Nat,
           NEW fetched \in BOOLEAN, Judged(e, security, amount, fetched),
           security.authority \in BOOLEAN,
           fetched /\ security.authority = FALSE => authority = FALSE
    PROVE  IInv'
<1> DEFINE t == [task[e] EXCEPT !.at = "lp", !.rejected = Refused(security),
                                !.mintSupply = amount, !.fetched = fetched]
<1>1. task[e] \in Task
  BY DEF IInv, TypeOK
<1>2. t.at = "lp" /\ t.rejected = Refused(security) /\ t.fetched = fetched
  BY <1>1 DEF Task
<1>3. fetched /\ ~Refused(security) => authority = FALSE
  BY DEF Refused, TestsOn
<1>4. TypeOK' /\ Goes(e, t) /\ announced' = announced
  BY JudgedType DEF IInv, Judged
<1>5. QED
  BY <1>2, <1>3, <1>4, TaskKeeps

(* The share is of the supply now, or of one token if the RPC did not say: *)
(* of no more than there was when the holders were listed, if there was    *)
(* any.                                                                    *)
LEMMA VerdictKeeps ==
    ASSUME IInv, TestsOn, NEW e \in Events, NEW answered \in BOOLEAN,
           NEW others \in BOOLEAN, Verdict(e, answered, others), TypeOK'
    PROVE  IInv'
<1> USE SafetyAssumption DEF SafetyAssumption
<1> DEFINE total == TotalSupply(e, answered)
           t     == [task[e] EXCEPT !.at = "done"]
           info  == [task[e] EXCEPT !.total = total]
<1>1. task[e] \in Task /\ supply \in Nat /\ total \in Nat
  BY DEF IInv, TypeOK, TotalSupply
<1>2. /\ task' = [task EXCEPT ![e] = t]
      /\ UNCHANGED chain
      /\ task \in [Events -> Task]
  BY DEF Verdict, Goes, IInv, TypeOK
<1>3. t.at = "done"
  BY <1>1 DEF Task
<1>4. \A f \in Events : task'[f] = IF f = e THEN t ELSE task[f]
  BY <1>2
<1>5. NoAuthoritySeen'
  BY <1>2, <1>3, <1>4 DEF IInv, NoAuthoritySeen, Looked, chain
<1>6. SupplyFalls'
  BY <1>2, <1>3, <1>4 DEF IInv, SupplyFalls, chain
<1>7. CASE announced' = announced
  BY <1>2, <1>5, <1>6, <1>7
  DEF IInv, SafeCannotBeMinted, SafeIsNotConcentrated, chain
<1>8. CASE /\ announced' = announced \cup {info}
           /\ ~task[e].rejected
           /\ ~Concentrated(task[e].seenTop, total)
  <2>1. task[e].at = "supply"
    BY DEF Verdict
  <2>2. /\ info.fetched = task[e].fetched /\ info.total = total
        /\ info.seenTop = task[e].seenTop /\ info.seenSupply = task[e].seenSupply
        /\ task[e].seenSupply \in Nat /\ task[e].seenTop \in Nat
        /\ task[e].seenTop <= task[e].seenSupply
    BY <1>1, <2>1 DEF Task, IInv, SupplyFalls
  <2>3. task[e].fetched => authority = FALSE /\ supply <= task[e].seenSupply
    BY <1>8, <2>1 DEF IInv, NoAuthoritySeen, SupplyFalls, Looked
  <2>4. total = supply \/ total = 1
    BY DEF TotalSupply
  <2> HIDE DEF total, info
  <2>5. ASSUME info.fetched, info.total > 0
        PROVE  info.seenTop * 100 <= MaxHolderPct * info.seenSupply
    <3>1. CASE task[e].seenSupply = 0
      <4>1. task[e].seenTop = 0
        BY <2>2, <3>1
      <4>2. MaxHolderPct * 0 = 0
        OBVIOUS
      <4>3. QED
        BY <2>2, <3>1, <4>1, <4>2
    <3>2. CASE task[e].seenSupply # 0
      <4>1. total > 0 /\ total <= task[e].seenSupply
        BY <1>1, <2>2, <2>3, <2>4, <2>5, <3>2
      <4>2. /\ MaxHolderPct \in Nat
            /\ MaxHolderPct * total \in Nat
            /\ MaxHolderPct * task[e].seenSupply \in Nat
        BY <1>1, <2>2
      <4>3. task[e].seenTop * 100 <= MaxHolderPct * total
        BY <1>8, <2>2, <4>1, <4>2 DEF Concentrated, TestsOn
      <4>4. MaxHolderPct * total <= MaxHolderPct * task[e].seenSupply
        BY <1>1, <2>2, <4>1, <4>2, LargerTotal
      <4>5. QED
        BY <2>2, <4>2, <4>3, <4>4
    <3>3. QED
      BY <3>1, <3>2
  <2>6. SafeIsNotConcentrated'
    BY <1>8, <2>5 DEF IInv, SafeIsNotConcentrated
  <2>7. SafeCannotBeMinted'
    BY <1>2, <1>8, <2>2, <2>3 DEF IInv, SafeCannotBeMinted, chain
  <2>8. QED
    BY <1>5, <1>6, <2>6, <2>7 DEF IInv
<1>9. QED
  BY <1>7, <1>8 DEF Verdict

LEMMA ValidateKeeps ==
    ASSUME IInv, TestsOn, NEW e \in Events, Validate(e)
    PROVE  IInv'
<1>0. /\ TypeOK'
      /\ task[e] \in Task /\ supply \in Nat /\ authority \in BOOLEAN
      /\ top \in Nat /\ top <= supply
  BY ValidateType DEF IInv, TypeOK
<1>1. CASE Receive(e)
  <2>1. CASE Stops(e)
    BY <2>1, StopsKeeps
  <2> DEFINE t == [task[e] EXCEPT !.at = "mint", !.cached = cache]
  <2>2. CASE Goes(e, t) /\ announced' = announced
    <3>1. t.at = "mint"
      BY <1>0 DEF Task
    <3>2. QED
      BY <1>0, <2>2, <3>1, TaskKeeps DEF Looked
  <2>3. QED
    BY <1>1, <2>1, <2>2 DEF Receive
<1>2. CASE FetchMint(e)
  <2>1. PICK byte45 \in BOOLEAN :
            Judged(e, [authority |-> authority, freeze |-> byte45], supply, TRUE)
    BY <1>2 DEF FetchMint
  <2>2. QED
    BY <1>0, <2>1, JudgedKeeps
<1>3. CASE FetchMintFails(e)
  <2>1. CASE Stops(e)
    BY <2>1, StopsKeeps
  <2>2. ASSUME NEW security \in task[e].cached, Judged(e, security, 0, FALSE) PROVE IInv'
    <3>1. security.authority \in BOOLEAN
      BY <1>0 DEF Task, Security
    <3>2. QED
      BY <2>2, <3>1, JudgedKeeps
  <2>3. QED
    BY <1>3, <2>1, <2>2 DEF FetchMintFails
<1>4. ASSUME NEW reply \in LpReplies, CheckLp(e, reply) PROVE IInv'
  <2> DEFINE refused == task[e].rejected \/ (RequireLpBurned /\ ~CountsAsBurned(reply))
             t == [task[e] EXCEPT !.at = "holders", !.seenLp = lpLeft, !.rejected = refused]
  <2>1. t.at = "holders" /\ t.fetched = task[e].fetched /\ t.rejected = refused
    BY <1>0 DEF Task
  <2>2. t.fetched /\ ~t.rejected => authority = FALSE
    BY <1>4, <2>1 DEF CheckLp, IInv, NoAuthoritySeen, Looked
  <2>3. Goes(e, t) /\ announced' = announced
    BY <1>4 DEF CheckLp
  <2>4. QED
    BY <1>0, <2>1, <2>2, <2>3, TaskKeeps
<1>5. CASE FetchHolders(e)
  <2> DEFINE t == [task[e] EXCEPT !.at = "supply", !.seenTop = top, !.seenSupply = supply]
  <2>1. /\ t.at = "supply" /\ t.fetched = task[e].fetched
        /\ t.rejected = task[e].rejected /\ t.seenSupply = supply /\ t.seenTop = top
    BY <1>0 DEF Task
  <2>2. t.fetched /\ ~t.rejected => authority = FALSE
    BY <1>5, <2>1 DEF FetchHolders, IInv, NoAuthoritySeen, Looked
  <2>3. Goes(e, t) /\ announced' = announced
    BY <1>5 DEF FetchHolders
  <2>4. QED
    BY <1>0, <2>1, <2>2, <2>3, TaskKeeps
<1>6. CASE FetchHoldersFails(e)
  BY <1>6, StopsKeeps DEF FetchHoldersFails
<1>7. ASSUME NEW answered \in BOOLEAN, NEW others \in BOOLEAN, Verdict(e, answered, others)
      PROVE  IInv'
  BY <1>0, <1>7, VerdictKeeps
<1>8. QED
  BY <1>1, <1>2, <1>3, <1>4, <1>5, <1>6, <1>7 DEF Validate

LEMMA InitHolds == Init => IInv
<1> SUFFICES ASSUME Init PROVE IInv
  OBVIOUS
<1>1. TypeOK
  BY InitType
<1>2. \A e \in Events : task[e].at = "waiting"
  BY DEF Init, Waiting
<1>3. QED
  BY <1>1, <1>2 DEF Init, IInv, NoAuthoritySeen, SupplyFalls, Looked, SafeCannotBeMinted,
                    SafeIsNotConcentrated

LEMMA StepKeeps ==
    ASSUME IInv, TestsOn, [Next]_vars
    PROVE  IInv'
<1>1. CASE UNCHANGED vars
  BY <1>1 DEF vars, chain, IInv, TypeOK, NoAuthoritySeen, SupplyFalls,
              SafeCannotBeMinted, SafeIsNotConcentrated
<1>2. QED
  BY <1>1, ChainKeeps, ValidateKeeps DEF Next

(* However old the answer the verdict rests on, nobody can mint a token    *)
(* announced as safe once its mint account was fetched, whatever the cache *)
(* said of it.                                                             *)
THEOREM SafeStaysUnminted == ASSUME TestsOn PROVE Spec => []SafeCannotBeMinted
<1>1. IInv => SafeCannotBeMinted
  BY DEF IInv
<1>2. QED
  BY <1>1, InitHolds, StepKeeps, PTL DEF Spec

(* The share of the first holder, computed from two answers, is not less   *)
(* than it was when the holders were listed, if the mint account was       *)
(* fetched before and the second answer is not zero.                       *)
THEOREM SafeWasSpread == ASSUME TestsOn PROVE Spec => []SafeIsNotConcentrated
<1>1. IInv => SafeIsNotConcentrated
  BY DEF IInv
<1>2. QED
  BY <1>1, InitHolds, StepKeeps, PTL DEF Spec
=============================================================================
