------------------------------- MODULE Safety -------------------------------
(***************************************************************************)
(* The safety filter of src/velocity-sniper/src/safety_filter.rs, with the *)
(* cache that shred_listener.rs fills: each pool event is validated by a   *)
(* task of its own, which asks the RPC four times, one after the other,    *)
(* while the token goes on changing on the chain.                          *)
(*                                                                         *)
(* The events are all of one token; tokens share nothing here.  A step of  *)
(* a task ends where it awaits an answer.  Of the chain the filter needs   *)
(* four facts: whether the token can be minted, its supply, the balance of *)
(* its first holder, and whether LP tokens of the pool are left.           *)
(***************************************************************************)
EXTENDS Integers

CONSTANTS
    Events,              \* pool events of the token; shreds come in duplicate
    RequireMintDisabled, \* safety.require_mint_authority_disabled
    RequireFreezeDisabled, \* safety.require_freeze_authority_disabled
    RequireLpBurned,     \* safety.require_lp_burned
    MaxHolderPct,        \* safety.max_single_holder_pct, in percent; 0 is off
    ProgramIdsParse,     \* do the program ids of sniff_security parse?  As the
                         \* source stands one does not, and the listener panics
                         \* before it caches anything
    MaxSupply            \* bound: the token's supply

ASSUME SafetyAssumption ==
    /\ RequireMintDisabled \in BOOLEAN
    /\ RequireFreezeDisabled \in BOOLEAN
    /\ RequireLpBurned \in BOOLEAN
    /\ MaxHolderPct \in 0..100
    /\ ProgramIdsParse \in BOOLEAN
    /\ MaxSupply \in Nat

VARIABLES
    authority,  \* on chain: the token has a mint authority
    supply,     \* on chain: its supply
    top,        \* on chain: the balance of its largest account
    lpLeft,     \* on chain: some of the pool's LP tokens are left
    cache,      \* SECURITY_CACHE: what was last sniffed of the token
    task,       \* the validation of each event
    announced   \* the MintInfo sent, with the chain as the task saw it

chain == <<authority, supply, top, lpLeft>>
vars  == <<chain, cache, task, announced>>

At == {"waiting", "mint", "lp", "holders", "supply", "done"}

Security == [authority : BOOLEAN, freeze : BOOLEAN]

(* cached: the entry of the cache, a set of one, or none.  rejected: some  *)
(* rejection_reasons.  fetched: mint_data is an answer of the RPC and not  *)
(* the cached entry.  total: total_supply.  The others are what the RPC    *)
(* answered; seenSupply and seenLp are no variables of the code, but the   *)
(* supply when the holders were listed and the LP tokens when asked for.   *)
Task == [at : At, cached : SUBSET Security, rejected : BOOLEAN, fetched : BOOLEAN,
         seenLp : BOOLEAN, seenTop : Nat, seenSupply : Nat, mintSupply : Nat,
         total : Nat]

Waiting == [at |-> "waiting", cached |-> {}, rejected |-> FALSE, fetched |-> FALSE,
            seenLp |-> FALSE, seenTop |-> 0, seenSupply |-> 0, mintSupply |-> 0,
            total |-> 0]

Init ==
    /\ authority \in BOOLEAN
    /\ supply \in 0..MaxSupply
    /\ top \in 0..supply
    /\ lpLeft \in BOOLEAN
    /\ cache = {}
    /\ task = [e \in Events |-> Waiting]
    /\ announced = {}

-----------------------------------------------------------------------------
(* The chain.  An authority given up cannot be taken back, and only an     *)
(* authority can mint.                                                     *)

Revoke ==
    /\ authority
    /\ authority' = FALSE
    /\ UNCHANGED <<supply, top, lpLeft, cache, task, announced>>

Mint(toTop) ==
    /\ authority
    /\ supply < MaxSupply
    /\ supply' = supply + 1
    /\ top' = IF toTop THEN top + 1 ELSE top
    /\ UNCHANGED <<authority, lpLeft, cache, task, announced>>

Burn(ofTop) ==
    /\ IF ofTop THEN top > 0 ELSE top < supply
    /\ supply' = supply - 1
    /\ top' = IF ofTop THEN top - 1 ELSE top
    /\ UNCHANGED <<authority, lpLeft, cache, task, announced>>

Transfer ==
    /\ top' \in {top - 1, top + 1} \cap 0..supply
    /\ UNCHANGED <<authority, supply, lpLeft, cache, task, announced>>

BurnLp ==
    /\ lpLeft
    /\ lpLeft' = FALSE
    /\ UNCHANGED <<authority, supply, top, cache, task, announced>>

(* sniff_security caches whatever looks like an InitializeMint of the      *)
(* token in a shred, over what it had cached.  It asks neither for a       *)
(* signature nor whether the instruction succeeded, so the entry need not  *)
(* be what the chain says, then or later.                                  *)
Sniff ==
    /\ ProgramIdsParse
    /\ \E security \in Security : cache' = {security}
    /\ UNCHANGED <<chain, task, announced>>

Chain == Revoke \/ (\E b \in BOOLEAN : Mint(b) \/ Burn(b)) \/ Transfer \/ BurnLp \/ Sniff

-----------------------------------------------------------------------------
(* The validation of event e.                                              *)

Goes(e, t) ==
    /\ task' = [task EXCEPT ![e] = t]
    /\ UNCHANGED <<chain, cache>>

Stops(e) ==
    /\ Goes(e, [task[e] EXCEPT !.at = "done"])
    /\ UNCHANGED announced

(* A mutant: only the freeze authority counts.                             *)
RefusedForFreeze(security) == RequireFreezeDisabled /\ security.freeze

Refused(security) ==
    \/ RequireMintDisabled /\ security.authority
    \/ RequireFreezeDisabled /\ security.freeze

(* The task starts; what the cache holds against the token ends it here.   *)
Receive(e) ==
    /\ task[e].at = "waiting"
    /\ IF \E security \in cache : Refused(security)
       THEN Stops(e)
       ELSE /\ Goes(e, [task[e] EXCEPT !.at = "mint", !.cached = cache])
            /\ UNCHANGED announced

Judged(e, security, amount, fetched) ==
    /\ Goes(e, [task[e] EXCEPT !.at = "lp", !.rejected = Refused(security),
                               !.mintSupply = amount, !.fetched = fetched])
    /\ UNCHANGED announced

(* A mutant: the answer is cached beside the entry there is.               *)
FetchMintAdding(e) ==
    /\ task[e].at = "mint"
    /\ \E byte45 \in BOOLEAN :
          LET security == [authority |-> authority, freeze |-> byte45]
          IN  /\ cache' = cache \cup {security}
              /\ task' = [task EXCEPT ![e].at = "lp", ![e].rejected = Refused(security),
                                      ![e].mintSupply = supply, ![e].fetched = TRUE]
    /\ UNCHANGED <<chain, announced>>

(* fetch_mint_account got the account.  Its freeze flag is whatever byte   *)
(* 45 of the account says.                                                 *)
FetchMint(e) ==
    /\ task[e].at = "mint"
    /\ \E byte45 \in BOOLEAN :
          Judged(e, [authority |-> authority, freeze |-> byte45], supply, TRUE)

(* It got nothing, and the cached authorities stand in if there are any,   *)
(* with a supply of 0.                                                     *)
FetchMintFails(e) ==
    /\ task[e].at = "mint"
    /\ \/ task[e].cached = {} /\ Stops(e)
       \/ \E security \in task[e].cached : Judged(e, security, 0, FALSE)

LpReplies == {"account", "noResult", "failed"}

(* A reply without a result, be the account unknown or the reply an error  *)
(* object, counts as burned; a failed call or bad data does not.           *)
CountsAsBurned(reply) ==
    CASE reply = "account"  -> ~lpLeft
      [] reply = "noResult" -> TRUE
      [] reply = "failed"   -> FALSE

CheckLp(e, reply) ==
    /\ task[e].at = "lp"
    /\ Goes(e, [task[e] EXCEPT !.at = "holders", !.seenLp = lpLeft,
                    !.rejected = @ \/ (RequireLpBurned /\ ~CountsAsBurned(reply))])
    /\ UNCHANGED announced

FetchHolders(e) ==
    /\ task[e].at = "holders"
    /\ Goes(e, [task[e] EXCEPT !.at = "supply", !.seenTop = top, !.seenSupply = supply])
    /\ UNCHANGED announced

(* HOLDER_FETCH_FAILED.                                                    *)
FetchHoldersFails(e) ==
    /\ task[e].at = "holders"
    /\ Stops(e)

(* A mutant: the supply is the one fetched with the mint account.          *)
TotalOfMint(e, answered) == task[e].mintSupply

(* fetch_token_supply, 1 when it fails.                                    *)
TotalSupply(e, answered) == IF answered THEN supply ELSE 1

(* TOP_HOLDER_CONCENTRATION; no supply makes every share zero.             *)
Concentrated(amount, total) ==
    MaxHolderPct > 0 /\ total > 0 /\ amount * 100 > MaxHolderPct * total

(* others: the ten first holders together have too much, or the holders    *)
(* are too few.                                                            *)
Verdict(e, answered, others) ==
    /\ task[e].at = "supply"
    /\ LET total == TotalSupply(e, answered)
           safe  == ~ (task[e].rejected \/ others \/ Concentrated(task[e].seenTop, total))
           info  == [task[e] EXCEPT !.total = total]
       IN  announced' = IF safe THEN announced \cup {info} ELSE announced
    /\ Goes(e, [task[e] EXCEPT !.at = "done"])

Validate(e) ==
    \/ Receive(e) \/ FetchMint(e) \/ FetchMintFails(e)
    \/ \E reply \in LpReplies : CheckLp(e, reply)
    \/ FetchHolders(e) \/ FetchHoldersFails(e)
    \/ \E answered, others \in BOOLEAN : Verdict(e, answered, others)

Next == Chain \/ \E e \in Events : Validate(e)

Spec == Init /\ [][Next]_vars

-----------------------------------------------------------------------------
(* Correctness.                                                            *)

(* Every variable has its type, no account has more than there is, and the *)
(* cache has one entry for the token or none.                              *)
TypeOK ==
    /\ authority \in BOOLEAN
    /\ supply \in 0..MaxSupply
    /\ top \in 0..supply
    /\ lpLeft \in BOOLEAN
    /\ cache = {} \/ \E security \in Security : cache = {security}
    /\ task \in [Events -> Task]
    /\ announced \subseteq Task

(* "Mint authority disabled": however old the answer the verdict rests on, *)
(* nobody can mint a token announced as safe on the strength of its mint   *)
(* account.  One announced from the cache alone may well be minted.        *)
SafeCannotBeMinted == \A info \in announced : info.fetched => ~authority

(* "No single holder owns >15% of supply": the share of the first holder,  *)
(* computed from two answers of the RPC, is not less than it was when the  *)
(* holders were listed, because the mint account was looked at before; if  *)
(* it was, and if the second answer is not that nothing is left, which the *)
(* code takes for a share of zero.                                         *)
SafeIsNotConcentrated ==
    \A info \in announced :
        info.fetched /\ info.total > 0 =>
            info.seenTop * 100 <= MaxHolderPct * info.seenSupply

(* "LP tokens burned": none of the pool's LP tokens was left when the      *)
(* filter asked about them.                                                *)
SafeLpIsBurned == \A info \in announced : ~info.seenLp
=============================================================================
