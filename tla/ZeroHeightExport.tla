-------------------------- MODULE ZeroHeightExport --------------------------
(***************************************************************************)
(* The export of a genesis file: appExport of the command line and         *)
(* prepForZeroHeightGenesis, which rewrites distribution, staking and      *)
(* slashing state for a chain that starts again at height 0.  It runs in a *)
(* scratch context, so what matters is the state it exports.               *)
(*                                                                         *)
(* The keepers it calls are those of the Cosmos SDK; of them the module    *)
(* keeps reward periods with their reference counts and the tokens that    *)
(* are moved.  Amounts are in fractions of a coin, Unit fractions each.    *)
(***************************************************************************)
EXTENDS Integers, FiniteSets, Functions

CONSTANTS
    Validators, Delegations,
    Chains,          \* states of a chain that may be exported
    Unit,            \* fractions in a coin that can be sent
    MaxValidators    \* staking parameter: how many validators are active

\* What sdk.ValAddress(val.GetOperator()) evaluates to: GetOperator returns the
\* bech32 string, and its bytes are no validator's address.
CONSTANT BadAddress

VARIABLES
    pc,              \* the next step, or how the export ended
    todo,            \* what an iteration has not visited yet
    forZeroHeight, allowed,     \* the arguments; allowed = {} means no list
    ctxHeight,       \* height of the exported state
    val,             \* what the SDK modules store for each validator
    del,             \* for each delegation
    red, ubd,        \* creation heights of redelegations and unbondings
    pool, balance,   \* community pool, and balance of the distribution account
    jailedBefore,    \* history: the validators jailed on the running chain
    closeFailed      \* history: the iterator over the validators was not closed

distr == <<val, del, pool, balance>>
past == <<jailedBefore, closeFailed>>
vars == <<pc, todo, forZeroHeight, allowed, ctxHeight, distr, red, ubd, past>>

Ended == {"ok", "error", "panic"}
Steps == {"load", "commission", "rewards", "delegations", "clear", "validators", "redelegations",
          "unbondings", "bonds", "apply", "signing", "modules"} \cup Ended

\* history maps the reward periods a validator keeps to reference counts, which
\* the keeper allows to reach 3.  place is the validator's place in the power
\* index, from the highest power down; at 0 it is not in the index.
ValidatorState(history) ==
    [commission : Nat, outstanding : Nat, period : Nat, history : {history},
     jailed : BOOLEAN, place : Nat, power : Nat, unbondingHeight : Nat, startHeight : Nat]
DelegationState == [val : Validators, reward : Nat, period : Nat, height : Nat]

IsHistory(h, period) == h \in [DOMAIN h -> 1..3] /\ DOMAIN h \subseteq 0..(period - 1)

IsStore(vs) ==
    /\ vs \in [Validators -> Range(vs)]
    /\ \A v \in Validators :
          vs[v] \in ValidatorState(vs[v].history) /\ IsHistory(vs[v].history, vs[v].period)

Put(f, k, x) == [y \in DOMAIN f \cup {k} |-> IF y = k THEN x ELSE f[y]]
Without(f, k) == [x \in DOMAIN f \ {k} |-> f[x]]
Zero(f) == [x \in DOMAIN f |-> 0]

Total(f) == FoldFunction(+, 0, f)
Outstanding(vs) == Total([v \in Validators |-> vs[v].outstanding])
Owed(ds, v) == Total([d \in Delegations |-> IF ds[d].val = v THEN ds[d].reward ELSE 0])

TypeOK ==
    /\ pc \in Steps
    /\ todo \subseteq Validators \cup Delegations
    /\ forZeroHeight \in BOOLEAN /\ allowed \subseteq Validators
    /\ ctxHeight \in Nat
    /\ IsStore(val)
    /\ del \in [Delegations -> DelegationState]
    /\ \A e \in DOMAIN red : red[e] \in Nat
    /\ \A e \in DOMAIN ubd : ubd[e] \in Nat
    /\ pool \in Nat /\ balance \in Nat
    /\ jailedBefore \subseteq Validators /\ closeFailed \in BOOLEAN

Jailed == {v \in Validators : val[v].jailed}

\* The validators ApplyAndReturnValidatorSetUpdates looks at, MaxValidators from
\* the top of the power index and none behind one without power.
Walked(vs) ==
    {v \in Validators :
        /\ vs[v].place \in 1..MaxValidators
        /\ \A u \in Validators : vs[u].place \in 1..(vs[v].place - 1) => vs[u].power > 0}

ASSUME ConstantsAssumption ==
    /\ BadAddress \notin Validators /\ Unit \in Nat \ {0} /\ MaxValidators \in Nat
    /\ IsFiniteSet(Validators) /\ IsFiniteSet(Delegations)

\* A chain that may be exported satisfies the registered invariants of the SDK
\* modules: the distribution account is balanced, the rewards of a validator's
\* delegations are among those it has outstanding, and the power index holds
\* exactly the validators that are not jailed, each at a place of its own.
ASSUME ChainsAssumption ==
    \A c \in Chains :
        /\ c.height \in Nat /\ c.pool \in Nat /\ c.balance \in Nat
        /\ IsStore(c.val) /\ c.del \in [Delegations -> DelegationState]
        /\ \A e \in DOMAIN c.red : c.red[e] \in Nat
        /\ \A e \in DOMAIN c.ubd : c.ubd[e] \in Nat
        /\ c.balance = c.pool + Outstanding(c.val)
        /\ \A v \in Validators : Owed(c.del, v) <= c.val[v].outstanding
        /\ \A v \in Validators : c.val[v].jailed <=> c.val[v].place = 0
        /\ \A u, v \in Validators : u # v => c.val[u].place = 0 \/ c.val[u].place # c.val[v].place

Init ==
    \E c \in Chains, zero \in BOOLEAN, list \in SUBSET Validators :
        /\ pc = "load" /\ todo = {}
        /\ forZeroHeight = zero /\ allowed = list
        /\ ctxHeight = c.height
        /\ val = c.val /\ del = c.del /\ red = c.red /\ ubd = c.ubd
        /\ pool = c.pool /\ balance = c.balance
        /\ jailedBefore = {v \in Validators : c.val[v].jailed}
        /\ closeFailed = FALSE

Goto(next, set) == pc' = next /\ todo' = set
Finish(result) ==
    /\ Goto(result, {})
    /\ UNCHANGED <<forZeroHeight, allowed, ctxHeight, distr, red, ubd, past>>

-----------------------------------------------------------------------------
(* The distribution keeper                                                 *)

Truncated(x) == x - (x % Unit)

\* A reference to a period more, or less; at zero the period is deleted.
IncrementReference(h, p) == [h EXCEPT ![p] = @ + 1]
DecrementReference(h, p) ==
    IF h[p] = 1 THEN Without(h, p) ELSE [h EXCEPT ![p] = @ - 1]

\* IncrementValidatorPeriod
NextPeriod(w) ==
    [w EXCEPT !.history = Put(DecrementReference(@, w.period - 1), w.period, 1),
              !.period = @ + 1]

\* initializeDelegation: the delegation starts at the period just ended.
StartDelegation(w) == [w EXCEPT !.history = IncrementReference(@, w.period - 1)]

-----------------------------------------------------------------------------
(* appExport and ExportAppStateAndValidators                               *)

\* The state at the height asked for, or none.
LoadHeight ==
    /\ pc = "load"
    /\ IF forZeroHeight THEN Goto("commission", Validators) ELSE Goto("modules", {})
    /\ UNCHANGED <<forZeroHeight, allowed, ctxHeight, distr, red, ubd, past>>

LoadHeightFails == pc = "load" /\ Finish("error")

\* log.Fatal on a list with an entry that is no address.
InvalidList == pc = "load" /\ forZeroHeight /\ allowed # {} /\ Finish("error")

-----------------------------------------------------------------------------
(* prepForZeroHeightGenesis                                                *)

OperatorAddress(v) == BadAddress

\* IterateValidators or GetAllDelegations returns an error.
IterateFails ==
    /\ pc \in {"commission", "validators"} \/ (pc = "rewards" /\ todo = Delegations)
    /\ Finish("error")

\* WithdrawValidatorCommission; its errors are ignored.
WithdrawCommission(v) ==
    /\ pc = "commission" /\ v \in todo
    /\ IF OperatorAddress(v) \in Validators
       THEN LET w == OperatorAddress(v)
                paid == Truncated(val[w].commission)
            IN  /\ val' = [val EXCEPT ![w].commission = @ - paid, ![w].outstanding = @ - paid]
                /\ balance' = balance - paid
       ELSE UNCHANGED <<val, balance>>
    /\ IF todo = {v} THEN Goto("rewards", Delegations) ELSE Goto("commission", todo \ {v})
    /\ UNCHANGED <<forZeroHeight, allowed, ctxHeight, del, red, ubd, pool, past>>

AfterRewards(d) ==
    IF todo = {d} THEN Goto("delegations", Delegations) ELSE Goto("rewards", todo \ {d})

\* WithdrawDelegationRewards: the period ends, whole coins are sent, the rest
\* goes to the community pool and the delegation starts anew.
WithdrawRewards(d) ==
    /\ pc = "rewards" /\ d \in todo
    /\ LET v == del[d].val
           paid == Truncated(del[d].reward)
           ended == NextPeriod(val[v])
           left == [ended EXCEPT !.history = DecrementReference(@, del[d].period),
                                 !.outstanding = @ - del[d].reward]
       IN  /\ val' = [val EXCEPT ![v] = StartDelegation(left)]
           /\ del' = [del EXCEPT ![d] = [val |-> v, reward |-> 0, height |-> ctxHeight,
                                         period |-> left.period - 1]]
           /\ pool' = pool + (del[d].reward - paid)
           /\ balance' = balance - paid
    /\ AfterRewards(d)
    /\ UNCHANGED <<forZeroHeight, allowed, ctxHeight, red, ubd, past>>

\* Its errors are ignored too, and there is no cached context to drop: if it was
\* the coins that could not be sent, the period has ended all the same.
WithdrawRewardsFails(d) ==
    /\ pc = "rewards" /\ d \in todo
    /\ LET v == del[d].val
       IN  val' \in {val, [val EXCEPT ![v] = NextPeriod(val[v])]}
    /\ AfterRewards(d)
    /\ UNCHANGED <<forZeroHeight, allowed, ctxHeight, del, red, ubd, pool, balance, past>>

\* Hooks BeforeDelegationCreated and AfterDelegationModified; the old starting
\* point is overwritten and its reference kept.
ReinitDelegation(d) ==
    /\ pc = "delegations" /\ d \in todo
    /\ LET v == del[d].val
           ended == NextPeriod(val[v])
       IN  /\ val' = [val EXCEPT ![v] = StartDelegation(ended)]
           /\ del' = [del EXCEPT ![d].period = ended.period - 1, ![d].height = ctxHeight]
    /\ IF todo = {d} THEN Goto("clear", {}) ELSE Goto("delegations", todo \ {d})
    /\ UNCHANGED <<forZeroHeight, allowed, ctxHeight, red, ubd, pool, balance, past>>

\* A hook returns an error.
ReinitDelegationPanics == pc = "delegations" /\ Finish("panic")

\* DeleteAllValidatorHistoricalRewards, with the slash events.
ClearHistory ==
    /\ pc = "clear"
    /\ val' = [v \in Validators |-> [val[v] EXCEPT !.history = <<>>]]
    /\ Goto("validators", Validators)
    /\ UNCHANGED <<forZeroHeight, allowed, ctxHeight, del, red, ubd, pool, balance, past>>

\* Mutant: the scraps are those of the validator, the hook is still called with
\* the undecoded address.
ReinitValidatorHalfDecoded(v) ==
    /\ pc = "validators" /\ v \in todo
    /\ pool' = pool + val[v].outstanding
    /\ Goto("redelegations", {})
    /\ UNCHANGED <<forZeroHeight, allowed, ctxHeight, val, del, red, ubd, balance, past>>

\* Scraps to the community pool, then AfterValidatorCreated.  For an address
\* that is no validator's there are no scraps and the hook fails, which stops
\* the iteration; the error stays inside the callback.
ReinitValidator(v) ==
    /\ pc = "validators" /\ v \in todo
    /\ LET w == OperatorAddress(v)
       IN  IF w \in Validators
           THEN /\ pool' = pool + val[w].outstanding
                /\ val' = [val EXCEPT ![w] = [@ EXCEPT !.commission = 0, !.outstanding = 0,
                                                       !.period = 1, !.history = Put(<<>>, 0, 1)]]
                /\ IF todo = {v} THEN Goto("redelegations", {}) ELSE Goto("validators", todo \ {v})
           ELSE /\ UNCHANGED <<pool, val>>
                /\ Goto("redelegations", {})
    /\ UNCHANGED <<forZeroHeight, allowed, ctxHeight, del, red, ubd, balance, past>>

ResetRedelegations ==
    /\ pc = "redelegations"
    /\ red' = Zero(red)
    /\ Goto("unbondings", {})
    /\ UNCHANGED <<forZeroHeight, allowed, ctxHeight, distr, ubd, past>>

ResetUnbondings ==
    /\ pc = "unbondings"
    /\ ubd' = Zero(ubd)
    /\ Goto("bonds", Validators)
    /\ UNCHANGED <<forZeroHeight, allowed, ctxHeight, distr, red, past>>

\* SetRedelegation or SetUnbondingDelegation returns an error: iterErr.
SetEntryFails == pc \in {"redelegations", "unbondings"} /\ Finish("error")

\* Mutant: the list is not applied.
ResetBondUnlisted(v) ==
    /\ pc = "bonds" /\ v \in todo
    /\ val' = [val EXCEPT ![v].unbondingHeight = 0]
    /\ IF todo = {v} THEN Goto("apply", {}) ELSE Goto("bonds", todo \ {v})
    /\ UNCHANGED <<forZeroHeight, allowed, ctxHeight, del, red, ubd, pool, balance, past>>

\* The bond height and, with a list, the jailing of who is not on it.
ResetBond(v) ==
    /\ pc = "bonds" /\ v \in todo
    /\ val' = [val EXCEPT ![v].unbondingHeight = 0,
                          ![v].jailed = @ \/ (allowed # {} /\ v \notin allowed)]
    /\ IF todo = {v} THEN Goto("apply", {}) ELSE Goto("bonds", todo \ {v})
    /\ UNCHANGED <<forZeroHeight, allowed, ctxHeight, del, red, ubd, pool, balance, past>>

\* GetValidator or SetValidator returns an error.
ResetBondFails == pc = "bonds" /\ Finish("error")

\* iter.Close returns an error, which is logged, and the preparation returns nil:
\* neither the validator set nor the signing infos are touched.
CloseFails ==
    /\ pc = "apply"
    /\ Goto("modules", {})
    /\ closeFailed' = TRUE
    /\ UNCHANGED <<forZeroHeight, allowed, ctxHeight, distr, red, ubd, jailedBefore>>

\* ApplyAndReturnValidatorSetUpdates panics on a jailed validator in the part of
\* the power index that it walks; SetValidator has removed nobody from it.
ApplyValidatorSet ==
    /\ pc = "apply"
    /\ Jailed \cap Walked(val) = {}
    /\ Goto("signing", {})
    /\ UNCHANGED <<forZeroHeight, allowed, ctxHeight, distr, red, ubd, past>>
ApplyValidatorSetPanics ==
    /\ pc = "apply"
    /\ Jailed \cap Walked(val) # {}
    /\ Finish("panic")

\* log.Fatal when it returns an error.
ApplyValidatorSetFails == pc = "apply" /\ Finish("error")

\* Mutant: start heights are reset of who may be active.
ResetWalkedSigningInfos ==
    /\ pc = "signing"
    /\ val' = [v \in Validators |->
                  IF v \in Walked(val) THEN [val[v] EXCEPT !.startHeight = 0] ELSE val[v]]
    /\ Goto("modules", {})
    /\ UNCHANGED <<forZeroHeight, allowed, ctxHeight, del, red, ubd, pool, balance, past>>

ResetSigningInfos ==
    /\ pc = "signing"
    /\ val' = [v \in Validators |-> [val[v] EXCEPT !.startHeight = 0]]
    /\ Goto("modules", {})
    /\ UNCHANGED <<forZeroHeight, allowed, ctxHeight, del, red, ubd, pool, balance, past>>

SetSigningInfoFails == pc = "signing" /\ Finish("error")

\* ExportGenesisForModules, the encoding and WriteValidators.
ExportModules == pc = "modules" /\ Finish("ok")
ExportModulesFails == pc = "modules" /\ Finish("error")

Next ==
    \/ LoadHeight \/ LoadHeightFails \/ InvalidList \/ IterateFails
    \/ \E v \in Validators : WithdrawCommission(v) \/ ReinitValidator(v) \/ ResetBond(v)
    \/ \E d \in Delegations : WithdrawRewards(d) \/ WithdrawRewardsFails(d) \/ ReinitDelegation(d)
    \/ ReinitDelegationPanics \/ ClearHistory
    \/ ResetRedelegations \/ ResetUnbondings \/ SetEntryFails
    \/ ResetBondFails \/ CloseFails
    \/ ApplyValidatorSet \/ ApplyValidatorSetPanics \/ ApplyValidatorSetFails
    \/ ResetSigningInfos \/ SetSigningInfoFails
    \/ ExportModules \/ ExportModulesFails

Spec == Init /\ [][Next]_vars

-----------------------------------------------------------------------------
(* Properties                                                              *)

Exported == pc = "ok" /\ forZeroHeight

\* At every step the distribution account holds the community pool and the
\* outstanding rewards of all validators, to the fraction: otherwise the genesis
\* file is refused by the module that imports it.
HoldingsMatch == balance = pool + Outstanding(val)

\* A zero-height export that reports success has finished the resets behind its
\* many early returns: no redelegation, unbonding or bond keeps a height of the
\* old chain, no signing record does unless the iterator was not closed, and
\* exactly the validators off the list, candidates included, have been jailed in
\* addition.
StakingReset ==
    Exported =>
        /\ red = Zero(red) /\ ubd = Zero(ubd)
        /\ \A v \in Validators : val[v].unbondingHeight = 0
        /\ closeFailed \/ \A v \in Validators : val[v].startHeight = 0
        /\ Jailed = jailedBefore \cup (IF allowed = {} THEN {} ELSE Validators \ allowed)

\* A chain that starts from the file can account for every delegation: the
\* period it starts from, and the last one of every validator, are in the
\* history that is exported with them.
RewardPeriodsKept ==
    Exported =>
        /\ \A v \in Validators : (val[v].period - 1) \in DOMAIN val[v].history
        /\ \A d \in Delegations : del[d].period \in DOMAIN val[del[d].val].history

\* A validator that is jailed here stays in the power index, so a list that
\* leaves out an active validator never leads to an export: the command panics
\* or returns an error, and no file is written.  Only an iterator that was not
\* closed takes it past the check.
ActiveNeverUnlisted ==
    Exported /\ allowed # {} /\ ~closeFailed => Walked(val) \subseteq allowed

\* The rewritten state at every step of an export: the keepers' records have their
\* types, no reward period is referred to more often than the keeper allows, the
\* account is balanced, and what is exported in the end has been reset and holds no
\* active validator off the list.
Inv == TypeOK /\ HoldingsMatch /\ StakingReset /\ ActiveNeverUnlisted
=============================================================================
