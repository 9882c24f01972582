---------------------------- MODULE AdapterRegistry ----------------------------
(***************************************************************************)
(* registry.AdapterRegistry, the registration of one site.                 *)
(*                                                                         *)
(* A registration promises a contract: the capabilities of the adapters it *)
(* makes, and the schema version of their resume states.  A factory that   *)
(* does not declare its contract promises that of the first adapter it     *)
(* makes.  create() reads the registration, calls the factory without the  *)
(* lock, and compares what came out with the registration of that moment.  *)
(* Adapters that do not accept a context are wrapped, and cannot resume.   *)
(***************************************************************************)
EXTENDS Integers

CONSTANTS
  User,     \* the threads that call create()
  Factory,  \* what may be registered, see FactoryAssumption
  Ability,  \* what an adapter can do, resuming apart
  Default,  \* AdapterCapabilities(), the contract of those that declare none
  Override, \* what cursor_schema_version= may be
  MaxEpoch, \* bound: calls of register(replace=True)
  Nothing   \* what is not there

\* AdapterCapabilities; the version is that of the resume states.
Contract == [can : Ability, version : Nat \ {0}, resumes : BOOLEAN]

ASSUME RegistryAssumption ==
  /\ Default \in Contract /\ Default.version = 1 /\ ~Default.resumes
  /\ Override \subseteq Nat \ {0} /\ MaxEpoch \in Nat
\* makes: the contracts of the adapters it may make; declares: its own contract,
\* if it has one; context: its adapters' scrape() accepts a context; isClass:
\* register() can see that; bridged: legacy_adapter() was applied.
ASSUME FactoryAssumption ==
  \A f \in Factory :
    /\ f.makes \subseteq Contract /\ f.makes # {}
    /\ f.declares \subseteq Contract /\ f.declares \in {{}} \cup {{c} : c \in f.declares}
    /\ \A c \in f.makes \cup f.declares : ~c.resumes => c.version = 1
    /\ {f.context, f.isClass, f.bridged} \subseteq BOOLEAN

VARIABLES
  registration, \* _registrations[site]
  epoch,        \* history: how often it was registered
  step,         \* where the call of create() of each user is
  found,        \* the registration it found first
  produced      \* the adapter the factory made for it

registryVars == <<registration, epoch>>
createVars   == <<step, found, produced>>

\* _legacy_capabilities
Legacy(c) == [can |-> c.can, version |-> 1, resumes |-> FALSE]

\* A _LegacyAdapterFactory is around it from the start.
Bridged(f) == f.bridged \/ (f.isClass /\ ~f.context)

Declared(f) == f.declares # {}

\* register(): what _Registration says of factory f.  wraps counts the bridges
\* around the factory; expects is what the outermost one was declared to wrap.
Promise(f) == CHOOSE c \in f.declares \cup {Default} : Declared(f) => c \in f.declares

Registration(f, override) ==
  LET contract == IF Bridged(f) THEN Legacy(Promise(f)) ELSE Promise(f) IN
  [factory |-> f, wraps |-> IF Bridged(f) THEN 1 ELSE 0, expects |-> f.declares,
   contract |-> contract, declared |-> Declared(f),
   version |-> IF override = {} THEN contract.version ELSE CHOOSE v \in override : TRUE,
   overridden |-> override # {}]

\* An override may not contradict what an adapter class declares.
Consistent(f, override) ==
  override = {} \/ ~Declared(f) \/ Bridged(f) \/ override = {Promise(f).version}

Overrides == {{}} \cup {{v} : v \in Override}

Registrations ==
  {Registration(p[1], p[2]) : p \in {q \in Factory \X Overrides : Consistent(q[1], q[2])}}

\* What streams validate a checkpoint with, before any adapter is created.
CursorSchemaVersion == registration.version

\* register(site, factory, replace=True)
Replace ==
  /\ epoch < MaxEpoch
  /\ registration' \in Registrations
  /\ epoch' = epoch + 1
  /\ UNCHANGED createVars

-------------------------------------------------------------------------------
\* create()

Find(u) ==
  /\ step[u] = "idle"
  /\ found' = [found EXCEPT ![u] = registration]
  /\ step' = [step EXCEPT ![u] = "making"]
  /\ UNCHANGED <<registryVars, produced>>

\* What the factory of registration r hands out when its adapter has contract c.
Inner(r, c)    == IF r.wraps = 2 THEN Legacy(c) ELSE c
Bears(r, c)    == r.wraps = 0 \/ r.expects = {} \/ r.expects = {Inner(r, c)}
Product(r, c)  == [contract |-> IF r.wraps = 0 THEN c ELSE Legacy(c),
                   context  |-> r.wraps > 0 \/ r.factory.context]

\* Two calls of one factory may make different adapters.
Make(u) ==
  /\ step[u] = "making"
  /\ \E c \in found[u].factory.makes :
       /\ Bears(found[u], c)
       /\ produced' = [produced EXCEPT ![u] = Product(found[u], c)]
  /\ step' = [step EXCEPT ![u] = "made"]
  /\ UNCHANGED <<registryVars, found>>

\* create() is over.
Leave(u) ==
  /\ step' = [step EXCEPT ![u] = "idle"]
  /\ found' = [found EXCEPT ![u] = Nothing]
  /\ produced' = [produced EXCEPT ![u] = Nothing]

\* The bridge finds another adapter than it was declared to wrap.
MakeRefused(u) ==
  /\ step[u] = "making"
  /\ \E c \in found[u].factory.makes : ~Bears(found[u], c)
  /\ Leave(u)
  /\ UNCHANGED registryVars

\* Mutant: goes on with the registration it found first.
CurrentMutantFound(u) == found[u]
Current(u) == registration

Effective(a) == IF a.context THEN a.contract ELSE Legacy(a.contract)

\* Mutant: an undeclared factory may make any resume states.
SchemaFitsMutantAlways(r, a) == TRUE

\* The schema version of an adapter that resumes is the one that checkpoints are
\* validated with; a wrapped one may be registered under an older version.
SchemaFits(r, a) ==
  \/ r.declared
  \/ a.contract.version = r.version
  \/ ~a.context /\ r.overridden

ContractFits(r, a) == r.declared => Effective(a) = r.contract

Fits(u) == SchemaFits(Current(u), produced[u]) /\ ContractFits(Current(u), produced[u])

\* The registration after adapter a was the first it made.
Adopted(r, a) ==
  IF r.declared THEN r
  ELSE [r EXCEPT !.contract = Effective(a), !.declared = TRUE,
                 !.wraps    = IF a.context THEN @ ELSE @ + 1,
                 !.expects  = IF a.context THEN @ ELSE {a.contract}]

\* create() returns the adapter, wrapped if need be.
Accept(u) ==
  /\ step[u] = "made" /\ Fits(u)
  /\ registration' = Adopted(Current(u), produced[u])
  /\ Leave(u)
  /\ UNCHANGED epoch

\* TypeError
Refuse(u) ==
  /\ step[u] = "made" /\ ~Fits(u)
  /\ Leave(u)
  /\ UNCHANGED registryVars

RegistryInit ==
  /\ registration \in Registrations
  /\ epoch = 0
  /\ step = [u \in User |-> "idle"]
  /\ found = [u \in User |-> Nothing]
  /\ produced = [u \in User |-> Nothing]
================================================================================
