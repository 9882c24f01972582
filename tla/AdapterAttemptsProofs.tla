------------------------- MODULE AdapterAttemptsProofs -------------------------
(***************************************************************************)
(* Proofs about AdapterAttempts, for any factories, streams, errors,       *)
(* answers of the boards and number of registrations and retries: create() *)
(* never mixes two contracts, a resume state meets an adapter of its own   *)
(* schema version, and what may pass is retried in time.                   *)
(***************************************************************************)
EXTENDS AdapterAttempts, TLAPS

-------------------------------------------------------------------------------
\* Contracts and resume states.  A registration that promises resume states
\* promises them in the version checkpoints are validated with, and no create()
\* changes that version; only register() does, and it begins a new epoch.

ARegistration ==
  [factory : Factory, wraps : Nat, expects : SUBSET Contract, contract : Contract,
   declared : BOOLEAN, version : Nat \ {0}, overridden : BOOLEAN]

AProduct == [contract : Contract, context : BOOLEAN]

RegistryTypes ==
  /\ registration \in ARegistration
  /\ epoch \in Nat

CreateTypes ==
  /\ step \in [User -> {"idle", "making", "made"}]
  /\ DOMAIN found = User /\ DOMAIN produced = User
  /\ \A u \in User : step[u] = "making" => found[u] \in ARegistration
  /\ \A u \in User : step[u] = "made" => produced[u] \in AProduct

WorkerTypes ==
  /\ DOMAIN place = User /\ DOMAIN schema = User /\ DOMAIN given = User
  /\ openedAt \in [User -> Nat]
  /\ \A h \in handed : h.epoch \in Nat

\* What may resume is promised in the version of the registration.
Promised(r) == r.declared /\ r.contract.resumes => r.contract.version = r.version

\* Nothing is of an epoch that has not begun.
EpochInv ==
  /\ \A h \in handed : h.epoch <= epoch
  /\ \A u \in User : openedAt[u] <= epoch

\* In the epoch a stream was opened its version is that of the registration.
OpenedInv ==
  \A u \in User : place[u] # "new" /\ openedAt[u] = epoch => schema[u] = registration.version

IInv ==
  /\ RegistryTypes /\ CreateTypes /\ WorkerTypes
  /\ Promised(registration) /\ EpochInv /\ OpenedInv
  /\ OneContract /\ ResumeStateFits

-------------------------------------------------------------------------------
LEMMA LegacyType ==
  ASSUME NEW c \in Contract
  PROVE  Legacy(c) \in Contract /\ Legacy(c).version = 1 /\ Legacy(c).resumes = FALSE
  BY DEF Legacy, Contract

\* A declared contract is the only member of declares.
LEMMA PromiseType ==
  ASSUME NEW f \in Factory
  PROVE  /\ Promise(f) \in Contract
         /\ Declared(f) => f.declares = {Promise(f)}
  <1>1. CASE Declared(f)
    <2>1. PICK c \in f.declares : f.declares = {c}
      BY <1>1, FactoryAssumption DEF Declared
    <2>2. Promise(f) = c
      BY <1>1, <2>1 DEF Promise
    <2> QED BY <2>1, <2>2, FactoryAssumption
  <1>2. CASE ~Declared(f)
    <2>1. Promise(f) = Default
      BY <1>2 DEF Promise, Declared
    <2> QED BY <1>2, <2>1, RegistryAssumption
  <1> QED BY <1>1, <1>2

\* register() makes a registration that keeps its promise.
LEMMA RegistrationsType ==
  ASSUME NEW r \in Registrations
  PROVE  r \in ARegistration /\ Promised(r)
  <1>1. PICK f \in Factory, override \in Overrides :
          r = Registration(f, override) /\ Consistent(f, override)
    BY DEF Registrations
  <1> DEFINE contract == IF Bridged(f) THEN Legacy(Promise(f)) ELSE Promise(f)
  <1>2. contract \in Contract /\ (Bridged(f) => ~contract.resumes)
    BY PromiseType, LegacyType
  <1>3. override = {} \/ \E v \in Nat \ {0} : override = {v}
    BY RegistryAssumption DEF Overrides
  <1> DEFINE version == IF override = {} THEN contract.version ELSE CHOOSE v \in override : TRUE
  <1>4. version \in Nat \ {0} /\ (override # {} => override = {version})
    BY <1>2, <1>3 DEF Contract
  <1>5. r = [factory |-> f, wraps |-> IF Bridged(f) THEN 1 ELSE 0, expects |-> f.declares,
             contract |-> contract, declared |-> Declared(f), version |-> version,
             overridden |-> override # {}]
    BY <1>1 DEF Registration
  <1>6. f.declares \in SUBSET Contract /\ Declared(f) \in BOOLEAN
    BY FactoryAssumption DEF Declared
  <1>7. r \in ARegistration
    BY <1>2, <1>4, <1>5, <1>6 DEF ARegistration
  <1>8. Promised(r)
    <2> SUFFICES ASSUME Declared(f), contract.resumes PROVE contract.version = version
      BY <1>5 DEF Promised
    <2>1. contract = Promise(f) /\ ~Bridged(f)
      BY <1>2
    <2>2. CASE override = {}
      BY <2>2
    <2>3. CASE override = {Promise(f).version}
      BY <1>4, <2>1, <2>3
    <2> QED BY <1>1, <2>1, <2>2, <2>3 DEF Consistent
  <1> QED BY <1>7, <1>8

LEMMA ProductType ==
  ASSUME NEW r \in ARegistration, NEW c \in r.factory.makes
  PROVE  Product(r, c) \in AProduct
  <1>1. c \in Contract /\ r.factory.context \in BOOLEAN
    BY FactoryAssumption DEF ARegistration
  <1>2. (IF r.wraps = 0 THEN c ELSE Legacy(c)) \in Contract
    BY <1>1, LegacyType
  <1>3. (r.wraps > 0 \/ r.factory.context) \in BOOLEAN
    OBVIOUS
  <1> QED BY <1>2, <1>3 DEF Product, AProduct

\* What create() hands out is what the registration says from then on.
LEMMA AdoptedType ==
  ASSUME NEW r \in ARegistration, NEW a \in AProduct, Promised(r),
         SchemaFits(r, a), ContractFits(r, a)
  PROVE  /\ Adopted(r, a) \in ARegistration
         /\ Promised(Adopted(r, a))
         /\ Adopted(r, a).declared /\ Adopted(r, a).contract = Effective(a)
         /\ Adopted(r, a).version = r.version
         /\ Effective(a).resumes => Effective(a).version = r.version
         /\ r.declared => Adopted(r, a) = r
  <1>1. Effective(a) \in Contract /\ (Effective(a).resumes => a.context /\ Effective(a) = a.contract)
    BY LegacyType DEF Effective, AProduct
  <1>2. CASE r.declared
    <2>1. Adopted(r, a) = r /\ Effective(a) = r.contract
      BY <1>2 DEF Adopted, ContractFits
    <2> QED BY <1>1, <1>2, <2>1 DEF Promised
  <1>3. CASE ~r.declared
    <2>1. Effective(a).resumes => Effective(a).version = r.version
      BY <1>1, <1>3 DEF SchemaFits
    <2> DEFINE wraps == IF a.context THEN r.wraps ELSE r.wraps + 1
               expects == IF a.context THEN r.expects ELSE {a.contract}
    <2>2. Adopted(r, a) =
            [r EXCEPT !.contract = Effective(a), !.declared = TRUE,
                      !.wraps = wraps, !.expects = expects]
      BY <1>3 DEF Adopted, ARegistration
    <2>3. wraps \in Nat /\ expects \in SUBSET Contract
      BY DEF ARegistration, AProduct
    <2> HIDE DEF wraps, expects
    <2>4. /\ Adopted(r, a) \in ARegistration
          /\ Adopted(r, a).declared /\ Adopted(r, a).contract = Effective(a)
          /\ Adopted(r, a).version = r.version
      BY <1>1, <2>2, <2>3 DEF ARegistration
    <2> QED BY <1>3, <2>1, <2>4 DEF Promised
  <1> QED BY <1>2, <1>3

-------------------------------------------------------------------------------
LEMMA IInvInit == Init => IInv
  <1> SUFFICES ASSUME Init PROVE IInv
    OBVIOUS
  <1>1. RegistryTypes /\ Promised(registration)
    BY RegistrationsType DEF Init, RegistryInit, RegistryTypes
  <1>2. CreateTypes /\ WorkerTypes /\ EpochInv /\ OpenedInv
    BY DEF Init, RegistryInit, CreateTypes, WorkerTypes, EpochInv, OpenedInv
  <1>3. OneContract /\ ResumeStateFits
    BY DEF Init, OneContract, ResumeStateFits
  <1> QED BY <1>1, <1>2, <1>3 DEF IInv

\* A step of one user that changes neither the registry nor what is handed out.
LEMMA QuietStep ==
  ASSUME IInv, NEW u \in User,
         UNCHANGED <<registration, epoch, handed, schema, openedAt>>,
         place[u] # "new",
         \A v \in User : place[v] = "new" => place'[v] = "new",
         \A v \in User : place'[v] = "scraping" => place[v] = "scraping" /\ given'[v] = given[v],
         DOMAIN place' = User, DOMAIN given' = User, CreateTypes'
  PROVE  IInv'
  <1>1. RegistryTypes' /\ Promised(registration)'
    BY DEF IInv, RegistryTypes, Promised
  <1>2. WorkerTypes'
    BY DEF IInv, WorkerTypes
  <1>3. EpochInv'
    BY DEF IInv, EpochInv
  <1>4. OpenedInv'
    BY DEF IInv, OpenedInv
  <1>5. OneContract' /\ ResumeStateFits'
    BY DEF IInv, OneContract, ResumeStateFits
  <1> QED BY <1>1, <1>2, <1>3, <1>4, <1>5 DEF IInv

LEMMA CreateStep ==
  ASSUME IInv, NEW u \in User, Find(u) \/ Make(u) \/ Leave(u)
  PROVE  CreateTypes'
  <1>1. CASE Find(u)
    BY <1>1 DEF Find, IInv, RegistryTypes, CreateTypes
  <1>2. CASE Make(u)
    <2>1. PICK c \in found[u].factory.makes :
            produced' = [produced EXCEPT ![u] = Product(found[u], c)]
      BY <1>2 DEF Make
    <2>2. Product(found[u], c) \in AProduct
      BY <1>2, <2>1, ProductType DEF Make, IInv, CreateTypes
    <2> QED BY <1>2, <2>1, <2>2 DEF Make, IInv, CreateTypes
  <1>3. CASE Leave(u)
    BY <1>3 DEF Leave, IInv, CreateTypes
  <1> QED BY <1>1, <1>2, <1>3

LEMMA RaisesStep ==
  ASSUME IInv, NEW u \in User, NEW f, Raises(u, f), place[u] # "new",
         UNCHANGED registryVars, CreateTypes'
  PROVE  IInv'
  <1>1. \/ place' = [place EXCEPT ![u] = "waiting"]
        \/ place' = [place EXCEPT ![u] = "failed"]
    BY DEF Raises, GoTo
  <1>2. given' = [given EXCEPT ![u] = Nothing] /\ UNCHANGED <<schema, openedAt, handed>>
    BY DEF Raises
  <1>3. UNCHANGED <<registration, epoch>>
    BY DEF registryVars
  <1>4. DOMAIN place = User /\ DOMAIN given = User
    BY DEF IInv, WorkerTypes
  <1> QED BY <1>1, <1>2, <1>3, <1>4, QuietStep

LEMMA AttemptKeeps ==
  ASSUME IInv, NEW u \in User, AttemptStep(u)
  PROVE  IInv'
  <1> USE DEF GoTo, registryVars, createVars
  <1>0. DOMAIN place = User /\ DOMAIN given = User /\ CreateTypes
    BY DEF IInv, WorkerTypes
  <1>c. UNCHANGED createVars => CreateTypes'
    BY <1>0 DEF CreateTypes
  <1>1. CASE Open(u)
    <2>1. RegistryTypes' /\ Promised(registration)' /\ CreateTypes'
      BY <1>1, <1>c DEF Open, IInv, RegistryTypes, Promised
    <2>2. WorkerTypes' /\ EpochInv' /\ OpenedInv'
      BY <1>1 DEF Open, IInv, RegistryTypes, WorkerTypes, EpochInv, OpenedInv, CursorSchemaVersion
    <2>3. OneContract' /\ ResumeStateFits'
      BY <1>1 DEF Open, IInv, WorkerTypes, OneContract, ResumeStateFits
    <2> QED BY <2>1, <2>2, <2>3 DEF IInv
  <1>2. CASE BeginCreate(u)
    <2>1. CreateTypes' /\ UNCHANGED <<registration, epoch>>
      BY <1>2, CreateStep DEF BeginCreate, Find
    <2> QED BY <1>0, <1>2, <2>1, QuietStep DEF BeginCreate, workerVars
  <1>3. CASE FactoryReturns(u)
    <2>1. CreateTypes' /\ UNCHANGED <<registration, epoch>>
      BY <1>3, CreateStep DEF FactoryReturns, Make
    <2> QED BY <1>0, <1>3, <2>1, QuietStep DEF FactoryReturns, workerVars
  <1>4. CASE FactoryRaises(u)
    BY <1>4, CreateStep, RaisesStep DEF FactoryRaises
  <1>5. CASE CreateRefuses(u)
    <2>1. Leave(u) /\ UNCHANGED registryVars
      BY <1>5 DEF CreateRefuses, MakeRefused, Refuse
    <2> QED BY <1>5, <2>1, CreateStep, RaisesStep DEF CreateRefuses
  <1>6. CASE StartScrape(u)
    <2> DEFINE handedOut == [contract |-> Effective(produced[u]), epoch |-> epoch]
    <2>1. produced[u] \in AProduct /\ registration \in ARegistration /\ epoch \in Nat
      BY <1>6 DEF StartScrape, Accept, IInv, RegistryTypes, CreateTypes
    <2>2. registration' = Adopted(registration, produced[u]) /\ UNCHANGED epoch
      BY <1>6 DEF StartScrape, Accept, Current
    <2>3. /\ registration' \in ARegistration /\ Promised(registration')
          /\ registration'.declared /\ registration'.contract = Effective(produced[u])
          /\ registration'.version = registration.version
          /\ Effective(produced[u]).resumes => Effective(produced[u]).version = registration.version
          /\ registration.declared => registration' = registration
      BY <1>6, <2>1, <2>2, AdoptedType DEF StartScrape, Accept, Fits, Current, IInv
    <2>4. /\ place' = [place EXCEPT ![u] = "scraping"] /\ place[u] = "creating"
          /\ given' = [given EXCEPT ![u] = handedOut] /\ handed' = handed \cup {handedOut}
          /\ UNCHANGED <<schema, openedAt>>
      BY <1>6 DEF StartScrape
    <2>5. handedOut.contract = Effective(produced[u]) /\ handedOut.epoch = epoch
      OBVIOUS
    <2> HIDE DEF handedOut
    <2>6. CreateTypes'
      BY <1>6, CreateStep DEF StartScrape, Accept
    <2>7. RegistryTypes' /\ Promised(registration)'
      BY <2>1, <2>2, <2>3 DEF RegistryTypes, Promised
    <2>8. WorkerTypes' /\ EpochInv' /\ OpenedInv'
      BY <2>1, <2>2, <2>3, <2>4, <2>5 DEF IInv, WorkerTypes, EpochInv, OpenedInv
    <2>9. OneContract'
      BY <2>2, <2>3, <2>4, <2>5 DEF IInv, OneContract
    <2>10. ResumeStateFits'
      BY <2>3, <2>4, <2>5, <1>0 DEF IInv, ResumeStateFits, OpenedInv
    <2> QED BY <2>6, <2>7, <2>8, <2>9, <2>10 DEF IInv
  <1>7. CASE ScrapeReturns(u)
    BY <1>0, <1>7, <1>c, QuietStep DEF ScrapeReturns
  <1>8. CASE ScrapeRaises(u)
    BY <1>8, <1>c, RaisesStep DEF ScrapeRaises
  <1>9. CASE Retry(u)
    BY <1>0, <1>9, <1>c, QuietStep DEF Retry
  <1> QED BY <1>1, <1>2, <1>3, <1>4, <1>5, <1>6, <1>7, <1>8, <1>9 DEF AttemptStep

\* register() begins an epoch nothing is of yet.
LEMMA ReplaceKeeps ==
  ASSUME IInv, Replace, UNCHANGED <<workerVars, handed>>
  PROVE  IInv'
  <1> USE DEF workerVars, createVars
  <1>1. RegistryTypes' /\ Promised(registration)'
    BY RegistrationsType DEF Replace, IInv, RegistryTypes
  <1>2. CreateTypes'
    BY DEF Replace, IInv, CreateTypes
  <1>3. epoch' = epoch + 1 /\ epoch \in Nat
    BY DEF Replace, IInv, RegistryTypes
  <1>4. WorkerTypes' /\ EpochInv' /\ OpenedInv' /\ OneContract' /\ ResumeStateFits'
    BY <1>3 DEF IInv, WorkerTypes, EpochInv, OpenedInv, OneContract, ResumeStateFits
  <1> QED BY <1>1, <1>2, <1>4 DEF IInv

LEMMA IInvStep == IInv /\ [Next]_vars => IInv'
  <1> SUFFICES ASSUME IInv, [Next]_vars PROVE IInv'
    OBVIOUS
  <1>1. CASE \E u \in User : AttemptStep(u)
    BY <1>1, AttemptKeeps
  <1>2. CASE Replace /\ UNCHANGED <<workerVars, handed>>
    BY <1>2, ReplaceKeeps
  <1>3. CASE UNCHANGED vars
    BY <1>3 DEF vars, registryVars, createVars, workerVars, IInv, RegistryTypes, CreateTypes,
                WorkerTypes, Promised, EpochInv, OpenedInv, OneContract, ResumeStateFits
  <1> QED BY <1>1, <1>2, <1>3 DEF Next

LEMMA IInvHolds == Spec => []IInv
  BY IInvInit, IInvStep, PTL DEF Spec

-------------------------------------------------------------------------------
\* Whatever streams call create() at once, and whatever is registered meanwhile,
\* all adapters handed out since the last register() have the contract the
\* registration has now.
THEOREM OneContractAlways == Spec => []OneContract
  <1>1. IInv => OneContract
    BY DEF IInv
  <1> QED BY <1>1, IInvHolds, PTL

\* An adapter that resumes gets a resume state of its own schema version, unless
\* its factory was replaced since the stream was opened.
THEOREM ResumeStateAlwaysFits == Spec => []ResumeStateFits
  <1>1. IInv => ResumeStateFits
    BY DEF IInv
  <1> QED BY <1>1, IInvHolds, PTL

-------------------------------------------------------------------------------
\* Failures.  On the way from a request through the adapter of its board and
\* the classification, a failure becomes retryable only if it may pass by itself,
\* always unless its kind is lost, and brings the time its board asked for unless
\* that is lost; a stream then retries it, after that time, until it has no retry
\* left.  What is lost, and where, is Lost.

LEMMA InfoFields ==
  ASSUME NEW code, NEW after
  PROVE  /\ Info(code, after).retryable <=> code \in Retryable
         /\ Info(code, after).after = after
  <1>1. Info(code, after).retryable = (code \in Retryable)
    BY ZenonT(60) DEF Info
  <1>2. Info(code, after).retryable <=> code \in Retryable
    BY Zenon, <1>1
  <1>3. Info(code, after).after = after
    BY DEF Info
  <1> QED BY <1>2, <1>3

\* No time to wait, or the one the board asked for.
AfterOf(status, raw) == IF status \in Passing THEN ParseRetryAfter(raw) ELSE {}

LEMMA StatusFlags ==
  ASSUME NEW status \in Int, NEW cursor \in BOOLEAN, NEW raw
  PROVE  /\ StatusInfo(status, cursor, raw).retryable <=> status \in Passing
         /\ StatusInfo(status, cursor, raw).after = AfterOf(status, raw)
  <1>1. CASE status \in Passing
    <2>1. PICK code \in Retryable :
            StatusInfo(status, cursor, raw) = Info(code, ParseRetryAfter(raw))
      BY <1>1 DEF StatusInfo, Passing, Retryable
    <2> QED BY <1>1, <2>1, InfoFields DEF AfterOf
  <1>2. CASE status \notin Passing
    <2>1. PICK code \in {"authentication_configuration", "cursor_expired", "invalid_request",
                         "adapter_failure"} : StatusInfo(status, cursor, raw) = Info(code, {})
      BY <1>2 DEF StatusInfo, Passing
    <2>2. code \notin Retryable
      BY DEF Retryable
    <2> QED BY <1>2, <2>1, <2>2, InfoFields DEF AfterOf
  <1> QED BY <1>1, <1>2

LEMMA MessageFlags ==
  ASSUME NEW says, NEW cursor \in BOOLEAN
  PROVE  /\ MessageInfo(says, cursor).retryable <=> says = "rate limit"
         /\ MessageInfo(says, cursor).after = {}
  <1>1. CASE says = "rate limit"
    BY <1>1, InfoFields DEF MessageInfo, Retryable
  <1>2. CASE says # "rate limit"
    <2>1. PICK code \in {"authentication_configuration", "cursor_expired", "adapter_failure"} :
            MessageInfo(says, cursor) = Info(code, {})
      BY <1>2 DEF MessageInfo
    <2>2. code \notin Retryable
      BY DEF Retryable
    <2> QED BY <1>2, <2>1, <2>2, InfoFields
  <1> QED BY <1>1, <1>2

\* What an error of a board says about retries and their delay.
Tells(board, end, e) ==
  LET f == [board |-> board, end |-> end, error |-> e] IN
  /\ Classify(e).retryable => MayPass(f)
  /\ MayPass(f) => Classify(e).retryable \/ "kind" \in Lost(f)
  /\ Asked(f) \in {{}, end.after}
  /\ \/ Classify(e).after = ParseRetryAfter(end.after)
     \/ Classify(e).after = {} /\ (Asked(f) = {} \/ "time" \in Lost(f))

\* Only a connection lost in the middle of a body loses its kind, only BDJobs and
\* errors that are said in a body lose the time to wait.
LEMMA WhatIsLost ==
  ASSUME NEW f
  PROVE  /\ "kind" \in Lost(f) <=> f.end.end = "cut" /\ f.board \notin TlsBoards
         /\ "time" \in Lost(f) <=> f.board = "bdjobs" \/ f.error.carrier = "message"
  BY DEF Lost, When

LEMMA EndShape ==
  ASSUME NEW end \in Ends
  PROVE  \/ end.end = "answer" /\ end.status \in Int
         \/ end.end \in {"network", "config", "cut"} /\ end.status = 0 /\ end.after = {}
  <1>1. CASE end \in Answers
    <2>1. end.end = "answer" /\ end.status \in Statuses
      BY <1>1 DEF Answers
    <2>2. end.status \in 100..599
      BY <2>1, RequestAssumption
    <2>3. end.status \in Int
      BY <2>2
    <2> QED BY <2>1, <2>3
  <1>2. CASE end \in Breaks
    <2>1. end.end \in {"network", "config", "cut"} /\ end.status \in {0} /\ end.after \in {{}}
      BY <1>2 DEF Breaks
    <2> QED BY <2>1
  <1> QED BY <1>1, <1>2 DEF Ends

LEMMA BreakTells ==
  ASSUME NEW end \in Ends, NEW board \in Boards,
         NEW isTls \in BOOLEAN, isTls <=> board \in TlsBoards, NEW e \in Break(end, isTls)
  PROVE  Tells(board, end, e)
  <1> DEFINE f == [board |-> board, end |-> end, error |-> e]
  <1>1. /\ end.end \in {"network", "config", "cut"} /\ end.status = 0 /\ end.after = {}
        /\ e = [carrier |-> IF isTls THEN "network" ELSE end.end]
    BY EndShape DEF Break, When
  <1>2. Asked(f) = {} /\ 0 \notin Passing
    BY <1>1 DEF Asked, Passing
  <1>3. MayPass(f) <=> e.carrier \in {"network", "cut"}
    BY <1>1, <1>2 DEF MayPass
  <1>4. ParseRetryAfter(end.after) = {}
    BY <1>1 DEF ParseRetryAfter
  <1>5. CASE e.carrier = "network"
    <2>1. Classify(e) = Info("transient_network", {})
      BY <1>5 DEF Classify
    <2>2. Classify(e).retryable /\ Classify(e).after = {}
      BY <2>1, InfoFields DEF Retryable
    <2> QED BY <1>1, <1>2, <1>3, <1>4, <1>5, <2>2 DEF Tells
  <1>6. CASE e.carrier = "config"
    <2>1. Classify(e) = Info("authentication_configuration", {})
      BY <1>6 DEF Classify
    <2>2. ~Classify(e).retryable /\ Classify(e).after = {}
      BY <2>1, InfoFields DEF Retryable
    <2> QED BY <1>1, <1>2, <1>3, <1>4, <1>6, <2>2 DEF Tells
  <1>7. CASE e.carrier = "cut"
    <2>1. Classify(e) = Info("adapter_failure", {})
      BY <1>7 DEF Classify
    <2>2. ~Classify(e).retryable /\ Classify(e).after = {}
      BY <2>1, InfoFields DEF Retryable
    <2>3. end.end = "cut" /\ board \notin TlsBoards
      BY <1>1, <1>7
    <2>4. "kind" \in Lost(f)
      BY <2>3, WhatIsLost
    <2> QED BY <1>1, <1>2, <1>3, <1>4, <1>7, <2>2, <2>4 DEF Tells
  <1> QED BY <1>1, <1>5, <1>6, <1>7

\* Errors of a status: typed, of the requests library, or, of BDJobs, a text.
LEMMA StatusTells ==
  ASSUME NEW end \in Ends, NEW board \in Boards, NEW cursor \in BOOLEAN, NEW e,
         end.end = "answer", e.carrier # "message",
         \/ Classify(e) = StatusInfo(end.status, cursor, end.after)
         \/ board = "bdjobs" /\ Classify(e) = StatusInfo(end.status, cursor, {})
  PROVE  Tells(board, end, e)
  <1> DEFINE f == [board |-> board, end |-> end, error |-> e]
  <1>1. end.status \in Int
    BY EndShape
  <1>2. MayPass(f) <=> end.status \in Passing
    BY DEF MayPass
  <1>3. Asked(f) = IF end.status \in Passing THEN end.after ELSE {}
    BY <1>2 DEF Asked
  <1>4. ParseRetryAfter({}) = {}
    BY DEF ParseRetryAfter
  <1>5. CASE Classify(e) = StatusInfo(end.status, cursor, end.after)
    BY <1>1, <1>2, <1>3, <1>4, <1>5, StatusFlags DEF Tells, AfterOf
  <1>6. CASE board = "bdjobs" /\ Classify(e) = StatusInfo(end.status, cursor, {})
    <2>1. "time" \in Lost(f)
      BY <1>6, WhatIsLost
    <2>2. Classify(e).after = {}
      BY <1>1, <1>4, <1>6, StatusFlags DEF AfterOf
    <2>3. Classify(e).retryable <=> MayPass(f)
      BY <1>1, <1>2, <1>6, StatusFlags
    <2> QED BY <1>3, <2>1, <2>2, <2>3 DEF Tells
  <1> QED BY <1>5, <1>6

LEMMA UnservedTells ==
  ASSUME NEW end \in Ends, NEW board \in Boards, NEW served, NEW token \in BOOLEAN,
         NEW e \in Unserved(end, served, token)
  PROVE  Tells(board, end, e)
  <1>1. /\ end.end = "answer"
        /\ e = [carrier |-> "typed", status |-> end.status, cursor |-> token, after |-> end.after]
    BY DEF Unserved, When
  <1>2. Classify(e) = StatusInfo(end.status, token, end.after) /\ e.carrier = "typed"
    BY <1>1 DEF Classify
  <1> QED BY <1>1, <1>2, StatusTells

\* Errors of a body, of an answer whose status is fine.
Fine == {Served, 100..399, {200}}

LEMMA FineAnswers ==
  ASSUME NEW end \in Ends, NEW served \in Fine, Answered(end, served)
  PROVE  end.end = "answer" /\ end.status \notin Passing
  <1>1. end.end = "answer" /\ end.status \in served /\ served \subseteq 100..399
    BY DEF Answered, Fine, Served
  <1>2. end.status \in 100..399
    BY <1>1
  <1>3. \A status \in 100..399 : status \notin Passing
    BY SMTT(30) DEF Passing
  <1> QED BY <1>1, <1>2, <1>3

LEMMA ValueTells ==
  ASSUME NEW end \in Ends, NEW board \in Boards, NEW served \in Fine, Answered(end, served)
  PROVE  Tells(board, end, Value)
  <1> DEFINE f == [board |-> board, end |-> end, error |-> Value]
  <1>1. end.end = "answer" /\ end.status \notin Passing
    BY FineAnswers
  <1>2. ~MayPass(f) /\ Asked(f) = {}
    BY <1>1 DEF MayPass, Asked, Value
  <1>3. Classify(Value) = Info("invalid_request", {})
    BY DEF Classify, Value
  <1>4. ~Classify(Value).retryable /\ Classify(Value).after = {}
    BY <1>3, InfoFields DEF Retryable
  <1> QED BY <1>2, <1>4 DEF Tells

LEMMA NotJsonTells ==
  ASSUME NEW end \in Ends, NEW board \in Boards, NEW served \in Fine,
         NEW e \in NotJson(end, served)
  PROVE  Tells(board, end, e)
  <1>1. Answered(end, served) /\ e = Value
    BY DEF NotJson, When
  <1> QED BY <1>1, ValueTells

LEMMA SaidErrorTells ==
  ASSUME NEW end \in Ends, NEW board \in Boards, NEW served \in Fine, NEW token \in BOOLEAN,
         NEW e \in SaidError(end, served, token)
  PROVE  Tells(board, end, e)
  <1> DEFINE f == [board |-> board, end |-> end, error |-> e]
  <1>1. /\ Answered(end, served)
        /\ e = [carrier |-> "message", says |-> end.says, cursor |-> token]
    BY DEF SaidError, When
  <1>2. end.end = "answer" /\ end.status \notin Passing
    BY <1>1, FineAnswers
  <1>3. /\ MayPass(f) <=> end.says = "rate limit"
        /\ Asked(f) \in {{}, end.after} /\ "time" \in Lost(f)
    BY <1>1, <1>2, WhatIsLost DEF MayPass, Asked
  <1>4. Classify(e) = MessageInfo(end.says, token)
    BY <1>1 DEF Classify
  <1>5. MessageInfo(end.says, token).retryable <=> end.says = "rate limit"
    BY MessageFlags
  <1>6. Classify(e).retryable <=> end.says = "rate limit"
    BY Zenon, <1>4, <1>5
  <1>7. Classify(e).after = {}
    BY <1>4, MessageFlags
  <1> QED BY <1>3, <1>6, <1>7 DEF Tells

LEMMA HttpTells ==
  ASSUME NEW end \in Ends, NEW board \in Boards, NEW e,
         end.end = "answer", board = "bdjobs" \/ e.carrier = "http",
         \/ e = [carrier |-> "http", status |-> end.status, after |-> end.after]
         \/ e = [carrier |-> "text", status |-> end.status]
  PROVE  Tells(board, end, e)
  <1>1. CASE e = [carrier |-> "http", status |-> end.status, after |-> end.after]
    <2>1. Classify(e) = StatusInfo(end.status, FALSE, end.after) /\ e.carrier = "http"
      BY <1>1 DEF Classify
    <2> QED BY <2>1, StatusTells
  <1>2. CASE e = [carrier |-> "text", status |-> end.status]
    <2>1. Classify(e) = StatusInfo(end.status, FALSE, {}) /\ e.carrier = "text"
      BY <1>2 DEF Classify
    <2> QED BY <2>1, StatusTells
  <1> QED BY <1>1, <1>2

LEMMA PageTells ==
  ASSUME NEW end \in Ends, NEW board \in Boards, NEW isTls \in BOOLEAN,
         isTls <=> board \in TlsBoards, NEW served \in Fine, NEW token \in BOOLEAN,
         NEW e \in Break(end, isTls) \cup Unserved(end, served, token)
                     \cup NotJson(end, served)
  PROVE  Tells(board, end, e)
  <1>1. CASE e \in Break(end, isTls)
    BY <1>1, BreakTells
  <1>2. CASE e \in Unserved(end, served, token)
    BY <1>2, UnservedTells
  <1>3. CASE e \in NotJson(end, served)
    BY <1>3, NotJsonTells
  <1> QED BY <1>1, <1>2, <1>3

-------------------------------------------------------------------------------
\* Whatever a request of any board comes back with, the error it becomes tells
\* the stream whether the failure may pass, and how long its board asked it to
\* wait, apart from what is lost.
LEMMA RaisedTells ==
  ASSUME NEW end \in Ends, NEW board \in Boards, NEW token \in BOOLEAN,
         NEW e \in Raised(board, end, token)
  PROVE  Tells(board, end, e)
  <1>1. {200} \in Fine /\ Served \in Fine /\ 100..399 \in Fine
    BY DEF Fine
  <1>2. CASE board = "indeed"
    <2>1. e \in IndeedPage(end, token) /\ board \notin TlsBoards
      BY <1>2 DEF Raised, TlsBoards
    <2>2. \/ e \in Break(end, FALSE) \/ e \in Unserved(end, 100..399, token)
          \/ e \in NotJson(end, 100..399) \/ e \in SaidError(end, 100..399, token)
      BY <2>1 DEF IndeedPage
    <2>3. CASE e \in Break(end, FALSE)
      BY <2>1, <2>3, BreakTells
    <2>4. CASE e \in Unserved(end, 100..399, token)
      BY <2>4, UnservedTells
    <2>5. CASE e \in NotJson(end, 100..399)
      BY <1>1, <2>5, NotJsonTells
    <2>6. CASE e \in SaidError(end, 100..399, token)
      BY <1>1, <2>6, SaidErrorTells
    <2> QED BY <2>2, <2>3, <2>4, <2>5, <2>6
  <1>3. CASE board = "linkedin"
    <2>1. e \in LinkedInPage(end, token) /\ board \notin TlsBoards
      BY <1>3 DEF Raised, TlsBoards
    <2>2. e \in Break(end, FALSE) \cup Unserved(end, Served, token)
      BY <2>1 DEF LinkedInPage
    <2> QED BY <1>1, <2>1, <2>2, PageTells
  <1>4. CASE board = "glassdoor"
    <2>1. /\ e \in GlassdoorToken(end) \cup GlassdoorLocation(end) \cup GlassdoorPage(end, token)
          /\ board \in TlsBoards
      BY <1>4 DEF Raised, TlsBoards
    <2>2. CASE e \in GlassdoorToken(end)
      <3>1. e \in Break(end, TRUE) \cup Unserved(end, Served, FALSE)
        BY <2>2 DEF GlassdoorToken
      <3> QED BY <1>1, <2>1, <3>1, PageTells
    <2>3. CASE e \in GlassdoorLocation(end)
      <3>1. \/ e \in Break(end, TRUE) \/ e \in Unserved(end, {200}, FALSE)
            \/ e \in NotJson(end, {200}) \/ (e = Value /\ Answered(end, {200}))
        BY <2>3 DEF GlassdoorLocation, When
      <3>2. CASE e \in Break(end, TRUE)
        BY <2>1, <3>2, BreakTells
      <3>3. CASE e \in Unserved(end, {200}, FALSE)
        BY <3>3, UnservedTells
      <3>4. CASE e \in NotJson(end, {200})
        BY <1>1, <3>4, NotJsonTells
      <3>5. CASE e = Value /\ Answered(end, {200})
        BY <1>1, <3>5, ValueTells
      <3> QED BY <3>1, <3>2, <3>3, <3>4, <3>5
    <2>4. CASE e \in GlassdoorPage(end, token)
      <3>1. \/ e \in Break(end, TRUE) \/ e \in Unserved(end, {200}, token)
            \/ e \in NotJson(end, {200}) \/ e \in SaidError(end, {200}, token)
        BY <2>4 DEF GlassdoorPage
      <3>2. CASE e \in Break(end, TRUE)
        BY <2>1, <3>2, BreakTells
      <3>3. CASE e \in Unserved(end, {200}, token)
        BY <3>3, UnservedTells
      <3>4. CASE e \in NotJson(end, {200})
        BY <1>1, <3>4, NotJsonTells
      <3>5. CASE e \in SaidError(end, {200}, token)
        BY <1>1, <3>5, SaidErrorTells
      <3> QED BY <3>1, <3>2, <3>3, <3>4, <3>5
    <2> QED BY <2>1, <2>2, <2>3, <2>4
  <1>5. CASE board = "google"
    <2>1. \E resumed \in BOOLEAN : e \in Break(end, FALSE) \cup Unserved(end, Served, resumed)
      BY <1>5 DEF Raised, GoogleNextPage, GoogleInitial
    <2>2. board \notin TlsBoards
      BY <1>5 DEF TlsBoards
    <2> QED BY <1>1, <2>1, <2>2, PageTells
  <1>6. CASE board = "ziprecruiter"
    <2>1. e \in ZipRecruiterPage(end, token) /\ board \in TlsBoards
      BY <1>6 DEF Raised, TlsBoards
    <2>2. e \in Break(end, TRUE) \cup Unserved(end, Served, token) \cup NotJson(end, Served)
      BY <2>1 DEF ZipRecruiterPage
    <2> QED BY <1>1, <2>1, <2>2, PageTells
  <1>7. CASE board = "naukri"
    <2>1. e \in NaukriPage(end) /\ board \notin TlsBoards
      BY <1>7 DEF Raised, TlsBoards
    <2>2. e \in Break(end, FALSE) \cup Unserved(end, Served, FALSE) \cup NotJson(end, Served)
      BY <2>1 DEF NaukriPage
    <2> QED BY <1>1, <2>1, <2>2, PageTells
  <1>8. CASE board = "bayt"
    <2>1. board \notin TlsBoards
      BY <1>8 DEF TlsBoards
    <2>2. \/ e \in Break(end, FALSE)
          \/ /\ end.end = "answer"
             /\ e = [carrier |-> "http", status |-> end.status, after |-> end.after]
      BY <1>8 DEF Raised, BaytPage, When, Answered
    <2> QED BY <2>1, <2>2, BreakTells, HttpTells
  <1>9. CASE board = "bdjobs"
    <2>1. board \notin TlsBoards
      BY <1>9 DEF TlsBoards
    <2>2. \/ e \in Break(end, FALSE)
          \/ end.end = "answer" /\ e = [carrier |-> "text", status |-> end.status]
      BY <1>9 DEF Raised, BDJobsPage, When
    <2> QED BY <1>9, <2>1, <2>2, BreakTells, HttpTells
  <1> QED BY <1>2, <1>3, <1>4, <1>5, <1>6, <1>7, <1>8, <1>9 DEF Boards

LEMMA UnconfiguredShape ==
  ASSUME NEW board \in Boards, NEW e \in Unconfigured(board)
  PROVE  ~Classify(e).retryable /\ Classify(e).after = {}
  <1>1. e \in {Config, Value}
    <2>1. CertificateRefused(board) \subseteq {Config}
      BY DEF CertificateRefused, When
    <2>2. \/ Unconfigured(board) = CertificateRefused(board) \cup {Config}
          \/ Unconfigured(board) = CertificateRefused(board) \cup GlassdoorUnconfigured
          \/ Unconfigured(board) = CertificateRefused(board) \cup {Config, Value}
          \/ Unconfigured(board) = CertificateRefused(board) \cup {}
      BY DEF Unconfigured
    <2> QED BY <2>1, <2>2 DEF GlassdoorUnconfigured
  <1>2. PICK code \in {"authentication_configuration", "invalid_request"} :
          Classify(e) = Info(code, {})
    <2>1. CASE e = Config
      BY <2>1 DEF Classify, Config
    <2>2. CASE e = Value
      BY <2>2 DEF Classify, Value
    <2> QED BY <1>1, <2>1, <2>2
  <1>3. code \notin Retryable
    BY DEF Retryable
  <1> QED BY <1>2, <1>3, InfoFields

\* What a failure tells the stream is what the world meant by it, apart from what
\* is lost.
Told(f) ==
  /\ f.info.retryable => f.passes
  /\ f.passes => f.info.retryable \/ "kind" \in f.lost
  /\ \/ f.info.after = {} /\ (f.asks = {} \/ "time" \in f.lost)
     \/ \E wait \in Int : f.info.after = ParseRetryAfter({wait}) /\ f.asks \in {{}, {wait}}

LEMMA FailureTold ==
  ASSUME NEW info, NEW passes, NEW asks, NEW lost,
         info.retryable => passes,
         passes => info.retryable \/ "kind" \in lost,
         \/ info.after = {} /\ (asks = {} \/ "time" \in lost)
         \/ \E wait \in Int : info.after = ParseRetryAfter({wait}) /\ asks \in {{}, {wait}}
  PROVE  Told(Failure(info, passes, asks, lost))
  <1>1. /\ Failure(info, passes, asks, lost).info = info
        /\ Failure(info, passes, asks, lost).passes = passes
        /\ Failure(info, passes, asks, lost).asks = asks
        /\ Failure(info, passes, asks, lost).lost = lost
    BY ZenonT(60) DEF Failure
  <1> QED BY <1>1, ZenonT(60) DEF Told

LEMMA PermanentTold ==
  ASSUME NEW e, ~Classify(e).retryable, Classify(e).after = {}
  PROVE  Told(Permanent(e))
  BY FailureTold DEF Permanent

LEMMA RequestsTold ==
  ASSUME NEW f \in RequestFailures
  PROVE  Told(Failure(Classify(f.error), MayPass(f), Asked(f), Lost(f)))
  <1>1. PICK board \in Boards, end \in Ends, token \in BOOLEAN :
          \E e \in Raised(board, end, token) : f = [board |-> board, end |-> end, error |-> e]
    BY DEF RequestFailures
  <1>2. PICK e \in Raised(board, end, token) : f = [board |-> board, end |-> end, error |-> e]
    BY <1>1
  <1>3. Tells(board, end, e)
    BY RaisedTells
  <1>4. /\ Classify(f.error).retryable => MayPass(f)
        /\ MayPass(f) => Classify(f.error).retryable \/ "kind" \in Lost(f)
        /\ Asked(f) \in {{}, end.after}
        /\ \/ Classify(f.error).after = ParseRetryAfter(end.after)
           \/ Classify(f.error).after = {} /\ (Asked(f) = {} \/ "time" \in Lost(f))
    BY <1>2, <1>3 DEF Tells
  <1>5. end.after = {} \/ \E wait \in Int : end.after = {wait}
    BY EndShape, RequestAssumption DEF Ends, Answers, Breaks
  <1>6. CASE end.after = {}
    <2>1. Classify(f.error).after = {} /\ Asked(f) = {}
      BY <1>4, <1>6 DEF ParseRetryAfter
    <2> QED BY <1>4, <2>1, FailureTold
  <1>7. ASSUME NEW wait \in Int, end.after = {wait}
        PROVE  Told(Failure(Classify(f.error), MayPass(f), Asked(f), Lost(f)))
    <2>1. \/ Classify(f.error).after = {} /\ (Asked(f) = {} \/ "time" \in Lost(f))
          \/ Classify(f.error).after = ParseRetryAfter({wait}) /\ Asked(f) \in {{}, {wait}}
      BY <1>4, <1>7
    <2> QED BY <1>4, <2>1, FailureTold
  <1> QED BY <1>5, <1>6, <1>7

\* README: "Only failures classified as transient_network or rate_limited are
\* retried", and a Retry-After is honoured: of the failures an adapter, or its
\* constructor, may raise, only those are retryable that may pass by themselves,
\* and all of those but connections lost in the middle of a body; and each brings
\* the time its board asked for, but those of BDJobs and of errors said in a body.
THEOREM FailuresTold ==
  \A f \in AdapterFailures \cup {Permanent(ContractError)} : Told(f)
  <1>1. ASSUME NEW board \in Boards, NEW e \in Unconfigured(board)
        PROVE  Told(Permanent(e))
    BY UnconfiguredShape, PermanentTold
  <1>2. Told(Failure(Classify([carrier |-> "limit"]), TRUE, {}, {}))
    <2>1. Classify([carrier |-> "limit"]) = Info("rate_limited", {})
      BY DEF Classify
    <2> QED BY <2>1, InfoFields, FailureTold DEF Retryable
  <1>3. Told(Permanent([carrier |-> "other"]))
    <2>1. Classify([carrier |-> "other"]) = Info("adapter_failure", {})
      BY DEF Classify
    <2>2. ~Info("adapter_failure", {}).retryable /\ Info("adapter_failure", {}).after = {}
      BY InfoFields DEF Retryable
    <2> QED BY <2>1, <2>2, PermanentTold
  <1>4. Told(Permanent(ContractError))
    <2>1. Classify(ContractError) = Info("invalid_request", {})
      BY DEF Classify, ContractError
    <2>2. ~Info("invalid_request", {}).retryable /\ Info("invalid_request", {}).after = {}
      BY InfoFields DEF Retryable
    <2> QED BY <2>1, <2>2, PermanentTold
  <1> QED BY <1>1, <1>2, <1>3, <1>4, RequestsTold DEF AdapterFailures

-------------------------------------------------------------------------------
LEMMA MaxOfTwo ==
  ASSUME NEW a \in Int, NEW b \in Int
  PROVE  Max({a, b}) \in {a, b} /\ Max({a, b}) >= a /\ Max({a, b}) >= b
  <1>1. \E x \in {a, b} : \A y \in {a, b} : x >= y
    OBVIOUS
  <1> QED BY <1>1 DEF Max

LEMMA MinOfTwo ==
  ASSUME NEW a \in Int, NEW b \in Int
  PROVE  Min({a, b}) \in {a, b} /\ Min({a, b}) <= a /\ Min({a, b}) <= b
  <1>1. \E x \in {a, b} : \A y \in {a, b} : x <= y
    OBVIOUS
  <1> QED BY <1>1 DEF Min

LEMMA MaxOfOne ==
  ASSUME NEW a \in Int
  PROVE  Max({a}) = a
  <1>1. \E x \in {a} : \A y \in {a} : x >= y
    OBVIOUS
  <1> QED BY <1>1 DEF Max

\* What is left of a Retry-After after it is bounded.
LEMMA Capped ==
  ASSUME NEW wait \in Int
  PROVE  \E seconds \in 0..MaxRetryAfter :
            /\ ParseRetryAfter({wait}) = {seconds}
            /\ seconds >= Min({wait, MaxRetryAfter})
  <1> DEFINE positive == Max({0, wait})
             seconds == Min({positive, MaxRetryAfter})
  <1>1. positive \in Int /\ positive >= 0 /\ positive >= wait
    BY MaxOfTwo
  <1>2. seconds \in 0..MaxRetryAfter /\ seconds \in {positive, MaxRetryAfter}
    BY <1>1, MinOfTwo, DelayAssumption
  <1>3. /\ Min({wait, MaxRetryAfter}) \in Int
        /\ Min({wait, MaxRetryAfter}) <= wait /\ Min({wait, MaxRetryAfter}) <= MaxRetryAfter
    BY MinOfTwo, DelayAssumption
  <1>4. seconds >= Min({wait, MaxRetryAfter})
    BY <1>1, <1>2, <1>3, DelayAssumption
  <1>5. ParseRetryAfter({wait}) = {seconds}
    BY DEF ParseRetryAfter
  <1> QED BY <1>2, <1>4, <1>5

Backoff(n) == RetryBackoff * 2^n

LEMMA BackoffType ==
  ASSUME NEW n \in 0..MaxRetries
  PROVE  Backoff(n) \in Nat
  <1> DEFINE power == 2^n
  <1>1. power \in Nat
    BY PowerAssumption
  <1> HIDE DEF power
  <1>2. RetryBackoff * power \in Nat
    BY <1>1, DelayAssumption
  <1> QED BY <1>2 DEF Backoff, power

\* The delay of a failure that told what its board asked for.
LEMMA DelayBounds ==
  ASSUME NEW n \in 0..MaxRetries, NEW f, Told(f)
  PROVE  /\ Delay(n, f.info) >= Backoff(n)
         /\ Delay(n, f.info) <= Max({MaxRetryAfter, Backoff(n)})
         /\ \/ "time" \in f.lost
            \/ \A seconds \in f.asks : Delay(n, f.info) >= Min({seconds, MaxRetryAfter})
  <1>1. /\ Backoff(n) \in Int /\ MaxRetryAfter \in Int
        /\ Delay(n, f.info) = Max({Backoff(n)} \cup f.info.after)
    BY BackoffType, DelayAssumption DEF Delay, Backoff
  <1>2. /\ Max({MaxRetryAfter, Backoff(n)}) \in Int
        /\ Max({MaxRetryAfter, Backoff(n)}) >= MaxRetryAfter
        /\ Max({MaxRetryAfter, Backoff(n)}) >= Backoff(n)
    BY <1>1, MaxOfTwo
  <1>3. CASE f.info.after = {}
    <2>1. f.asks = {} \/ "time" \in f.lost
      <3>1. \A wait \in Int : ParseRetryAfter({wait}) # {}
        BY DEF ParseRetryAfter
      <3> QED BY <1>3, <3>1 DEF Told
    <2>2. Delay(n, f.info) = Backoff(n)
      <3>1. {Backoff(n)} \cup f.info.after = {Backoff(n)}
        BY <1>3
      <3> QED BY <1>1, <3>1, MaxOfOne
    <2> QED BY <1>1, <1>2, <2>1, <2>2
  <1>4. ASSUME NEW wait \in Int, f.info.after = ParseRetryAfter({wait}), f.asks \subseteq {wait}
        PROVE  /\ Delay(n, f.info) >= Backoff(n)
               /\ Delay(n, f.info) <= Max({MaxRetryAfter, Backoff(n)})
               /\ \A seconds \in f.asks : Delay(n, f.info) >= Min({seconds, MaxRetryAfter})
    <2>1. PICK seconds \in 0..MaxRetryAfter :
            f.info.after = {seconds} /\ seconds >= Min({wait, MaxRetryAfter})
      BY <1>4, Capped
    <2>2. seconds \in Int /\ seconds <= MaxRetryAfter
      BY <2>1, <1>1
    <2>3. {Backoff(n)} \cup f.info.after = {Backoff(n), seconds}
      BY <2>1
    <2>4. /\ Delay(n, f.info) \in {Backoff(n), seconds}
          /\ Delay(n, f.info) >= Backoff(n) /\ Delay(n, f.info) >= seconds
      BY <1>1, <2>2, <2>3, MaxOfTwo
    <2>5. Min({wait, MaxRetryAfter}) \in Int
      BY <1>1, MinOfTwo
    <2>6. Delay(n, f.info) >= Min({wait, MaxRetryAfter})
      BY <1>1, <2>1, <2>2, <2>4, <2>5
    <2> QED BY <1>1, <1>2, <1>4, <2>2, <2>4, <2>6
  <1> QED BY <1>3, <1>4 DEF Told

-------------------------------------------------------------------------------
AttemptTypes ==
  /\ DOMAIN place = User /\ DOMAIN cause = User /\ DOMAIN delay = User
  /\ attempt \in [User -> 0..MaxRetries]
  /\ \A u \in User : place[u] = "waiting" => attempt[u] < MaxRetries

RInv == AttemptTypes /\ RetriedInTime

LEMMA RInitial == Init => RInv
  BY RetriesAssumption DEF Init, RInv, AttemptTypes, RetriedInTime

\* A failure that told: a retry it may have, with the delay it asked for, or none.
LEMMA RaisesKeeps ==
  ASSUME RInv, NEW u \in User, NEW f, Told(f), Raises(u, f)
  PROVE  RInv'
  <1>1. AttemptTypes /\ RetriedInTime /\ attempt' = attempt
    BY DEF RInv, Raises
  <1>2. CASE Retried(u, f.info)
    <2>1. /\ attempt[u] < MaxRetries /\ f.passes
      BY <1>2 DEF Retried, Told
    <2>2. /\ cause' = [cause EXCEPT ![u] = [passes |-> f.passes, asks |-> f.asks, lost |-> f.lost]]
          /\ delay' = [delay EXCEPT ![u] = Delay(attempt[u], f.info)]
          /\ place' = [place EXCEPT ![u] = "waiting"]
      BY <1>2 DEF Raises, GoTo
    <2>3. AttemptTypes'
      BY <1>1, <2>1, <2>2 DEF AttemptTypes
    <2>4. attempt[u] \in 0..MaxRetries
      BY <1>1 DEF AttemptTypes
    <2>5. /\ delay'[u] >= Backoff(attempt[u])
          /\ delay'[u] <= Max({MaxRetryAfter, Backoff(attempt[u])})
          /\ \/ "time" \in f.lost
             \/ \A seconds \in f.asks : delay'[u] >= Min({seconds, MaxRetryAfter})
      BY <1>1, <2>2, <2>4, DelayBounds DEF AttemptTypes
    <2>6. RetriedInTime'
      BY <1>1, <2>1, <2>2, <2>5 DEF AttemptTypes, RetriedInTime, Honoured, Backoff
    <2> QED BY <2>3, <2>6 DEF RInv
  <1>3. CASE ~Retried(u, f.info)
    <2>1. /\ cause' = [cause EXCEPT ![u] = [passes |-> f.passes, asks |-> {}, lost |-> f.lost]]
          /\ place' = [place EXCEPT ![u] = "failed"] /\ delay' = delay
      BY <1>3 DEF Raises, GoTo
    <2>2. /\ attempt[u] \in 0..MaxRetries
          /\ ~f.passes \/ "kind" \in f.lost \/ attempt[u] = MaxRetries
      BY <1>1, <1>3, RetriesAssumption DEF AttemptTypes, Retried, Told
    <2>3. AttemptTypes'
      BY <1>1, <2>1 DEF AttemptTypes
    <2>4. RetriedInTime'
      BY <1>1, <2>1, <2>2 DEF AttemptTypes, RetriedInTime, Honoured
    <2> QED BY <2>3, <2>4 DEF RInv
  <1> QED BY <1>2, <1>3

LEMMA RetryKeeps ==
  ASSUME RInv, NEW u \in User, Retry(u)
  PROVE  RInv'
  <1>1. AttemptTypes /\ RetriedInTime
    BY DEF RInv
  <1>2. /\ place[u] = "waiting"
        /\ attempt' = [attempt EXCEPT ![u] = @ + 1]
        /\ cause' = [cause EXCEPT ![u] = Nothing]
        /\ delay' = [delay EXCEPT ![u] = 0]
        /\ place' = [place EXCEPT ![u] = "creating"]
    BY DEF Retry, GoTo
  <1>3. AttemptTypes'
    BY <1>1, <1>2, RetriesAssumption DEF AttemptTypes
  <1>4. RetriedInTime'
    BY <1>1, <1>2 DEF AttemptTypes, RetriedInTime, Honoured
  <1> QED BY <1>3, <1>4 DEF RInv

\* Every other step leaves the attempts, their causes and their delays, and
\* takes no stream to a wait or to its end by a failure.
LEMMA OthersKeep ==
  ASSUME RInv, UNCHANGED <<attempt, cause, delay>>,
         \/ place' = place
         \/ \E u \in User, where \in {"creating", "scraping", "complete"} : GoTo(u, where)
  PROVE  RInv'
  <1>1. AttemptTypes'
    BY DEF RInv, AttemptTypes, GoTo
  <1>2. RetriedInTime'
    BY DEF RInv, AttemptTypes, RetriedInTime, Honoured, GoTo
  <1> QED BY <1>1, <1>2 DEF RInv

LEMMA RStep == RInv /\ [Next]_vars => RInv'
  <1> SUFFICES ASSUME RInv, [Next]_vars
               PROVE  RInv'
    OBVIOUS
  <1>1. ASSUME NEW u \in User, AttemptStep(u)
        PROVE  RInv'
    <2>1. CASE Open(u)
      BY <2>1, OthersKeep DEF Open
    <2>2. CASE BeginCreate(u)
      BY <2>2, OthersKeep DEF BeginCreate, workerVars
    <2>3. CASE FactoryReturns(u)
      BY <2>3, OthersKeep DEF FactoryReturns, workerVars
    <2>4. CASE FactoryRaises(u)
      BY <2>4, FailuresTold, RaisesKeeps DEF FactoryRaises
    <2>5. CASE CreateRefuses(u)
      BY <2>5, FailuresTold, RaisesKeeps DEF CreateRefuses
    <2>6. CASE StartScrape(u)
      BY <2>6, OthersKeep DEF StartScrape
    <2>7. CASE ScrapeReturns(u)
      BY <2>7, OthersKeep DEF ScrapeReturns
    <2>8. CASE ScrapeRaises(u)
      BY <2>8, FailuresTold, RaisesKeeps DEF ScrapeRaises
    <2>9. CASE Retry(u)
      BY <2>9, RetryKeeps
    <2> QED BY <1>1, <2>1, <2>2, <2>3, <2>4, <2>5, <2>6, <2>7, <2>8, <2>9 DEF AttemptStep
  <1>2. CASE Replace /\ UNCHANGED <<workerVars, handed>>
    BY <1>2, OthersKeep DEF workerVars
  <1>3. CASE UNCHANGED vars
    BY <1>3, OthersKeep DEF vars, workerVars
  <1> QED BY <1>1, <1>2, <1>3 DEF Next

\* README: "Only failures classified as transient_network or rate_limited are
\* retried", after the larger of Retry-After and the backoff, capped, unless the
\* Retry-After was lost; and a failure that may pass ends a search only after the
\* last retry, unless its kind was lost (the except clause of
\* runtime._run_adapter), whatever a board's requests come back with.
THEOREM RetriedInTimeAlways == Spec => []RetriedInTime
  <1>1. RInv => RetriedInTime
    BY DEF RInv
  <1> QED BY RInitial, RStep, <1>1, PTL DEF Spec
===============================================================================
