------------------------ MODULE TransportOwnershipProofs ------------------------
(***************************************************************************)
(* Proofs about TransportOwnership, for any number of operation and helper *)
(* threads, transports and nested scopes: each transport is closed once,   *)
(* not while it is used, and none is kept.                                 *)
(*                                                                         *)
(* The right to close a transport is a token.  It is registered with the   *)
(* adapter, or in the hand of one thread, which has not registered it yet  *)
(* or has to close it; and a transport without one has been closed.  While *)
(* the adapter is open, what was registered outside of scopes stays        *)
(* registered and in the baseline of every scope, unless a scope was open  *)
(* beside it; and what a batch registered is used by its batch only,       *)
(* because a scope is one operation's at a time.                           *)
(***************************************************************************)
EXTENDS TransportOwnership, SequenceTheorems, TLAPS

Origins == {"none", "lasting", "batch", "beside"}

Types ==
  /\ caller \in {"search", "detail"}
  /\ place \in [Operation -> {"body", "scope", "leaving", "closing", "over"}]
  /\ DOMAIN raising = Operation
  /\ boss \in [Helper -> Operation \cup {Nobody}]
  /\ made \subseteq Transport /\ tracked \subseteq made
  /\ session \in [Thread -> Transport \cup {NoTransport}]
  /\ returning \in [Thread -> Transport \cup {NoTransport}]
  /\ using \in [Thread -> SUBSET Transport]
  /\ origin \in [Transport -> Origins]
  /\ pending \in [Thread -> SUBSET Transport]
  /\ closes \in [Transport -> Nat]
  /\ shut \in BOOLEAN
  /\ scopeOwner \in Operation \cup {Nobody}
  /\ baselines \in Seq(SUBSET Transport)

InHand(t, th) == session[th] = t \/ t \in pending[th]
Free(t) == t \notin tracked /\ \A th \in Thread : ~InHand(t, th)

\* There is one token of each transport.
Hands ==
  /\ \A th \in Thread : \A t \in tracked : ~InHand(t, th)
  /\ \A th1, th2 \in Thread : \A t \in Transport : InHand(t, th1) /\ InHand(t, th2) => th1 = th2
  /\ \A th \in Thread : session[th] # NoTransport => pending[th] = {} /\ returning[th] = NoTransport

\* Without its token it is closed, or does not exist.
Accounts ==
  \A t \in Transport :
    /\ t \notin made => Free(t) /\ closes[t] = 0
    /\ t \in made /\ Free(t) => closes[t] = 1
    /\ ~Free(t) => closes[t] = 0

\* When a thread may have transports in its hand.
Places ==
  /\ \A o \in Operation :
       /\ session[o] # NoTransport \/ returning[o] # NoTransport => place[o] \in {"body", "scope"}
       /\ pending[o] # {} => place[o] \in {"body", "scope", "leaving", "closing"}
  /\ \A h \in Helper : boss[h] = Nobody => Settled(h) /\ using[h] = {}
  /\ session[Cleaner] = NoTransport /\ returning[Cleaner] = NoTransport /\ using[Cleaner] = {}
  /\ ~shut \/ caller = "detail" => pending[Cleaner] = {}
  /\ shut => tracked = {}
  /\ caller = "detail" /\ ~shut => \E o \in Operation : place[o] \in {"body", "scope", "leaving"}

\* One thread has scopes open, and a pool runs inside of one.
Scopes ==
  /\ baselines # <<>> => scopeOwner # Nobody
  /\ \A o \in Operation :
       /\ place[o] \in {"scope", "leaving"} <=> scopeOwner = o
       /\ place[o] = "scope" => baselines # <<>>
  /\ \A h \in Helper : boss[h] # Nobody => place[boss[h]] = "scope"

From(where) == {t \in Transport : origin[t] = where}

\* A transport has an origin once it was registered.
Registered ==
  /\ tracked \cap From("none") = {}
  /\ \A i \in 1..Len(baselines) : baselines[i] \cap From("none") = {}
  /\ \A th \in Thread :
       /\ using[th] \cap From("none") = {} /\ returning[th] \notin From("none")
       /\ session[th] # NoTransport => origin[session[th]] = "none"
  /\ \A t \in Transport : t \notin made => origin[t] = "none"
  /\ ~shut => \A t \in made \cap From("none") : \E th \in Thread : session[th] = t

\* The outermost scope leaves nothing of its batch.
Baselines ==
  /\ baselines = <<>> => tracked \cap From("batch") = {}
  /\ baselines # <<>> => baselines[1] \cap From("batch") = {}

\* What was registered outside of scopes is not taken by one.
Lasting ==
  ~shut => /\ From("lasting") \subseteq tracked
           /\ \A i \in 1..Len(baselines) : From("lasting") \subseteq baselines[i]

\* The transports of a batch are used by its threads, while they are registered.
Batches ==
  ~shut => \A th \in Thread :
    /\ (using[th] \cup {returning[th]}) \cap From("batch") \subseteq tracked
    /\ th \in Operation /\ th # scopeOwner =>
         (using[th] \cup {returning[th]}) \cap From("batch") = {}

\* It takes another operation to register one beside a scope.
Beside == From("beside") # {} => \E p, q \in Operation : p # q

IInv == Types /\ Hands /\ Accounts /\ Places /\ Scopes /\ Registered /\ Baselines
          /\ Lasting /\ Batches /\ Beside

USE ThreadAssumption, TransportAssumption DEF Thread

LEMMA IInvInit == Init => IInv
  <1> SUFFICES ASSUME Init PROVE IInv
    OBVIOUS
  <1>1. \E first \in Operation :
          place = [o \in Operation |-> IF caller = "search" \/ o = first THEN "body" ELSE "over"]
    BY DEF Init
  <1>2. Types
    <2>1. place \in [Operation -> {"body", "scope", "leaving", "closing", "over"}]
      BY <1>1
    <2>2. made \subseteq Transport
      BY DEF Init
    <2>3. /\ session \in [Thread -> Transport \cup {NoTransport}]
          /\ returning \in [Thread -> Transport \cup {NoTransport}]
          /\ using \in [Thread -> SUBSET Transport]
          /\ pending \in [Thread -> SUBSET Transport]
      BY <2>2 DEF Init
    <2>4. /\ boss \in [Helper -> Operation \cup {Nobody}] /\ closes \in [Transport -> Nat]
          /\ DOMAIN raising = Operation /\ origin \in [Transport -> Origins]
      BY DEF Init, Origins
    <2>5. baselines \in Seq(SUBSET Transport)
      BY DEF Init
    <2> QED BY <2>1, <2>2, <2>3, <2>4, <2>5 DEF Init, Types
  <1>3. Hands
    BY DEF Init, Hands, InHand
  <1>4. Accounts
    BY <1>2 DEF Init, Accounts, Free, InHand, Types
  <1>5. Places
    BY <1>1 DEF Init, Places, Settled
  <1>6. Scopes
    BY <1>1 DEF Init, Scopes
  <1>7. Baselines /\ Lasting /\ Beside
    BY DEF Init, Baselines, Lasting, Beside, From
  <1>8. Registered /\ Batches
    <2>1. From("batch") = {} /\ From("none") = Transport \ made
      BY DEF Init, From
    <2>2. \A th \in Thread : using[th] \subseteq made /\ returning[th] = NoTransport
                             /\ session[th] = NoTransport
      BY DEF Init
    <2> QED BY <2>1, <2>2 DEF Init, Registered, Batches
  <1> QED BY <1>2, <1>3, <1>4, <1>5, <1>6, <1>7, <1>8 DEF IInv

-------------------------------------------------------------------------------
\* The hands of the threads.

\* What the threads hold and what is registered stay as they are.
LEMMA UsesStay ==
  ASSUME IInv, UNCHANGED <<made, session, returning, using, origin, tracked, shut, baselines>>
  PROVE  /\ Registered' /\ Baselines' /\ Lasting' /\ Beside'
         /\ scopeOwner' = scopeOwner => Batches'
  BY DEF IInv, Registered, Baselines, Lasting, Beside, Batches, From

LEMMA CloseNextKeeps ==
  ASSUME IInv, NEW th \in Thread, CloseNext(th)
  PROVE  IInv'
  <1> USE DEF IInv, operationVars, sessionVars, adapterVars, scopeVars
  <1>1. PICK t \in pending[th] :
          /\ closes' = [closes EXCEPT ![t] = @ + 1]
          /\ pending' = [pending EXCEPT ![th] = @ \ {t}]
    BY DEF CloseNext
  <1>2. UNCHANGED <<caller, place, raising, boss, made, session, returning, using, origin, tracked,
                    shut, scopeOwner, baselines>>
    BY DEF CloseNext
  <1>3. t \in Transport /\ closes[t] = 0 /\ t \in made
    BY <1>1 DEF Types, Accounts, Free, InHand
  <1>4. Types'
    BY <1>1, <1>2, <1>3 DEF Types
  <1>5. Hands'
    BY <1>1, <1>2, <1>3 DEF Types, Hands, InHand
  <1>6. Accounts'
    BY <1>1, <1>2, <1>3, SMTT(30) DEF Types, Hands, Accounts, Free, InHand
  <1>7. Places'
    BY <1>1, <1>2 DEF Types, Places, Settled
  <1>8. Scopes' /\ Registered' /\ Baselines' /\ Lasting' /\ Batches' /\ Beside'
    BY <1>2, UsesStay DEF Scopes
  <1> QED BY <1>4, <1>5, <1>6, <1>7, <1>8

LEMMA MakeKeeps ==
  ASSUME IInv, NEW th \in Thread, NEW t \in Transport, Make(th, t)
  PROVE  IInv'
  <1> USE DEF IInv, operationVars, adapterVars, scopeVars, closingVars
  <1>1. /\ t \notin made /\ made' = made \cup {t}
        /\ session' = [session EXCEPT ![th] = t]
        /\ OperationMakes(th) \/ HelperMakes(th)
        /\ session[th] = NoTransport /\ returning[th] = NoTransport /\ pending[th] = {}
    BY DEF Make, Settled
  <1>2. UNCHANGED <<caller, place, raising, boss, returning, using, origin, tracked, shut,
                    scopeOwner, baselines, pending, closes>>
    BY DEF Make
  <1>3. Free(t) /\ closes[t] = 0 /\ origin[t] = "none"
    BY <1>1 DEF Accounts, Registered
  <1>4. Types'
    BY <1>1, <1>2 DEF Types
  <1>5. Hands'
    BY <1>1, <1>2, <1>3 DEF Types, Hands, Free, InHand
  <1>6. Accounts'
    <2>1. ~Free(t)'
      BY <1>1 DEF Types, Free, InHand
    <2>2. ASSUME NEW s \in Transport, s # t PROVE Free(s)' <=> Free(s)
      <3>1. ASSUME NEW u \in Thread PROVE InHand(s, u)' <=> InHand(s, u)
        <4>1. session'[u] = s <=> session[u] = s
          BY <1>1, <2>2, TransportAssumption DEF Types
        <4> QED BY <4>1, <1>2 DEF InHand
      <3> QED BY <3>1, <1>2 DEF Free
    <2>3. ASSUME NEW s \in Transport, s # t PROVE s \in made' <=> s \in made
      BY <1>1, <2>3
    <2> QED BY <1>1, <1>2, <1>3, <2>1, <2>2, <2>3 DEF Accounts
  <1>7. Places'
    BY <1>1, <1>2 DEF Types, Places, Settled, OperationMakes, HelperMakes
  <1>8. Registered'
    BY <1>1, <1>2, <1>3 DEF Types, Registered, From
  <1>9. Scopes' /\ Baselines' /\ Lasting' /\ Batches' /\ Beside'
    BY <1>2 DEF Scopes, Baselines, Lasting, Batches, Beside, From
  <1> QED BY <1>4, <1>5, <1>6, <1>7, <1>8, <1>9

LEMMA RegisterKeeps ==
  ASSUME IInv, NEW th \in Thread, Register(th)
  PROVE  IInv'
  <1> USE DEF IInv, operationVars, sessionVars, adapterVars, scopeVars, closingVars
  <1> DEFINE t == session[th]
  <1>1. /\ t # NoTransport /\ ~shut /\ tracked' = tracked \cup {t}
        /\ origin' = [origin EXCEPT ![t] = Origin(th)]
        /\ returning' = [returning EXCEPT ![th] = t]
        /\ session' = [session EXCEPT ![th] = NoTransport]
    BY DEF Register, Refused
  <1>2. UNCHANGED <<caller, place, raising, boss, made, using, shut, scopeOwner, baselines, pending,
                    closes>>
    BY DEF Register
  <1>3. /\ t \in Transport /\ t \in made /\ t \notin tracked /\ origin[t] = "none"
        /\ \A other \in Thread : other # th => ~InHand(t, other)
        /\ pending[th] = {} /\ returning[th] = NoTransport
    BY <1>1 DEF Types, Hands, Accounts, Free, InHand, Registered
  <1>4. /\ Origin(th) \in {"lasting", "batch", "beside"}
        /\ Origin(th) = "lasting" => baselines = <<>>
        /\ Origin(th) = "batch" =>
             baselines # <<>> /\ (th \in Operation => th = scopeOwner)
        /\ Origin(th) = "beside" =>
             /\ baselines # <<>> /\ th \in Operation /\ th # scopeOwner
    <2>1. CASE th \in Operation
      <3>1. place[th] \in {"body", "scope"}
        BY <1>1, <2>1 DEF Places
      <3> QED BY <2>1, <3>1 DEF Origin, Scopes
    <2>2. CASE th \in Helper
      <3>1. boss[th] \in Operation /\ place[boss[th]] = "scope"
        BY <1>1, <2>2 DEF Places, Settled, Scopes, Types
      <3> QED BY <2>2, <3>1 DEF Origin, Scopes
    <2> QED BY <1>1, <2>1, <2>2 DEF Places
  <1>5. Types'
    BY <1>1, <1>2, <1>3, <1>4 DEF Types, Origins
  <1>6. Hands'
    BY <1>1, <1>2, <1>3 DEF Types, Hands, InHand
  <1>7. Accounts'
    BY <1>1, <1>2, <1>3 DEF Types, Accounts, Free, InHand
  <1>8. Places'
    BY <1>1, <1>2 DEF Types, Places, Settled
  <1>9. Scopes'
    BY <1>1, <1>2 DEF Types, Scopes
  <1>10. /\ \A x \in Transport : x # t => origin'[x] = origin[x]
         /\ origin'[t] = Origin(th)
    BY <1>1, <1>3 DEF Types
  <1>11. /\ From("none")' = From("none") \ {t}
         /\ From("batch")' = IF Origin(th) = "batch" THEN From("batch") \cup {t} ELSE From("batch")
         /\ From("lasting")' = IF Origin(th) = "lasting" THEN From("lasting") \cup {t}
                               ELSE From("lasting")
         /\ Origin(th) # "beside" => From("beside")' = From("beside")
    <2> HIDE DEF t
    <2>1. From("none")' = From("none") \ {t}
      BY <1>3, <1>4, <1>10 DEF From
    <2>2. From("batch")' = IF Origin(th) = "batch" THEN From("batch") \cup {t} ELSE From("batch")
      BY <1>3, <1>4, <1>10 DEF From
    <2>3. From("lasting")' = IF Origin(th) = "lasting" THEN From("lasting") \cup {t}
                             ELSE From("lasting")
      BY <1>3, <1>4, <1>10 DEF From
    <2>4. Origin(th) # "beside" => From("beside")' = From("beside")
      BY <1>3, <1>4, <1>10 DEF From
    <2> QED BY <2>1, <2>2, <2>3, <2>4
  <1>12. /\ \A other \in Thread : t \notin using[other] /\ t # returning[other]
         /\ \A i \in 1..Len(baselines) : t \notin baselines[i]
         /\ \A other \in Thread : other # th => session[other] # t
    BY <1>1, <1>3 DEF Registered, From, InHand
  <1>13. Registered'
    <2>1. /\ tracked' \cap From("none")' = {}
          /\ \A i \in 1..Len(baselines) : baselines[i] \cap From("none")' = {}
      BY <1>1, <1>11 DEF Registered
    <2>2. \A other \in Thread : using[other] \cap From("none")' = {}
                                /\ returning'[other] \notin From("none")'
      BY <1>1, <1>11 DEF Registered, Types
    <2>4. \A other \in Thread : session'[other] # NoTransport => origin'[session'[other]] = "none"
      BY <1>1, <1>10, <1>12 DEF Registered, Types
    <2>5. \A x \in Transport : x \notin made => origin'[x] = "none"
      BY <1>3, <1>10 DEF Registered
    <2>6. \A x \in made \cap From("none")' : \E other \in Thread : session'[other] = x
      BY <1>1, <1>11 DEF Registered, Types
    <2> QED BY <1>2, <2>1, <2>2, <2>4, <2>5, <2>6 DEF Registered
  <1>14. Baselines'
    <2>1. baselines # <<>> => 1 \in 1..Len(baselines)
      BY DEF Types
    <2> QED BY <1>1, <1>2, <1>4, <1>11, <1>12, <2>1, <1>3 DEF Baselines, From
  <1>15. Lasting'
    <2>1. baselines = <<>> => 1..Len(baselines) = {}
      OBVIOUS
    <2> QED BY <1>1, <1>2, <1>4, <1>11, <2>1 DEF Lasting
  <1>16. Batches'
    BY <1>1, <1>2, <1>4, <1>11, <1>12, <1>3 DEF Batches, Types, From
  <1>17. Beside'
    BY <1>2, <1>4, <1>11 DEF Beside, Scopes, Types
  <1> QED BY <1>5, <1>6, <1>7, <1>8, <1>9, <1>13, <1>14, <1>15, <1>16, <1>17

LEMMA ReturnKeeps ==
  ASSUME IInv, NEW th \in Thread, Return(th)
  PROVE  IInv'
  <1> USE DEF IInv, operationVars, adapterVars, scopeVars, closingVars
  <1>1. /\ returning[th] # NoTransport /\ returning[th] \in Transport
        /\ using' = [using EXCEPT ![th] = @ \cup {returning[th]}]
        /\ returning' = [returning EXCEPT ![th] = NoTransport]
    BY DEF Return, Types
  <1>2. UNCHANGED <<caller, place, raising, boss, made, session, origin, tracked, shut, scopeOwner,
                    baselines, pending, closes>>
    BY DEF Return
  <1>3. Types'
    BY <1>1, <1>2 DEF Types
  <1>4. Hands' /\ Accounts'
    <2>1. \A x \in Transport, other \in Thread : InHand(x, other)' <=> InHand(x, other)
      BY <1>2 DEF InHand
    <2>2. Hands'
      BY <1>1, <1>2, <2>1 DEF Types, Hands
    <2>3. Accounts'
      BY <1>2, <2>1 DEF Accounts, Free
    <2> QED BY <2>2, <2>3
  <1>5. Places'
    BY <1>1, <1>2 DEF Types, Places, Settled
  <1>6. Scopes' /\ Baselines' /\ Lasting' /\ Beside'
    BY <1>2 DEF Scopes, Baselines, Lasting, Beside, From
  <1>7. From("none")' = From("none") /\ From("batch")' = From("batch")
        /\ NoTransport \notin From("none") \cup From("batch")
    BY <1>2 DEF From
  <1>8. Registered'
    BY <1>1, <1>2, <1>7 DEF Types, Registered
  <1>9. Batches'
    BY <1>1, <1>2, <1>7 DEF Types, Batches
  <1> QED BY <1>3, <1>4, <1>5, <1>6, <1>8, <1>9

LEMMA RefuseKeeps ==
  ASSUME IInv, NEW th \in Thread, Refuse(th)
  PROVE  IInv'
  <1> USE DEF IInv, operationVars, sessionVars, adapterVars, scopeVars, closingVars
  <1> DEFINE t == session[th]
  <1>1. /\ t # NoTransport /\ shut
        /\ pending' = [pending EXCEPT ![th] = {t}]
        /\ session' = [session EXCEPT ![th] = NoTransport]
        /\ DOMAIN raising' = Operation
    BY DEF Refuse, Refused
  <1>2. UNCHANGED <<caller, place, boss, made, returning, using, origin, tracked, shut, scopeOwner,
                    baselines, closes>>
    BY DEF Refuse
  <1>3. t \in Transport /\ pending[th] = {}
    BY <1>1 DEF Types, Hands
  <1>4. Types'
    BY <1>1, <1>2, <1>3 DEF Types
  <1>5. \A x \in Transport, other \in Thread : InHand(x, other)' <=> InHand(x, other)
    BY <1>1, <1>2, <1>3 DEF Types, InHand
  <1>6. Hands'
    BY <1>1, <1>2, <1>3, <1>5 DEF Types, Hands
  <1>7. Accounts'
    BY <1>2, <1>5 DEF Types, Accounts, Free
  <1>8. Places'
    BY <1>1, <1>2 DEF Types, Places, Settled
  <1>9. Registered'
    <2>1. From("none")' = From("none") /\ shut'
      BY <1>1, <1>2 DEF From
    <2>2. \A other \in Thread : session'[other] \in {session[other], NoTransport}
      BY <1>1 DEF Types
    <2> QED BY <1>2, <2>1, <2>2 DEF Registered
  <1>10. Scopes' /\ Baselines' /\ Lasting' /\ Batches' /\ Beside'
    BY <1>2 DEF Scopes, Baselines, Lasting, Batches, Beside, From
  <1> QED BY <1>4, <1>6, <1>7, <1>8, <1>9, <1>10

-------------------------------------------------------------------------------
\* Operations and their helpers.

\* The tokens stay where they are.
LEMMA HandsStay ==
  ASSUME IInv, UNCHANGED <<made, session, returning, tracked, pending, closes>>
  PROVE  Hands' /\ Accounts'
  BY DEF IInv, Hands, Accounts, Free, InHand

\* A thread that stops using transports disturbs nothing.
LEMMA UsesShrink ==
  ASSUME IInv, NEW th \in Thread, NEW less \in SUBSET using[th],
         using' = [using EXCEPT ![th] = less],
         UNCHANGED <<made, session, returning, origin, shut, scopeOwner, baselines>>
  PROVE  /\ tracked' = tracked => Registered' /\ Baselines' /\ Lasting' /\ Beside' /\ Batches'
         /\ tracked' = {} => Registered'
  <1>1. \A other \in Thread : using'[other] \subseteq using[other]
    BY DEF IInv, Types
  <1>2. tracked' = {} \/ tracked' = tracked => Registered'
    BY <1>1 DEF IInv, Registered, From
  <1>3. tracked' = tracked => Batches'
    BY <1>1 DEF IInv, Batches, From
  <1>4. tracked' = tracked => Baselines' /\ Lasting' /\ Beside'
    BY DEF IInv, Baselines, Lasting, Beside, From
  <1> QED BY <1>2, <1>3, <1>4

LEMMA EnterScopeKeeps ==
  ASSUME IInv, NEW o \in Operation, EnterScope(o)
  PROVE  IInv'
  <1> USE DEF IInv, sessionVars, adapterVars, closingVars, GoTo
  <1>1. /\ UNCHANGED <<caller, raising, boss, made, session, returning, using, origin, tracked,
                       shut, pending, closes>>
        /\ place' = [place EXCEPT ![o] = "scope"]
        /\ scopeOwner' = o /\ baselines' = Append(baselines, tracked)
    BY DEF EnterScope
  <1>2. \/ place[o] = "body" /\ scopeOwner = Nobody
        \/ place[o] = "scope" /\ scopeOwner = o
    BY DEF EnterScope, Scopes
  <1>3. tracked \in SUBSET Transport
    BY DEF Types
  <1>4. /\ baselines' \in Seq(SUBSET Transport) /\ Len(baselines') = Len(baselines) + 1
        /\ baselines' # <<>>
        /\ \A i \in 1..Len(baselines) : baselines'[i] = baselines[i]
        /\ baselines'[Len(baselines')] = tracked
    <2>1. baselines \in Seq(SUBSET Transport) /\ baselines' = Append(baselines, tracked)
      BY <1>1 DEF Types
    <2> QED BY <1>3, <2>1, AppendProperties
  <1>5. \A i \in 1..Len(baselines') :
          \/ baselines'[i] = tracked
          \/ i \in 1..Len(baselines) /\ baselines'[i] = baselines[i]
    <2>1. Len(baselines) \in Nat
      BY DEF Types
    <2>2. \A i \in 1..Len(baselines') : i = Len(baselines') \/ i \in 1..Len(baselines)
      BY <1>4, <2>1
    <2> QED BY <1>4, <2>2
  <1>6. Types'
    BY <1>1, <1>4 DEF Types
  <1>7. Hands' /\ Accounts'
    BY <1>1, HandsStay
  <1>8. Places'
    BY <1>1, <1>2 DEF Types, Places, Settled
  <1>9. Scopes'
    BY <1>1, <1>2, <1>4 DEF Types, Scopes
  <1>10. Registered' /\ Lasting' /\ Beside'
    BY <1>1, <1>5 DEF Registered, Lasting, Beside, From
  <1>11. Baselines'
    <2>1. CASE baselines = <<>>
      <3>1. Len(baselines) = 0
        BY <2>1
      <3> QED BY <1>1, <1>4, <2>1, <3>1 DEF Baselines, From
    <2>2. CASE baselines # <<>>
      <3>1. 1 \in 1..Len(baselines)
        BY <2>2 DEF Types
      <3> QED BY <1>1, <1>4, <2>2, <3>1 DEF Baselines, From
    <2> QED BY <2>1, <2>2
  <1>12. Batches'
    <2>1. From("batch")' = From("batch")
      BY <1>1 DEF From
    <2> QED BY <1>1, <1>2, <2>1 DEF Batches
  <1> QED BY <1>6, <1>7, <1>8, <1>9, <1>10, <1>11, <1>12

LEMMA SubmitKeeps ==
  ASSUME IInv, NEW o \in Operation, NEW h \in Helper, Submit(o, h)
  PROVE  IInv'
  <1> USE DEF IInv, sessionVars, adapterVars, scopeVars, closingVars
  <1>1. /\ UNCHANGED <<caller, place, raising, made, session, returning, using, origin, tracked,
                       shut, scopeOwner, baselines, pending, closes>>
        /\ boss' = [boss EXCEPT ![h] = o] /\ place[o] = "scope"
    BY DEF Submit
  <1>2. Types' /\ Hands' /\ Accounts'
    BY <1>1, HandsStay DEF Types
  <1>3. Places'
    BY <1>1 DEF Types, Places, Settled
  <1>4. Scopes'
    BY <1>1 DEF Types, Scopes
  <1>5. Registered' /\ Baselines' /\ Lasting' /\ Batches' /\ Beside'
    BY <1>1, UsesStay
  <1> QED BY <1>2, <1>3, <1>4, <1>5

LEMMA HelperEndsKeeps ==
  ASSUME IInv, NEW h \in Helper, HelperEnds(h)
  PROVE  IInv'
  <1> USE DEF IInv, adapterVars, scopeVars, closingVars
  <1>1. /\ UNCHANGED <<caller, place, raising, made, session, returning, origin, tracked, shut,
                       scopeOwner, baselines, pending, closes>>
        /\ boss' = [boss EXCEPT ![h] = Nobody] /\ Settled(h)
        /\ using' = [using EXCEPT ![h] = {}]
    BY DEF HelperEnds
  <1>2. Types' /\ Hands' /\ Accounts'
    BY <1>1, HandsStay DEF Types
  <1>3. Places'
    BY <1>1 DEF Types, Places, Settled
  <1>4. Scopes'
    BY <1>1 DEF Types, Scopes
  <1>5. Registered' /\ Baselines' /\ Lasting' /\ Batches' /\ Beside'
    BY <1>1, UsesShrink
  <1> QED BY <1>2, <1>3, <1>4, <1>5

LEMMA ButLast ==
  ASSUME NEW S, NEW s \in Seq(S), NEW n \in Nat, Len(s) = n + 1
  PROVE  /\ SubSeq(s, 1, n) \in Seq(S) /\ Len(SubSeq(s, 1, n)) = n
         /\ \A i \in 1..n : SubSeq(s, 1, n)[i] = s[i]
         /\ SubSeq(s, 1, n) = <<>> <=> n = 0
  <1>1. \A i \in 1..n : s[i] \in S
    OBVIOUS
  <1>2. /\ SubSeq(s, 1, n) \in Seq(S)
        /\ Len(SubSeq(s, 1, n)) = IF 1 <= n THEN n - 1 + 1 ELSE 0
        /\ \A i \in 1..(n - 1 + 1) : SubSeq(s, 1, n)[i] = s[1 + i - 1]
    BY <1>1, SubSeqProperties
  <1> DEFINE b == SubSeq(s, 1, n)
  <1> HIDE DEF b
  <1>3. b \in Seq(S) /\ Len(b) = n
    BY <1>2 DEF b
  <1>4. b = <<>> <=> n = 0
    BY <1>3
  <1>5. \A i \in 1..n : i \in 1..(n - 1 + 1) /\ 1 + i - 1 = i
    OBVIOUS
  <1>6. \A i \in 1..n : SubSeq(s, 1, n)[i] = s[i]
    BY <1>2, <1>5
  <1> QED BY <1>3, <1>4, <1>6 DEF b

\* Nobody uses what the scope takes of its batch any more, and what lasts is in
\* the baseline of the scope.
LEMMA EndScopeKeeps ==
  ASSUME IInv, NEW o \in Operation, EndScope(o)
  PROVE  IInv'
  <1> USE DEF IInv, GoTo
  <1>1. /\ UNCHANGED <<caller, boss, made, session, returning, origin, shut, scopeOwner, closes>>
        /\ place' = [place EXCEPT ![o] = "leaving"] /\ place[o] = "scope"
        /\ session[o] = NoTransport /\ returning[o] = NoTransport /\ pending[o] = {}
        /\ using' = [using EXCEPT ![o] = @ \ (tracked \ Baseline)]
        /\ pending' = [pending EXCEPT ![o] = tracked \ Baseline]
        /\ tracked' = tracked \cap Baseline
        /\ baselines' = SubSeq(baselines, 1, Len(baselines) - 1)
        /\ DOMAIN raising' = Operation
    BY DEF EndScope, Settled, OutlivesScope, BodyEnds, Types
  <1>2. \A h \in Helper : boss[h] # o
    BY DEF EndScope, PoolIsDone
  <1>3. /\ scopeOwner = o /\ baselines # <<>>
        /\ \A h \in Helper : boss[h] = Nobody
    BY <1>1, <1>2 DEF Types, Scopes
  <1>4. Len(baselines) \in Nat \ {0} /\ Len(baselines) \in 1..Len(baselines)
    BY <1>3 DEF Types
  <1>5. /\ baselines' \in Seq(SUBSET Transport) /\ Len(baselines') = Len(baselines) - 1
        /\ \A i \in 1..(Len(baselines) - 1) : baselines'[i] = baselines[i]
        /\ baselines' = <<>> <=> Len(baselines) = 1
    <2> DEFINE n == Len(baselines) - 1
    <2>1. baselines \in Seq(SUBSET Transport) /\ n \in Nat /\ Len(baselines) = n + 1
      BY <1>4 DEF Types
    <2>2. baselines' = SubSeq(baselines, 1, n)
      BY <1>1
    <2> HIDE DEF n
    <2>3. /\ baselines' \in Seq(SUBSET Transport) /\ Len(baselines') = n
          /\ \A i \in 1..n : baselines'[i] = baselines[i]
          /\ baselines' = <<>> <=> n = 0
      BY <2>1, <2>2, ButLast
    <2> QED BY <2>1, <2>3
  <1>6. \A i \in 1..Len(baselines') : i \in 1..Len(baselines) /\ baselines'[i] = baselines[i]
    BY <1>4, <1>5
  <1>7. \A where : From(where)' = From(where)
    BY <1>1 DEF From
  <1>8. /\ \A th \in Thread \ {o} : using'[th] = using[th]
        /\ using'[o] = using[o] \ (tracked \ Baseline)
    BY <1>1 DEF Types
  <1>9. Types'
    BY <1>1, <1>5 DEF Types
  <1>10. Hands'
    BY <1>1 DEF Types, Hands, InHand
  <1>11. Accounts'
    <2>1. \A t \in Transport : Free(t)' <=> Free(t)
      BY <1>1 DEF Types, Free, InHand
    <2> QED BY <1>1, <2>1 DEF Accounts
  <1>12. Places'
    BY <1>1 DEF Types, Places, Settled
  <1>13. Scopes'
    BY <1>1, <1>3 DEF Types, Scopes
  <1>14. Registered'
    BY <1>1, <1>6, <1>7, <1>8 DEF Registered
  <1>15. Baselines'
    <2>1. CASE Len(baselines) = 1
      <3>1. Baseline = baselines[1]
        BY <2>1 DEF Baseline
      <3> QED BY <1>1, <1>3, <1>5, <1>7, <2>1, <3>1 DEF Baselines
    <2>2. CASE Len(baselines) # 1
      <3>1. baselines' # <<>> /\ baselines'[1] = baselines[1]
        BY <1>4, <1>5, <2>2
      <3> QED BY <1>3, <1>7, <3>1 DEF Baselines
    <2> QED BY <2>1, <2>2
  <1>16. Lasting'
    BY <1>1, <1>4, <1>6, <1>7 DEF Lasting, Baseline
  <1>17. Batches'
    <2> SUFFICES ASSUME ~shut, NEW th \in Thread
                 PROVE  /\ (using'[th] \cup {returning[th]}) \cap From("batch") \subseteq tracked'
                        /\ th \in Operation /\ th # scopeOwner =>
                             (using'[th] \cup {returning[th]}) \cap From("batch") = {}
      BY <1>1, <1>7 DEF Batches
    <2>1. NoTransport \notin From("batch")
      BY DEF From
    <2>2. CASE th = o
      BY <1>1, <1>3, <1>8, <2>1, <2>2 DEF Batches
    <2>3. CASE th \in Operation \ {o}
      BY <1>3, <1>8, <2>3 DEF Batches
    <2>4. CASE th \in Helper
      BY <1>3, <1>8, <2>1, <2>4 DEF Places, Settled
    <2>5. CASE th = Cleaner
      BY <1>8, <2>1, <2>5 DEF Places
    <2> QED BY <2>2, <2>3, <2>4, <2>5
  <1>18. Beside'
    BY <1>7 DEF Beside
  <1> QED BY <1>9, <1>10, <1>11, <1>12, <1>13, <1>14, <1>15, <1>16, <1>17, <1>18

LEMMA LeaveScopeKeeps ==
  ASSUME IInv, NEW o \in Operation, LeaveScope(o)
  PROVE  IInv'
  <1> USE DEF IInv, sessionVars, adapterVars, closingVars, GoTo
  <1>1. /\ UNCHANGED <<caller, boss, made, session, returning, using, origin, tracked, shut,
                       baselines, pending, closes>>
        /\ place[o] = "leaving" /\ pending[o] = {}
        /\ DOMAIN raising' = Operation
        /\ scopeOwner' = IF baselines = <<>> THEN Nobody ELSE o
        /\ place' = [place EXCEPT ![o] = IF baselines = <<>> THEN "body" ELSE "scope"]
    BY DEF LeaveScope, Types
  <1>2. /\ scopeOwner = o
        /\ \A h \in Helper : boss[h] = Nobody
        /\ session[o] = NoTransport /\ returning[o] = NoTransport
    BY <1>1 DEF Types, Scopes, Places
  <1>3. Types'
    BY <1>1 DEF Types
  <1>4. Hands' /\ Accounts'
    BY <1>1, HandsStay
  <1>5. Places'
    BY <1>1, <1>2 DEF Types, Places, Settled
  <1>6. Scopes'
    BY <1>1, <1>2 DEF Types, Scopes
  <1>7. Registered' /\ Baselines' /\ Lasting' /\ Beside'
    BY <1>1, UsesStay
  <1>8. Batches'
    <2>1. From("batch")' = From("batch") /\ NoTransport \notin From("batch")
      BY <1>1 DEF From
    <2>2. ~shut /\ baselines = <<>> => (using[o] \cup {returning[o]}) \cap From("batch") = {}
      BY <1>2, <2>1 DEF Batches, Baselines
    <2> QED BY <1>1, <1>2, <2>1, <2>2 DEF Batches
  <1> QED BY <1>3, <1>4, <1>5, <1>6, <1>7, <1>8

-------------------------------------------------------------------------------
\* The end of an operation, and close().

LEMMA ReturnToSearchKeeps ==
  ASSUME IInv, NEW o \in Operation, ReturnToSearch(o)
  PROVE  IInv'
  <1> USE DEF IInv, adapterVars, scopeVars, closingVars, GoTo
  <1>1. /\ UNCHANGED <<caller, boss, made, session, returning, origin, tracked, shut, scopeOwner,
                       baselines, pending, closes>>
        /\ caller = "search" /\ place[o] = "body" /\ Settled(o)
        /\ DOMAIN raising' = Operation
        /\ place' = [place EXCEPT ![o] = "over"]
        /\ using' = [using EXCEPT ![o] = {}]
    BY DEF ReturnToSearch, LeaveOperation, BodyEnds, Types
  <1>2. Types' /\ Hands' /\ Accounts'
    BY <1>1, HandsStay DEF Types
  <1>3. Places'
    BY <1>1 DEF Types, Places, Settled
  <1>4. Scopes'
    BY <1>1 DEF Types, Scopes
  <1>5. Registered' /\ Baselines' /\ Lasting' /\ Batches' /\ Beside'
    BY <1>1, UsesShrink
  <1> QED BY <1>2, <1>3, <1>4, <1>5

LEMMA DetailReturnsKeeps ==
  ASSUME IInv, NEW o \in Operation, DetailReturns(o)
  PROVE  IInv'
  <1> USE DEF IInv, sessionVars, adapterVars, scopeVars, closingVars, GoTo
  <1>1. /\ UNCHANGED <<caller, boss, made, session, returning, using, origin, tracked, shut,
                       scopeOwner, baselines, pending, closes>>
        /\ place[o] = "closing" /\ pending[o] = {}
        /\ DOMAIN raising' = Operation
        /\ place' = [place EXCEPT ![o] = "over"]
    BY DEF DetailReturns, Types
  <1>2. Types' /\ Hands' /\ Accounts'
    BY <1>1, HandsStay DEF Types
  <1>3. Places'
    BY <1>1 DEF Types, Places, Settled
  <1>4. Scopes'
    BY <1>1 DEF Types, Scopes
  <1>5. Registered' /\ Baselines' /\ Lasting' /\ Batches' /\ Beside'
    BY <1>1, UsesStay
  <1> QED BY <1>2, <1>3, <1>4, <1>5

\* The first close() takes what is registered, a later one nothing.
LEMMA ShutKeeps ==
  ASSUME IInv, NEW th \in Thread, Shut(th), pending[th] = {}, session[th] = NoTransport,
         UNCHANGED <<made, session, returning, origin, baselines, closes>>
  PROVE  /\ Hands' /\ Accounts' /\ Baselines' /\ Lasting' /\ Batches' /\ Beside'
         /\ shut' = TRUE /\ tracked' = {}
         /\ pending' \in [Thread -> SUBSET Transport]
         /\ \A other \in Thread \ {th} : pending'[other] = pending[other]
  <1> USE DEF IInv
  <1>1. /\ shut' = TRUE /\ tracked' = {}
        /\ pending' = [pending EXCEPT ![th] = tracked]
    BY DEF Shut, Places
  <1>2. Hands'
    BY <1>1 DEF Types, Hands, InHand
  <1>3. \A t \in Transport : Free(t)' <=> Free(t)
    BY <1>1 DEF Types, Free, InHand
  <1>4. Accounts'
    BY <1>3 DEF Accounts
  <1>5. Baselines' /\ Lasting' /\ Batches' /\ Beside'
    BY <1>1 DEF Baselines, Lasting, Batches, Beside, From
  <1> QED BY <1>1, <1>2, <1>4, <1>5 DEF Types

LEMMA CleanerClosesKeeps ==
  ASSUME IInv, CleanerCloses
  PROVE  IInv'
  <1> USE DEF IInv, operationVars, sessionVars, scopeVars
  <1>1. /\ UNCHANGED <<caller, place, raising, boss, made, session, returning, using, origin,
                       scopeOwner, baselines, closes>>
        /\ caller = "search" /\ ~shut /\ Shut(Cleaner)
    BY DEF CleanerCloses
  <1>2. pending[Cleaner] = {} /\ session[Cleaner] = NoTransport
    BY <1>1 DEF Places
  <1>3. /\ Hands' /\ Accounts' /\ Baselines' /\ Lasting' /\ Batches' /\ Beside'
        /\ shut' = TRUE /\ tracked' = {}
        /\ pending' \in [Thread -> SUBSET Transport]
        /\ \A other \in Thread \ {Cleaner} : pending'[other] = pending[other]
    BY <1>1, <1>2, ShutKeeps
  <1>4. Types'
    BY <1>1, <1>3 DEF Types
  <1>5. Places'
    BY <1>1, <1>3 DEF Places, Settled
  <1>6. Scopes'
    BY <1>1 DEF Scopes
  <1>7. Registered'
    BY <1>1, <1>3 DEF Registered, From
  <1> QED BY <1>3, <1>4, <1>5, <1>6, <1>7

LEMMA ReturnToDetailKeeps ==
  ASSUME IInv, NEW o \in Operation, ReturnToDetail(o)
  PROVE  IInv'
  <1> USE DEF IInv, scopeVars, GoTo
  <1>1. /\ UNCHANGED <<caller, boss, made, session, returning, origin, scopeOwner, baselines, closes>>
        /\ caller = "detail" /\ place[o] = "body" /\ Shut(o) /\ Settled(o)
        /\ DOMAIN raising' = Operation
        /\ place' = [place EXCEPT ![o] = "closing"]
        /\ using' = [using EXCEPT ![o] = {}]
    BY DEF ReturnToDetail, LeaveOperation, BodyEnds, DetailCloses, Types
  <1>2. pending[o] = {} /\ session[o] = NoTransport /\ returning[o] = NoTransport
    BY <1>1 DEF Settled
  <1>3. /\ Hands' /\ Accounts' /\ Baselines' /\ Lasting' /\ Batches' /\ Beside'
        /\ shut' = TRUE /\ tracked' = {}
        /\ pending' \in [Thread -> SUBSET Transport]
        /\ \A other \in Thread \ {o} : pending'[other] = pending[other]
    BY <1>1, <1>2, ShutKeeps
  <1>4. Types'
    BY <1>1, <1>3 DEF Types
  <1>5. Places'
    BY <1>1, <1>2, <1>3 DEF Types, Places, Settled
  <1>6. Scopes'
    BY <1>1 DEF Types, Scopes
  <1>7. Registered'
    <2>1. (shut' # shut \/ shut' = shut) /\ {} \in SUBSET using[o] /\ o \in Thread
      OBVIOUS
    <2>2. \A th \in Thread : using'[th] \subseteq using[th]
      BY <1>1 DEF Types
    <2> QED BY <1>1, <1>3, <2>2 DEF Registered, From
  <1> QED BY <1>3, <1>4, <1>5, <1>6, <1>7

LEMMA IInvStep == IInv /\ [Next]_vars => IInv'
  <1> SUFFICES ASSUME IInv, [Next]_vars PROVE IInv'
    OBVIOUS
  <1>1. CASE \E th \in Thread : Registration(th) \/ CloseNext(th)
    BY <1>1, MakeKeeps, RegisterKeeps, ReturnKeeps, RefuseKeeps, CloseNextKeeps DEF Registration
  <1>2. CASE \E o \in Operation : OperationStep(o)
    BY <1>2, EnterScopeKeeps, EndScopeKeeps, LeaveScopeKeeps, ReturnToSearchKeeps,
       ReturnToDetailKeeps, DetailReturnsKeeps, SubmitKeeps DEF OperationStep
  <1>3. CASE \E h \in Helper : HelperEnds(h)
    BY <1>3, HelperEndsKeeps
  <1>4. CASE CleanerCloses
    BY <1>4, CleanerClosesKeeps
  <1>5. CASE UNCHANGED vars
    <2>1. UNCHANGED <<caller, place, raising, boss, made, session, returning, using, origin,
                      tracked, shut, scopeOwner, baselines, pending, closes>>
      BY <1>5 DEF vars, operationVars, sessionVars, adapterVars, scopeVars, closingVars
    <2>2. Types' /\ Hands' /\ Accounts'
      BY <2>1, HandsStay DEF IInv, Types
    <2>3. Places' /\ Scopes'
      BY <2>1 DEF IInv, Places, Scopes, Settled
    <2>4. Registered' /\ Baselines' /\ Lasting' /\ Batches' /\ Beside'
      BY <2>1, UsesStay
    <2> QED BY <2>2, <2>3, <2>4 DEF IInv
  <1> QED BY <1>1, <1>2, <1>3, <1>4, <1>5 DEF Next

LEMMA IInvHolds == Spec => []IInv
  BY IInvInit, IInvStep, PTL DEF Spec

-------------------------------------------------------------------------------
\* Scopes, close() and refused registrations never close a transport twice.
THEOREM ClosedOnceAlways == Spec => []TransportClosedOnce
  <1>1. IInv => TransportClosedOnce
    BY DEF IInv, Types, Accounts, TransportClosedOnce
  <1> QED BY <1>1, IInvHolds, PTL

LEMMA UsedIsOpen == IInv => NotClosedInUse
  <1> SUFFICES ASSUME IInv, NEW th \in Thread, NEW t \in using[th], closes[t] > 0, ~shut,
                      origin[t] # "beside"
               PROVE  FALSE
    BY DEF NotClosedInUse
  <1>1. t \in Transport /\ origin[t] \in {"lasting", "batch"}
    BY DEF IInv, Types, Origins, Registered, From
  <1>2. t \in tracked
    BY <1>1 DEF IInv, Lasting, Batches, From
  <1> QED BY <1>1, <1>2 DEF IInv, Accounts, Free

\* While the adapter is open, no transport is closed under a thread that may use
\* it, wherever it was made, unless it was registered beside an open scope.
THEOREM NeverClosedInUse == Spec => []NotClosedInUse
  BY UsedIsOpen, IInvHolds, PTL

OneOperation == \A p, q \in Operation : p = q
ScopesCloseOwn == ~shut => \A t \in Transport : closes[t] > 0 => origin[t] = "batch"
OpenInUse == \A th \in Thread : \A t \in using[th] : closes[t] > 0 => shut

\* A stream runs one operation of each adapter, fetch_job_detail one of its own.
\* Then no transport is closed under a thread that may use it while the adapter is
\* open, and what is closed meanwhile was registered in a batch.
THEOREM OneOperationIsSafe == ASSUME OneOperation PROVE Spec => [](OpenInUse /\ ScopesCloseOwn)
  <1>1. IInv => OpenInUse /\ ScopesCloseOwn
    <2> SUFFICES ASSUME IInv PROVE OpenInUse /\ ScopesCloseOwn
      OBVIOUS
    <2>1. \A t \in Transport : origin[t] # "beside"
      BY DEF IInv, Beside, From, OneOperation
    <2>2. OpenInUse
      BY <2>1, UsedIsOpen DEF NotClosedInUse, OpenInUse, IInv, Types
    <2>3. ScopesCloseOwn
      <3> SUFFICES ASSUME ~shut, NEW t \in Transport, closes[t] > 0, origin[t] # "batch"
                   PROVE  FALSE
        BY DEF ScopesCloseOwn
      <3>1. origin[t] \in {"none", "lasting"}
        BY <2>1 DEF IInv, Types, Origins
      <3>2. CASE origin[t] = "lasting"
        BY <3>2 DEF IInv, Lasting, From, Accounts, Free
      <3>3. CASE origin[t] = "none"
        BY <3>3 DEF IInv, Registered, From, Accounts, Free, InHand
      <3> QED BY <3>1, <3>2, <3>3
    <2> QED BY <2>2, <2>3
  <1> QED BY <1>1, IInvHolds, PTL

\* No transport of a batch is registered when no scope runs, and when
\* fetch_job_detail returns all transports are closed.
THEOREM NothingIsKept == Spec => []NothingKept
  <1>1. IInv => NothingKept
    <2> SUFFICES ASSUME IInv PROVE NothingKept
      OBVIOUS
    <2>1. scopeOwner = Nobody => \A t \in tracked : origin[t] # "batch"
      BY DEF IInv, Types, Scopes, Baselines, From
    <2>2. ASSUME caller = "detail", \A o \in Operation : place[o] = "over", NEW t \in made
          PROVE  closes[t] = 1
      <3>1. tracked = {}
        BY <2>2 DEF IInv, Places
      <3>2. \A h \in Helper : boss[h] = Nobody
        BY <2>2 DEF IInv, Types, Scopes
      <3>3. \A th \in Thread : session[th] = NoTransport /\ pending[th] = {}
        BY <2>2, <3>2 DEF IInv, Places, Settled
      <3>4. t \in Transport /\ Free(t)
        BY <2>2, <3>1, <3>3 DEF IInv, Types, Free, InHand
      <3> QED BY <2>2, <3>4 DEF IInv, Accounts
    <2> QED BY <2>1, <2>2 DEF NothingKept
  <1> QED BY <1>1, IInvHolds, PTL
===============================================================================
