------------------------- MODULE BillingConfigProofs -------------------------
(***************************************************************************)
(* Proofs about BillingConfig, for any providers, bodies and calls.        *)
(***************************************************************************)
EXTENDS BillingConfig, TLAPS

USE ConfigAssumption

IInv == TypeOK /\ CopyInv /\ StoredConfigUsable /\ LoneInv /\ AloneInv /\ SecretsAddUp

-----------------------------------------------------------------------------
(* What Put makes of a document                                             *)

LEMMA BlankIsUsable == Blank \in Doc /\ Usable(Blank) /\ \A p \in Known : KeyOf(Blank.cred[p]) = None
  BY DEF Blank, Doc, Usable, KeyOf

LEMMA EditedCred ==
  ASSUME NEW old \in Cred \cup {None}, NEW new \in Cred \cup {None}
  PROVE  /\ Edited(old, new) \in Cred \cup {None}
         /\ KeyOf(Edited(old, new)) = IF KeyOf(new) # None THEN KeyOf(new) ELSE KeyOf(old)
         /\ KeyOf(new) \in Secrets \cup {None}
<1>1. CASE new = None
  BY <1>1 DEF Edited, KeyOf
<1>2. CASE new # None
  <2>1. new \in Cred /\ new.on \in BOOLEAN /\ new.key \in Secrets \cup {None}
    BY <1>2 DEF Cred
  <2>2. KeyOf(old) \in Secrets \cup {None}
    BY DEF KeyOf, Cred
  <2>3. Edited(old, new) = [on |-> new.on, key |-> IF new.key = None THEN KeyOf(old) ELSE new.key]
    BY <1>2 DEF Edited
  <2>4. Edited(old, new) \in Cred
    BY <2>1, <2>2, <2>3 DEF Cred
  <2>5. Edited(old, new) # None
    BY <2>4
  <2>6. KeyOf(Edited(old, new)) = IF new.key = None THEN KeyOf(old) ELSE new.key
    BY <2>3, <2>5 DEF KeyOf
  <2> QED BY <1>2, <2>1, <2>4, <2>6 DEF KeyOf
<1> QED BY <1>1, <1>2

\* An accepted body makes a usable document of one, with the secrets the body
\* sends and otherwise those that were there.
LEMMA MergedIsUsable ==
  ASSUME NEW d \in Doc, NEW b \in BodyType, Accepted(d, b)
  PROVE  /\ Merged(d, b) \in Doc
         /\ Usable(Merged(d, b))
         /\ \A p \in Known : KeyOf(Merged(d, b).cred[p]) =
               IF KeyOf(b.cred[p]) # None THEN KeyOf(b.cred[p]) ELSE KeyOf(d.cred[p])
<1>1. /\ b.default \in Known \cup {None, Keep}
      /\ \A p \in Names \ Known : b.cred[p] = None /\ d.cred[p] = None
      /\ d.default \in Known \cup {None}
      /\ b.cred \in [Names -> Cred \cup {None}] /\ d.cred \in [Names -> Cred \cup {None}]
  BY DEF Accepted, KnownNames, Doc, BodyType
<1>2. \A p \in Names : /\ Edited(d.cred[p], b.cred[p]) \in Cred \cup {None}
                       /\ p \notin Known => Edited(d.cred[p], b.cred[p]) = None
  BY <1>1, EditedCred DEF Edited
<1>3. [p \in Names |-> Edited(d.cred[p], b.cred[p])] \in [Names -> Cred \cup {None}]
  BY <1>2
<1>4. Merged(d, b) \in Doc
  BY <1>1, <1>2, <1>3 DEF Merged, Doc
<1>5. ASSUME NEW p \in Known
      PROVE  KeyOf(Merged(d, b).cred[p]) =
                IF KeyOf(b.cred[p]) # None THEN KeyOf(b.cred[p]) ELSE KeyOf(d.cred[p])
  <2>1. p \in Names /\ d.cred[p] \in Cred \cup {None} /\ b.cred[p] \in Cred \cup {None}
    BY <1>1
  <2> QED BY <2>1, EditedCred DEF Merged
<1> QED BY <1>4, <1>5 DEF Accepted

-----------------------------------------------------------------------------

LEMMA InitIInv == Init => IInv
<1> SUFFICES ASSUME Init PROVE IInv
  OBVIOUS
<1>1. TypeOK
  BY DEF Init, TypeOK
<1>2. CopyInv /\ StoredConfigUsable /\ LoneInv /\ AloneInv
  BY DEF Init, CopyInv, StoredConfigUsable, LoneInv, AloneInv, InFlight
<1>3. SecretsAddUp
  BY DEF Init, SecretsAddUp
<1> QED BY <1>1, <1>2, <1>3 DEF IInv

LEMMA CallType ==
  ASSUME TypeOK, CopyInv, NEW c \in Calls, pc[c] # "idle"
  PROVE  /\ call[c] \in Request /\ App(c) \in Apps
         /\ call[c].body \in Bodies \cup {Hook}
         /\ call[c].body # Hook => call[c].body \in BodyType
  BY DEF TypeOK, CopyInv, Request, App

LEMMA BeginPreserves ==
  ASSUME IInv, NEW c \in Calls, NEW a \in Apps, NEW body \in Bodies \cup {Hook},
         Begin(c, a, body)
  PROVE  IInv'
<1>1. [app |-> a, body |-> body] \in Request
  BY DEF Request
<1>2. TypeOK'
  BY <1>1 DEF IInv, TypeOK, Begin
<1>3. CopyInv' /\ StoredConfigUsable'
  BY <1>1 DEF IInv, TypeOK, CopyInv, StoredConfigUsable, Begin
<1>4. overlap \subseteq overlap'
  BY DEF Begin
<1>5. LoneInv'
  BY <1>4 DEF IInv, TypeOK, LoneInv, Begin, App, Sent
<1>6. AloneInv'
  <2> SUFFICES ASSUME NEW c1 \in Calls, NEW c2 \in Calls,
                      c1 \in InFlight', c2 \in InFlight',
                      App(c1)' = App(c2)', App(c1)' \notin overlap', c1 # c2
               PROVE  FALSE
    BY DEF AloneInv, InFlight
  <2>1. App(c)' = a /\ \A x \in Calls : x # c => App(x)' = App(x) /\ (x \in InFlight' => x \in InFlight)
    BY DEF IInv, TypeOK, Begin, App, InFlight
  <2>2. CASE c1 # c /\ c2 # c
    BY <1>4, <2>1, <2>2 DEF IInv, AloneInv
  <2>3. CASE c1 = c \/ c2 = c
    BY <2>1, <2>3 DEF Begin
  <2> QED BY <2>2, <2>3
<1>7. SecretsAddUp'
  BY <1>4 DEF IInv, SecretsAddUp, Begin
<1> QED BY <1>2, <1>3, <1>5, <1>6, <1>7 DEF IInv

\* A call that has read its document.
LEMMA ReadPreserves ==
  ASSUME IInv, NEW c \in Calls, pc[c] = "read",
         NEW l \in {"ok", "refused", "upsert"}, pc' = [pc EXCEPT ![c] = l],
         NEW d \in Doc \cup {None}, copy' = [copy EXCEPT ![c] = d],
         l = "upsert" =>
            /\ d # None /\ Usable(d)
            /\ App(c) \notin overlap =>
                  \A p \in Known : KeyOf(d.cred[p]) = Sent(App(c), call[c].body)[p],
         UNCHANGED <<store, call, failures, ledger, overlap>>
  PROVE  IInv'
<1>1. TypeOK'
  BY DEF IInv, TypeOK
<1>2. CopyInv' /\ StoredConfigUsable' /\ SecretsAddUp'
  BY DEF IInv, TypeOK, CopyInv, StoredConfigUsable, SecretsAddUp
<1>3. LoneInv'
  <2> SUFFICES ASSUME NEW x \in Calls, pc'[x] = "upsert", App(x) \notin overlap, NEW p \in Known
               PROVE  KeyOf(copy'[x].cred[p]) = Sent(App(x), call[x].body)[p]
    BY DEF LoneInv, App, Sent
  <2>1. CASE x = c
    BY <2>1 DEF IInv, TypeOK
  <2>2. CASE x # c
    BY <2>2 DEF IInv, TypeOK, LoneInv
  <2> QED BY <2>1, <2>2
<1>4. AloneInv'
  BY DEF IInv, TypeOK, AloneInv, InFlight, App
<1> QED BY <1>1, <1>2, <1>3, <1>4 DEF IInv

LEMMA ReadForPutPreserves ==
  ASSUME IInv, NEW c \in Calls, ReadForPut(c)
  PROVE  IInv'
<1> DEFINE d == IF store[App(c)] = None THEN Blank ELSE store[App(c)]
           b == call[c].body
<1>1. pc[c] = "read" /\ App(c) \in Apps /\ b \in BodyType /\ b # Hook
  BY CallType DEF IInv, ReadForPut
<1>2. d \in Doc
  BY <1>1, BlankIsUsable DEF IInv, TypeOK
<1>3. CASE Accepted(d, b) /\ copy' = [copy EXCEPT ![c] = Merged(d, b)]
                          /\ pc' = [pc EXCEPT ![c] = "upsert"]
  <2>1. /\ Merged(d, b) \in Doc /\ Usable(Merged(d, b))
        /\ \A p \in Known : KeyOf(Merged(d, b).cred[p]) =
              IF KeyOf(b.cred[p]) # None THEN KeyOf(b.cred[p]) ELSE KeyOf(d.cred[p])
    BY <1>1, <1>2, <1>3, MergedIsUsable
  <2>2. App(c) \notin overlap => \A p \in Known : KeyOf(d.cred[p]) = ledger[App(c)][p]
    BY <1>1, BlankIsUsable DEF IInv, SecretsAddUp
  <2>3. App(c) \notin overlap =>
           \A p \in Known : KeyOf(Merged(d, b).cred[p]) = Sent(App(c), call[c].body)[p]
    BY <1>1, <2>1, <2>2 DEF Sent
  <2> QED BY <1>1, <1>3, <2>1, <2>3, ReadPreserves DEF ReadForPut
<1>4. CASE pc' = [pc EXCEPT ![c] = "refused"] /\ UNCHANGED copy
  <2>1. copy' = [copy EXCEPT ![c] = copy[c]] /\ copy[c] \in Doc \cup {None}
    BY <1>4 DEF IInv, TypeOK
  <2> QED BY <1>1, <1>4, <2>1, ReadPreserves DEF ReadForPut
<1> QED BY <1>3, <1>4 DEF ReadForPut

LEMMA ReadForHookPreserves ==
  ASSUME IInv, NEW c \in Calls, ReadForHook(c)
  PROVE  IInv'
<1>1. pc[c] = "read" /\ App(c) \in Apps /\ call[c].body = Hook
  BY CallType DEF IInv, ReadForHook
<1>2. CASE pc' = [pc EXCEPT ![c] = "ok"] /\ UNCHANGED copy
  <2>1. copy' = [copy EXCEPT ![c] = copy[c]] /\ copy[c] \in Doc \cup {None}
    BY <1>2 DEF IInv, TypeOK
  <2> QED BY <1>1, <1>2, <2>1, ReadPreserves DEF ReadForHook
<1>3. CASE store[App(c)] = None /\ copy' = [copy EXCEPT ![c] = Blank]
                                /\ pc' = [pc EXCEPT ![c] = "upsert"]
  <2>1. App(c) \notin overlap =>
           \A p \in Known : KeyOf(Blank.cred[p]) = Sent(App(c), call[c].body)[p]
    BY <1>1, <1>3, BlankIsUsable DEF IInv, SecretsAddUp, Sent
  <2> QED BY <1>1, <1>3, <2>1, BlankIsUsable, ReadPreserves DEF ReadForHook
<1> QED BY <1>2, <1>3 DEF ReadForHook

\* Only the call itself can be about to write when its app had no overlap.
LEMMA StorePreserves ==
  ASSUME IInv, NEW c \in Calls, Store(c),
         NEW l \in {"ok", "failed"}, pc' = [pc EXCEPT ![c] = l],
         failures' \in 0..MaxFailures
  PROVE  IInv'
<1>1. /\ pc[c] = "upsert" /\ App(c) \in Apps /\ copy[c] \in Doc /\ Usable(copy[c])
      /\ call[c].body \in Bodies \cup {Hook} /\ (call[c].body # Hook => call[c].body \in BodyType)
  BY CallType DEF IInv, TypeOK, CopyInv, Store
<1>2. Sent(App(c), call[c].body) \in [Known -> Secrets \cup {None}]
  <2>1. call[c].body # Hook => \A p \in Known : call[c].body.cred[p] \in Cred \cup {None}
    BY <1>1 DEF BodyType
  <2>2. call[c].body # Hook => \A p \in Known : KeyOf(call[c].body.cred[p]) \in Secrets \cup {None}
    BY <2>1, EditedCred
  <2> QED BY <1>1, <2>2 DEF IInv, TypeOK, Sent
<1>3. TypeOK'
  BY <1>1, <1>2 DEF IInv, TypeOK, Store
<1>4. CopyInv' /\ StoredConfigUsable'
  BY <1>1 DEF IInv, TypeOK, CopyInv, StoredConfigUsable, Store
<1>5. AloneInv'
  BY DEF IInv, TypeOK, AloneInv, InFlight, App, Store
<1>6. LoneInv'
  <2> SUFFICES ASSUME NEW x \in Calls, pc'[x] = "upsert", App(x) \notin overlap
               PROVE  \A p \in Known : KeyOf(copy[x].cred[p]) = Sent(App(x), call[x].body)'[p]
    BY DEF LoneInv, App, Store, Sent
  <2>1. x # c /\ pc[x] = "upsert"
    BY DEF IInv, TypeOK
  <2>2. App(x) # App(c)
    BY <1>1, <2>1 DEF IInv, AloneInv, InFlight
  <2>3. App(x) \in Apps
    BY <2>1, CallType DEF IInv
  <2>4. Sent(App(x), call[x].body)' = Sent(App(x), call[x].body)
    BY <2>2, <2>3 DEF Sent, Store, App, IInv, TypeOK
  <2> QED BY <2>1, <2>4 DEF IInv, LoneInv
<1>7. SecretsAddUp'
  <2> SUFFICES ASSUME NEW a \in Apps, a \notin overlap, NEW p \in Known
               PROVE  (IF store'[a] = None THEN None ELSE KeyOf(store'[a].cred[p])) = ledger'[a][p]
    BY DEF SecretsAddUp, Store
  <2>1. CASE a = App(c)
    BY <1>1, <2>1 DEF IInv, TypeOK, LoneInv, Store
  <2>2. CASE a # App(c)
    BY <1>1, <2>2 DEF IInv, TypeOK, SecretsAddUp, Store
  <2> QED BY <2>1, <2>2
<1> QED BY <1>3, <1>4, <1>5, <1>6, <1>7 DEF IInv

LEMMA FailPreserves ==
  ASSUME IInv, NEW c \in Calls, Fail(c)
  PROVE  IInv'
<1>1. failures' \in 0..MaxFailures /\ pc' = [pc EXCEPT ![c] = "failed"]
  BY DEF Fail, IInv, TypeOK
<1>2. CASE Store(c)
  BY <1>1, <1>2, StorePreserves
<1>3. CASE UNCHANGED <<store, call, copy, ledger, overlap>>
  <2>1. TypeOK'
    BY <1>1, <1>3 DEF IInv, TypeOK
  <2> CopyInv'
    BY <1>1, <1>3 DEF IInv, TypeOK, CopyInv, Fail, InFlight
  <2> StoredConfigUsable' /\ SecretsAddUp'
    BY <1>3 DEF IInv, StoredConfigUsable, SecretsAddUp
  <2>2. LoneInv'
    BY <1>1, <1>3 DEF IInv, TypeOK, LoneInv, App, Sent
  <2>3. AloneInv'
    BY <1>1, <1>3 DEF IInv, TypeOK, AloneInv, InFlight, App
  <2> QED BY <2>1, <2>2, <2>3 DEF IInv
<1> QED BY <1>2, <1>3 DEF Fail

-----------------------------------------------------------------------------

\* The inductive invariant holds of every behaviour.
THEOREM Invariance == Spec => []IInv
<1>1. IInv /\ [Next]_vars => IInv'
  <2> SUFFICES ASSUME IInv, [Next]_vars PROVE IInv'
    OBVIOUS
  <2>1. ASSUME NEW c \in Calls, Upsert(c) PROVE IInv'
    <3>1. failures' \in 0..MaxFailures
      BY <2>1 DEF Upsert, IInv, TypeOK
    <3> QED BY <2>1, <3>1, StorePreserves DEF Upsert
  <2>2. CASE UNCHANGED vars
    <3>1. TypeOK' /\ CopyInv' /\ StoredConfigUsable' /\ SecretsAddUp'
      BY <2>2 DEF IInv, TypeOK, CopyInv, StoredConfigUsable, SecretsAddUp, vars
    <3>2. LoneInv' /\ AloneInv'
      BY <2>2 DEF IInv, LoneInv, AloneInv, InFlight, App, Sent, vars
    <3> QED BY <3>1, <3>2 DEF IInv
  <2> QED BY <2>1, <2>2, BeginPreserves, ReadForPutPreserves, ReadForHookPreserves,
             FailPreserves DEF Next
<1> QED BY <1>1, InitIInv, PTL DEF Spec

\* Every variable keeps its type: no unknown provider is ever stored.
THEOREM TypeCorrectness == Spec => []TypeOK
<1>1. IInv => TypeOK
  BY DEF IInv
<1> QED BY <1>1, Invariance, PTL

\* A stored configuration with a default provider can be used, however Puts
\* overlap or fail.
THEOREM ConfigsStayUsable == Spec => []StoredConfigUsable
<1>1. IInv => StoredConfigUsable
  BY DEF IInv
<1> QED BY <1>1, Invariance, PTL

\* Puts that follow each other add up: no secret is lost or invented.
THEOREM NoSecretLost == Spec => []SecretsAddUp
<1>1. IInv => SecretsAddUp
  BY DEF IInv
<1> QED BY <1>1, Invariance, PTL

=============================================================================
