-------------------------- MODULE CredentialsProofs --------------------------
(***************************************************************************)
(* Credentials, for any values, any contents of the stores and any number  *)
(* of changes to them: types, and what a result says about the stores.     *)
(*                                                                         *)
(* The inductive invariant adds to the types what the history knows while  *)
(* a call lasts (HeldInv) and what each place of a call rests on           *)
(* (PlaceInv); the properties proper speak of results (ResultInv).         *)
(***************************************************************************)
EXTENDS Credentials, TLAPS

HeldInv ==
    /\ env.region # ""
    /\ pc # "idle" =>
        /\ bao \in baoHeld /\ kube \in kubeHeld /\ config \in configHeld
        /\ Lapse => lapsed

PlaceInv ==
    /\ pc # "idle" => source = "uncalled"
    /\ pc \in {"appRole", "login", "read", "supplement"} =>
          UsesBao /\ ~Complete(env)
    /\ pc = "kube" => UsesKube /\ ~Complete(env) /\ (UsesBao => lapsed)
    /\ pc = "supplement" =>
          /\ Complete(creds)
          /\ \E e \in baoHeld : creds = WithRegion(e)

\* GrantedAsStored, with what the code makes of a missing region.
AsHeld ==
    /\ source = "env" => granted = env
    /\ source = "kubernetes" =>
          UsesKube /\ \E e \in kubeHeld : granted = WithRegion(e)
    /\ source = "openbao" =>
          /\ UsesBao
          /\ \E e \in baoHeld :
                /\ granted.key = e.key /\ granted.secret = e.secret
                /\ granted.region = WithRegion(e).region
                /\ FilledFrom(granted.vpc, e.vpc, {c.vpc : c \in configHeld})
                /\ FilledFrom(granted.subnet, e.subnet,
                              {c.subnet : c \in configHeld})

ResultInv == AsHeld /\ UsableGrants /\ NoneWithoutCause

CredsInv == TypeOK /\ HeldInv /\ PlaceInv /\ ResultInv

LEMMA NothingIsEntry == Nothing \in Entry
  BY DEF Nothing, Entry, Field

\* The default region completes an entry and changes nothing else.
LEMMA DefaultRegion ==
  ASSUME NEW e \in Entry
  PROVE  /\ WithRegion(e) \in Entry /\ WithRegion(e).region # ""
         /\ Complete(e) <=> Complete(WithRegion(e))
         /\ \A f \in {"key", "secret", "vpc", "subnet"} : WithRegion(e)[f] = e[f]
         /\ WithRegion(e).region = IF e.region = "" THEN "KR" ELSE e.region
  BY TextAssumption DEF WithRegion, Complete, Entry, Field

LEMMA InitCreds == Init => CredsInv
  <1> SUFFICES ASSUME Init PROVE CredsInv
    OBVIOUS
  <1>1. env \in Entry /\ env.region # ""
    BY ContentsAssumption, DefaultRegion DEF Init
  <1>2. bao \in Entry /\ kube \in Entry /\ config \in Supplement
    BY ContentsAssumption DEF Init
  <1>3. changes \in 0..MaxChanges
    BY ChangesAssumption DEF Init
  <1>4. TypeOK
    BY <1>1, <1>2, <1>3, NothingIsEntry DEF Init, TypeOK, Sources
  <1>5. QED
    BY <1>1, <1>4 DEF Init, CredsInv, HeldInv, PlaceInv, ResultInv,
                AsHeld, UsableGrants, NoneWithoutCause

\* Steps of a call that end it with an error.
LEMMA RefuseStep ==
  ASSUME CredsInv, pc # "idle", Refuse, UNCHANGED <<setup, stores, history>>,
         ~Complete(env), UsesBao => lapsed,
         UsesKube => \E e \in kubeHeld : ~Complete(e)
  PROVE  CredsInv'
  <1>1. TypeOK'
    BY NothingIsEntry DEF CredsInv, TypeOK, Refuse, Grant, Sources, setup, stores, history
  <1>2. HeldInv' /\ PlaceInv'
    BY DEF CredsInv, Refuse, Grant, HeldInv, PlaceInv, setup
  <1>3. ResultInv'
    BY DEF Refuse, Grant, ResultInv, AsHeld, UsableGrants,
           NoneWithoutCause, Complete, UsesBao, UsesKube, setup, history
  <1>4. QED  BY <1>1, <1>2, <1>3 DEF CredsInv

\* Steps that go on to another place.
LEMMA GotoStep ==
  ASSUME CredsInv, pc # "idle", ~Complete(env),
         NEW label \in {"appRole", "login", "read", "kube"}, Goto(label),
         label # "kube" => UsesBao,
         label = "kube" => UsesKube /\ (UsesBao => lapsed),
         UNCHANGED <<setup, stores, history>>
  PROVE  CredsInv'
  <1>1. TypeOK'
    BY DEF CredsInv, TypeOK, Goto, setup, stores, history
  <1>2. HeldInv'
    BY DEF CredsInv, Goto, HeldInv, Lapse, setup, stores, history, Complete
  <1>3. PlaceInv'
    BY DEF CredsInv, Goto, PlaceInv, setup, stores, history, Complete,
           UsesBao, UsesKube
  <1>4. ResultInv'
    BY DEF CredsInv, PlaceInv, Goto, ResultInv, AsHeld, UsableGrants,
           NoneWithoutCause
  <1>5. QED  BY <1>1, <1>2, <1>3, <1>4 DEF CredsInv

\* OpenBao's error ends the call or leads on to the Secret.
LEMMA BaoFailsStep ==
  ASSUME CredsInv, pc \in {"appRole", "login", "read"}, BaoFails, lapsed,
         UNCHANGED <<setup, stores, history>>
  PROVE  CredsInv'
  <1>1. UsesBao /\ ~Complete(env)
    BY DEF CredsInv, PlaceInv
  <1>2. CASE mode = "auto"
    BY <1>1, <1>2, GotoStep DEF BaoFails, UsesKube
  <1>3. CASE mode # "auto"
    <2>1. ~UsesKube
      BY <1>1, <1>3 DEF UsesBao, UsesKube
    <2>2. QED  BY <1>1, <1>3, <2>1, RefuseStep DEF BaoFails
  <1>4. QED  BY <1>2, <1>3

\* Steps that end a call with a result.
LEMMA GrantStep ==
  ASSUME CredsInv, NEW from \in {"env", "openbao", "kubernetes"},
         NEW e \in Entry, Grant(from, e), UNCHANGED <<setup, stores, history>>,
         Complete(e), e.region # "",
         from = "env" => e = env,
         from = "kubernetes" =>
             /\ UsesKube /\ (UsesBao => lapsed)
             /\ \E k \in kubeHeld : e = WithRegion(k),
         from = "openbao" =>
             /\ UsesBao
             /\ \E b \in baoHeld :
                   /\ e.key = b.key /\ e.secret = b.secret
                   /\ e.region = WithRegion(b).region
                   /\ FilledFrom(e.vpc, b.vpc, {c.vpc : c \in configHeld})
                   /\ FilledFrom(e.subnet, b.subnet,
                                 {c.subnet : c \in configHeld})
  PROVE  CredsInv'
  <1>1. TypeOK'
    BY NothingIsEntry DEF CredsInv, TypeOK, Grant, Sources, setup, stores, history
  <1>2. HeldInv' /\ PlaceInv'
    BY DEF CredsInv, Grant, HeldInv, PlaceInv, setup
  <1>3. /\ source' = from /\ granted' = e /\ env' = env /\ mode' = mode
        /\ baoHeld' = baoHeld /\ kubeHeld' = kubeHeld
        /\ configHeld' = configHeld /\ lapsed' = lapsed
    BY DEF Grant, setup, history
  <1>4. AsHeld'
    BY <1>3 DEF AsHeld, UsesBao, UsesKube
  <1>5. UsableGrants' /\ NoneWithoutCause'
    BY <1>3 DEF UsableGrants, NoneWithoutCause, UsesBao
  <1>6. QED  BY <1>1, <1>2, <1>4, <1>5 DEF CredsInv, ResultInv

LEMMA CallStep == CredsInv /\ Call => CredsInv'
  <1> SUFFICES ASSUME CredsInv, Call PROVE CredsInv'
    OBVIOUS
  <1>1. TypeOK'
    BY NothingIsEntry DEF CredsInv, TypeOK, Call, Sources, Lapse, setup, stores
  <1>2. HeldInv'
    BY DEF CredsInv, HeldInv, Call, Lapse, Complete, setup, stores
  <1>3. PlaceInv' /\ ResultInv'
    BY DEF PlaceInv, ResultInv, AsHeld, UsableGrants,
           NoneWithoutCause, Call
  <1>4. QED  BY <1>1, <1>2, <1>3 DEF CredsInv

LEMMA StartStep == CredsInv /\ (FromEnv \/ Choose) => CredsInv'
  <1> SUFFICES ASSUME CredsInv, FromEnv \/ Choose PROVE CredsInv'
    OBVIOUS
  <1>1. CASE FromEnv
    <2>1. env \in Entry /\ Complete(env) /\ env.region # ""
      BY <1>1 DEF CredsInv, TypeOK, HeldInv, FromEnv
    <2>2. QED  BY <1>1, <2>1, GrantStep DEF FromEnv
  <1>2. CASE Choose
    <2>1. CASE UsesBao /\ Goto("appRole")
      BY <1>2, <2>1, GotoStep DEF Choose
    <2>2. CASE mode \in {"eso", "kubernetes"} /\ Goto("kube")
      BY <1>2, <2>2, GotoStep DEF Choose, UsesBao, UsesKube
    <2>3. CASE mode = "other" /\ Refuse
      BY <1>2, <2>3, RefuseStep DEF Choose, UsesBao, UsesKube
    <2>4. QED  BY <1>2, <2>1, <2>2, <2>3 DEF Choose
  <1>3. QED  BY <1>1, <1>2

LEMMA BaoStep ==
  CredsInv /\ (ReadAppRole \/ Login \/ ReadBao \/ SupplementFromConfigMap)
      => CredsInv'
  <1> SUFFICES ASSUME CredsInv,
                      ReadAppRole \/ Login \/ ReadBao \/ SupplementFromConfigMap
               PROVE  CredsInv'
    OBVIOUS
  <1>0. /\ bao \in Entry /\ config \in Supplement /\ creds \in Entry
        /\ pc # "idle" /\ bao \in baoHeld /\ config \in configHeld
        /\ UsesBao /\ ~Complete(env) /\ (Lapse => lapsed)
    BY DEF CredsInv, TypeOK, HeldInv, PlaceInv, ReadAppRole, Login, ReadBao,
           SupplementFromConfigMap
  <1>1. CASE ReadAppRole
    <2>1. CASE appRole
      BY <1>0, <1>1, <2>1, GotoStep DEF ReadAppRole
    <2>2. CASE ~appRole
      BY <1>0, <1>1, <2>2, BaoFailsStep DEF ReadAppRole, Lapse
    <2>3. QED  BY <2>1, <2>2
  <1>2. CASE Login
    <2>1. CASE serving
      BY <1>0, <1>2, <2>1, GotoStep DEF Login
    <2>2. CASE ~serving
      BY <1>0, <1>2, <2>2, BaoFailsStep DEF Login, Lapse
    <2>3. QED  BY <2>1, <2>2
  <1>3. CASE ReadBao
    <2> DEFINE e == WithRegion(bao)
    <2>1. /\ e \in Entry /\ e.region # "" /\ (Complete(bao) => Complete(e))
          /\ e.key = bao.key /\ e.secret = bao.secret
          /\ e.vpc = bao.vpc /\ e.subnet = bao.subnet
      BY <1>0, DefaultRegion
    <2>2. CASE ~(serving /\ Complete(bao))
      BY <1>0, <1>3, <2>2, BaoFailsStep DEF ReadBao, Lapse
    <2>3. CASE /\ serving /\ Complete(bao)
               /\ pc' = "supplement" /\ creds' = e /\ UNCHANGED <<source, granted>>
      <3>1. UNCHANGED <<setup, stores, history>>
        BY <1>3 DEF ReadBao
      <3>2. TypeOK'
        BY <2>1, <2>3, <3>1 DEF CredsInv, TypeOK, setup, stores, history
      <3>3. HeldInv'
        BY <1>0, <2>3, <3>1 DEF CredsInv, HeldInv, Lapse, Complete, setup,
                                stores, history
      <3>4. PlaceInv'
        BY <1>0, <2>1, <2>3, <3>1 DEF CredsInv, PlaceInv, Complete, UsesBao,
                                      setup, stores, history
      <3>5. ResultInv'
        BY <1>0, <2>3, <3>1, <3>4 DEF PlaceInv, ResultInv, AsHeld,
                                      UsableGrants, NoneWithoutCause
      <3>6. QED  BY <3>2, <3>3, <3>4, <3>5 DEF CredsInv
    <2>4. CASE serving /\ Complete(bao) /\ Grant("openbao", e)
      <3>1. UNCHANGED <<setup, stores, history>>
        BY <1>3 DEF ReadBao
      <3>2. QED
        BY <1>0, <2>1, <2>4, <3>1, GrantStep DEF FilledFrom
    <2>5. QED  BY <1>3, <2>2, <2>3, <2>4 DEF ReadBao
  <1>4. CASE SupplementFromConfigMap
    <2>1. PICK b \in baoHeld : creds = WithRegion(b)
      BY <1>4 DEF CredsInv, PlaceInv, SupplementFromConfigMap
    <2>2. b \in Entry /\ Complete(creds)
      BY <1>4, <2>1 DEF CredsInv, TypeOK, PlaceInv, SupplementFromConfigMap
    <2> DEFINE vpc == IF creds.vpc = "" THEN config.vpc ELSE creds.vpc
               subnet == IF creds.subnet = "" THEN config.subnet ELSE creds.subnet
               e == [creds EXCEPT !.vpc = vpc, !.subnet = subnet]
    <2>3. /\ creds.region # "" /\ creds.region = WithRegion(b).region
          /\ creds.key = b.key /\ creds.secret = b.secret
          /\ creds.vpc = b.vpc /\ creds.subnet = b.subnet
      BY <2>1, <2>2, DefaultRegion
    <2>4. Grant("openbao", e)
      BY <1>0, <1>4, <2>3 DEF SupplementFromConfigMap, WithRegion, Entry
    <2>5. /\ e \in Entry /\ Complete(e) /\ e.region = creds.region
          /\ e.key = creds.key /\ e.secret = creds.secret
          /\ e.vpc = vpc /\ e.subnet = subnet
      BY <1>0, <2>2 DEF Entry, Supplement, Complete
    <2>6. /\ FilledFrom(e.vpc, b.vpc, {c.vpc : c \in configHeld})
          /\ FilledFrom(e.subnet, b.subnet, {c.subnet : c \in configHeld})
      BY <1>0, <2>3, <2>5 DEF FilledFrom
    <2>7. UNCHANGED <<setup, stores, history>>
      BY <1>4 DEF SupplementFromConfigMap
    <2> HIDE DEF e
    <2>8. QED
      BY <1>0, <2>3, <2>4, <2>5, <2>6, <2>7, GrantStep
  <1>5. QED  BY <1>1, <1>2, <1>3, <1>4

LEMMA KubeStep == CredsInv /\ ReadKube => CredsInv'
  <1> SUFFICES ASSUME CredsInv, ReadKube PROVE CredsInv'
    OBVIOUS
  <1>1. /\ kube \in Entry /\ kube \in kubeHeld
        /\ UsesKube /\ ~Complete(env) /\ (UsesBao => lapsed)
    BY DEF CredsInv, TypeOK, HeldInv, PlaceInv, ReadKube
  <1>2. CASE Complete(kube) /\ Grant("kubernetes", WithRegion(kube))
    <2>1. /\ WithRegion(kube) \in Entry /\ WithRegion(kube).region # ""
          /\ Complete(WithRegion(kube))
      BY <1>1, <1>2, DefaultRegion
    <2>2. UNCHANGED <<setup, stores, history>>
      BY DEF ReadKube
    <2>3. QED  BY <1>1, <1>2, <2>1, <2>2, GrantStep
  <1>3. CASE ~Complete(kube) /\ Refuse
    BY <1>1, <1>3, RefuseStep DEF ReadKube
  <1>4. QED  BY <1>2, <1>3 DEF ReadKube

\* What others do enters the history of a call, and changes no result.
LEMMA OthersStep == CredsInv /\ (Change \/ Toggle) => CredsInv'
  <1> SUFFICES ASSUME CredsInv, Change \/ Toggle PROVE CredsInv'
    OBVIOUS
  <1>0. /\ bao' \in Entry /\ kube' \in Entry /\ config' \in Supplement
        /\ UNCHANGED <<setup, pc, creds, source, granted>>
    BY ContentsAssumption DEF CredsInv, TypeOK, Change, Toggle, setup
  <1>x. appRole' \in BOOLEAN /\ serving' \in BOOLEAN
    BY DEF CredsInv, TypeOK, Change, Toggle
  <1>y. changes' \in 0..MaxChanges
    BY ChangesAssumption DEF CredsInv, TypeOK, Change, Toggle
  <1>1. /\ bao' \in Entry /\ kube' \in Entry /\ config' \in Supplement
        /\ appRole' \in BOOLEAN /\ serving' \in BOOLEAN
        /\ changes' \in 0..MaxChanges
        /\ UNCHANGED <<setup, pc, creds, source, granted>>
    BY <1>0, <1>x, <1>y
  <1>2. CASE pc = "idle"
    <2>1. UNCHANGED history
      BY <1>2 DEF Change, Toggle, Witness
    <2>2. TypeOK'
      BY <1>1, <2>1 DEF CredsInv, TypeOK, setup, history
    <2>3. QED
      BY <1>1, <1>2, <2>1, <2>2 DEF CredsInv, HeldInv, PlaceInv, ResultInv,
         AsHeld, UsableGrants, NoneWithoutCause, UsesBao, UsesKube,
         setup, history
  <1>3. CASE pc # "idle"
    <2>1. /\ baoHeld' = baoHeld \cup {bao'} /\ kubeHeld' = kubeHeld \cup {kube'}
          /\ configHeld' = configHeld \cup {config'}
          /\ lapsed' = (lapsed \/ Lapse')
      BY <1>3 DEF Change, Toggle, Witness
    <2>2. TypeOK'
      BY <1>1, <2>1 DEF CredsInv, TypeOK, Lapse, setup
    <2>3. HeldInv'
      BY <1>1, <2>1 DEF CredsInv, HeldInv, setup
    <2>4. PlaceInv'
      BY <1>1, <2>1 DEF CredsInv, PlaceInv, Complete, UsesBao, UsesKube, setup
    <2>5. ResultInv'
      BY <1>1, <1>3, <2>4 DEF PlaceInv, ResultInv, AsHeld,
                              UsableGrants, NoneWithoutCause
    <2>6. QED  BY <2>2, <2>3, <2>4, <2>5 DEF CredsInv
  <1>4. QED  BY <1>2, <1>3

LEMMA CredsStep == CredsInv /\ [Next]_vars => CredsInv'
  <1>1. ASSUME CredsInv, UNCHANGED vars PROVE CredsInv'
    <2>1. UNCHANGED <<setup, stores, history, pc, creds, source, granted>>
      BY <1>1 DEF vars, setup, stores, history
    <2>2. TypeOK'
      BY <1>1, <2>1 DEF CredsInv, TypeOK, setup, stores, history
    <2>3. HeldInv'
      BY <1>1, <2>1 DEF CredsInv, HeldInv, Lapse, Complete, setup, stores, history
    <2>4. PlaceInv'
      BY <1>1, <2>1 DEF CredsInv, PlaceInv, Complete, UsesBao, UsesKube, setup,
                        history
    <2>5. ResultInv'
      BY <1>1, <2>1 DEF CredsInv, ResultInv, AsHeld, UsableGrants,
                        NoneWithoutCause, UsesBao, UsesKube, setup, history
    <2>6. QED  BY <2>2, <2>3, <2>4, <2>5 DEF CredsInv
  <1>2. QED
    BY <1>1, CallStep, StartStep, BaoStep, KubeStep, OthersStep
       DEF Next, Worker

LEMMA CredsInvariant == Spec => []CredsInv
  BY InitCreds, CredsStep, PTL DEF Spec
-----------------------------------------------------------------------------
\* Every variable keeps to its type.
THEOREM CredentialTypes == Spec => []TypeOK
  BY CredsInvariant, PTL DEF CredsInv

\* A result is one entry of one store the mode allows, as it was at one moment
\* of the call; only where the entry has no region, VPC or subnet does another
\* object, or the default region, give one.
THEOREM OneEntryGranted == Spec => []GrantedAsStored
  <1>1. CredsInv => GrantedAsStored
    BY DEF CredsInv, ResultInv, AsHeld, GrantedAsStored, FilledFrom, WithRegion,
           TypeOK, Entry
  <1>2. QED  BY CredsInvariant, <1>1, PTL

\* The region of a result from OpenBao is its entry's, or else the default:
\* never the ConfigMap's, which comments of OpenBaoSecretProvider's
\* GetCredentials and supplementFromConfigMap say supplements it.  readSecret
\* has set the default by then.
THEOREM ConfigRegionUnused ==
  Spec => [](source = "openbao" =>
               \E e \in baoHeld : granted.region = WithRegion(e).region)
  <1>1. CredsInv => (source = "openbao" =>
                       \E e \in baoHeld : granted.region = WithRegion(e).region)
    BY DEF CredsInv, ResultInv, AsHeld
  <1>2. QED  BY CredsInvariant, <1>1, PTL

\* A result without error has key, secret and region.
THEOREM ResultsUsable == Spec => []UsableGrants
  BY CredsInvariant, PTL DEF CredsInv, ResultInv

\* The Secret stands in for OpenBao, and errors are returned, only with cause.
THEOREM CauseForFallback == Spec => []NoneWithoutCause
  BY CredsInvariant, PTL DEF CredsInv, ResultInv
=============================================================================
