----------------------------- MODULE Credentials -----------------------------
(***************************************************************************)
(* How the controller comes by the keys of its Naver Cloud account:        *)
(* getCredentials, which a reconcile calls a dozen times over, and the     *)
(* providers behind it (secret_provider.go, secret_config.go), set up by   *)
(* main from the environment.                                              *)
(*                                                                         *)
(* A call reads one thing after another - the AppRole Secret, OpenBao's    *)
(* login, its secret, a ConfigMap, or else a Kubernetes Secret - while     *)
(* administrators change each of them and OpenBao comes and goes.  An      *)
(* empty value is "", as in the code; an object that is missing reads as   *)
(* one without values, which every place that reads it treats alike.       *)
(***************************************************************************)
EXTENDS Naturals

CONSTANTS
    Text,        \* the values a field may have
    Contents,    \* what OpenBao, the Secret and the environment may hold
    ConfigMaps,  \* what the ConfigMap naver-cloud-config may hold
    MaxChanges   \* bound: changes to what they hold

Field == Text \cup {""}

\* An access key with its secret, and where in the cloud they are to be used.
Entry == [key : Field, secret : Field, region : Field, vpc : Field,
          subnet : Field]
Supplement == [region : Field, vpc : Field, subnet : Field]

ASSUME TextAssumption == "KR" \in Text /\ "" \notin Text
ASSUME ContentsAssumption ==
    Contents \subseteq Entry /\ ConfigMaps \subseteq Supplement
ASSUME ChangesAssumption == MaxChanges \in Nat

VARIABLES
    mode,      \* SecretConfig.Management.Mode
    env,       \* NaverCloudConfig
    appRole,   \* the AppRole Secret has both of its values
    serving,   \* OpenBao answers, and accepts the login and the token
    bao,       \* the secret in OpenBao
    kube,      \* the Kubernetes Secret, as the client's cache has it
    config     \* the ConfigMap, likewise

VARIABLES
    pc,        \* where the call is, "idle" between calls
    creds,     \* credentials
    source,    \* where the last call's result came from, or "error"
    granted    \* that result

\* History, for the properties: changes made, what each store has held since
\* the call began, and whether OpenBao was of no use at some moment of it.
VARIABLES changes, baoHeld, kubeHeld, configHeld, lapsed

setup == <<mode, env>>
stores == <<appRole, serving, bao, kube, config, changes>>
history == <<baoHeld, kubeHeld, configHeld, lapsed>>
vars == <<mode, env, appRole, serving, bao, kube, config, pc, creds, source,
          granted, changes, baoHeld, kubeHeld, configHeld, lapsed>>

\* SECRET_MODE is free text; "other" stands for what is no mode.
Modes == {"auto", "openbao", "eso", "kubernetes", "other"}
UsesBao == mode \in {"auto", "openbao"}
UsesKube == mode \in {"auto", "eso", "kubernetes"}
Sources == {"uncalled", "error", "env", "openbao", "kubernetes"}

Complete(e) == e.key # "" /\ e.secret # ""

\* The default region.
WithRegion(e) == [e EXCEPT !.region = IF @ = "" THEN "KR" ELSE @]

\* Types and ranges of all variables.
TypeOK ==
    /\ mode \in Modes /\ env \in Entry
    /\ appRole \in BOOLEAN /\ serving \in BOOLEAN
    /\ bao \in Entry /\ kube \in Entry /\ config \in Supplement
    /\ pc \in {"idle", "start", "appRole", "login", "read", "supplement", "kube"}
    /\ creds \in Entry /\ granted \in Entry /\ source \in Sources
    /\ changes \in 0..MaxChanges
    /\ baoHeld \subseteq Entry /\ kubeHeld \subseteq Entry
    /\ configHeld \subseteq Supplement /\ lapsed \in BOOLEAN

Nothing == [key |-> "", secret |-> "", region |-> "", vpc |-> "", subnet |-> ""]

\* OpenBao is of no use at this moment.
Lapse == ~appRole \/ ~serving \/ ~Complete(bao)

Init ==
    /\ mode \in Modes
    /\ \E e \in Contents : env = WithRegion(e)
    /\ appRole \in BOOLEAN /\ serving \in BOOLEAN
    /\ bao \in Contents /\ kube \in Contents /\ config \in ConfigMaps
    /\ pc = "idle" /\ creds = Nothing /\ source = "uncalled" /\ granted = Nothing
    /\ changes = 0
    /\ baoHeld = {} /\ kubeHeld = {} /\ configHeld = {} /\ lapsed = FALSE
-----------------------------------------------------------------------------
(* How a call goes on and ends.                                            *)

Goto(label) == pc' = label /\ UNCHANGED <<creds, source, granted>>

Grant(from, e) == pc' = "idle" /\ creds' = Nothing /\ source' = from /\ granted' = e
Refuse == Grant("error", Nothing)

\* Bug: an OpenBao that is set as the mode is given up for the Secret, too.
BaoFailsOver == Goto("kube")

\* GetCredentials of the OpenBao provider returns an error.
BaoFails == IF mode = "auto" THEN Goto("kube") ELSE Refuse

\* Nothing outlasts a call: each makes new providers.
Call ==
    /\ pc = "idle"
    /\ pc' = "start" /\ creds' = Nothing /\ source' = "uncalled" /\ granted' = Nothing
    /\ baoHeld' = {bao} /\ kubeHeld' = {kube} /\ configHeld' = {config}
    /\ lapsed' = Lapse
    /\ UNCHANGED <<setup, stores>>

FromEnv ==
    /\ pc = "start" /\ Complete(env)
    /\ Grant("env", env)
    /\ UNCHANGED <<setup, stores, history>>

\* Bug: the mode is taken for a provider's name.
ChooseByName ==
    /\ pc = "start" /\ ~Complete(env)
    /\ \/ UsesBao /\ Goto("appRole")
       \/ ~UsesBao /\ Goto(mode)
    /\ UNCHANGED <<setup, stores, history>>

\* AutoSecretProvider.GetCredentials: the switch on the mode.
Choose ==
    /\ pc = "start" /\ ~Complete(env)
    /\ \/ UsesBao /\ Goto("appRole")
       \/ mode \in {"eso", "kubernetes"} /\ Goto("kube")
       \/ mode = "other" /\ Refuse
    /\ UNCHANGED <<setup, stores, history>>
-----------------------------------------------------------------------------
(* OpenBao.                                                                *)

ReadAppRole ==
    /\ pc = "appRole"
    /\ IF appRole THEN Goto("login") ELSE BaoFails
    /\ UNCHANGED <<setup, stores, history>>

\* A new provider has no token yet.
Login ==
    /\ pc = "login"
    /\ IF serving THEN Goto("read") ELSE BaoFails
    /\ UNCHANGED <<setup, stores, history>>

\* Bug: a secret without its second half is taken.
ReadBaoHalf ==
    /\ pc = "read"
    /\ IF serving /\ bao.key # ""
       THEN pc' = "supplement" /\ creds' = WithRegion(bao) /\ UNCHANGED <<source, granted>>
       ELSE BaoFails
    /\ UNCHANGED <<setup, stores, history>>

\* Bug: a secret without VPC or subnet counts as none.
ReadBaoStrict ==
    /\ pc = "read"
    /\ IF serving /\ Complete(bao) /\ bao.vpc # "" /\ bao.subnet # ""
       THEN Grant("openbao", WithRegion(bao))
       ELSE BaoFails
    /\ UNCHANGED <<setup, stores, history>>

\* readSecret, and whether the ConfigMap is needed.  The region's default is
\* set before that.
ReadBao ==
    /\ pc = "read"
    /\ \/ /\ serving /\ Complete(bao)
          /\ LET e == WithRegion(bao)
             IN  IF "" \in {e.vpc, e.subnet, e.region}
                 THEN pc' = "supplement" /\ creds' = e /\ UNCHANGED <<source, granted>>
                 ELSE Grant("openbao", e)
       \/ ~(serving /\ Complete(bao)) /\ BaoFails
    /\ UNCHANGED <<setup, stores, history>>

\* supplementFromConfigMap.
SupplementFromConfigMap ==
    /\ pc = "supplement"
    /\ Grant("openbao",
             WithRegion([creds EXCEPT
                 !.region = IF @ = "" THEN config.region ELSE @,
                 !.vpc    = IF @ = "" THEN config.vpc ELSE @,
                 !.subnet = IF @ = "" THEN config.subnet ELSE @]))
    /\ UNCHANGED <<setup, stores, history>>
-----------------------------------------------------------------------------
(* The Kubernetes Secret, which External Secrets fill, too.                *)

ReadKube ==
    /\ pc = "kube"
    /\ \/ Complete(kube) /\ Grant("kubernetes", WithRegion(kube))
       \/ ~Complete(kube) /\ Refuse
    /\ UNCHANGED <<setup, stores, history>>
-----------------------------------------------------------------------------
(* Administrators, the cache and OpenBao.                                  *)

\* What the stores hold from now on is part of what this call may see.
Witness ==
    IF pc = "idle" THEN UNCHANGED history
    ELSE /\ baoHeld' = baoHeld \cup {bao'} /\ kubeHeld' = kubeHeld \cup {kube'}
         /\ configHeld' = configHeld \cup {config'}
         /\ lapsed' = (lapsed \/ Lapse')

Change ==
    /\ changes < MaxChanges /\ changes' = changes + 1
    /\ \/ bao' \in Contents /\ UNCHANGED <<kube, config>>
       \/ kube' \in Contents /\ UNCHANGED <<bao, config>>
       \/ config' \in ConfigMaps /\ UNCHANGED <<bao, kube>>
    /\ UNCHANGED <<setup, appRole, serving, pc, creds, source, granted>>
    /\ Witness

\* OpenBao goes away or comes back; the AppRole Secret likewise.
Toggle ==
    /\ \/ serving' = ~serving /\ UNCHANGED appRole
       \/ appRole' = ~appRole /\ UNCHANGED serving
    /\ UNCHANGED <<setup, bao, kube, config, changes, pc, creds, source, granted>>
    /\ Witness

Worker == FromEnv \/ Choose \/ ReadAppRole \/ Login \/ ReadBao
          \/ SupplementFromConfigMap \/ ReadKube
Next == Call \/ Worker \/ Change \/ Toggle

Spec == Init /\ [][Next]_vars
-----------------------------------------------------------------------------
(* What the code keeps.                                                    *)

\* `value' is what the store gave, or if it gave nothing, what the ConfigMap
\* gave at some moment.
FilledFrom(value, given, supplements) ==
    value = given \/ (given = "" /\ value \in supplements)

\* One moment of one store: key and secret handed out were together in the store
\* the mode names, at some moment of the call, however the stores change
\* meanwhile, and region, VPC and subnet are the same entry's wherever it has
\* them.  Only where it has none do they come from elsewhere: the ConfigMap, or
\* the region's default.  (The providers read in up to four steps and fill what
\* is missing from another object.  Which of the two gives a missing region is
\* left open here: see ConfigRegionUnused in CredentialsProofs.)
GrantedAsStored ==
    /\ source = "env" => granted = env
    /\ source = "kubernetes" =>
          UsesKube /\ \E e \in kubeHeld : granted = WithRegion(e)
    /\ source = "openbao" =>
          /\ UsesBao
          /\ \E e \in baoHeld :
                /\ granted.key = e.key /\ granted.secret = e.secret
                /\ FilledFrom(granted.region, e.region,
                              {"KR"} \cup {c.region : c \in configHeld})
                /\ FilledFrom(granted.vpc, e.vpc, {c.vpc : c \in configHeld})
                /\ FilledFrom(granted.subnet, e.subnet,
                              {c.subnet : c \in configHeld})

\* A call that returns no error has key, secret and region, although an entry
\* may lose one of them at any moment: everything after getCredentials goes by
\* the error alone.
UsableGrants ==
    source \notin {"uncalled", "error"} => Complete(granted) /\ granted.region # ""

\* The Secret, which may be of another account, is handed out in mode auto only
\* if OpenBao was of no use at some moment of this very call; and an error is
\* returned only if each store the mode allows was of no use at some moment.
NoneWithoutCause ==
    /\ source = "kubernetes" /\ mode = "auto" => lapsed
    /\ source = "error" =>
          /\ ~Complete(env)
          /\ UsesBao => lapsed
          /\ UsesKube => \E e \in kubeHeld : ~Complete(e)
=============================================================================
