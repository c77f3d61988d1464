---------------------------- MODULE ResourceNames ----------------------------
(***************************************************************************)
(* The names of the cloud resources of a Service (generateValidName): one  *)
(* for its load balancer and one for the target group of each of its       *)
(* ports.  A resource that exists already is found by its name alone, so   *)
(* what has the same name is taken for the same resource.                  *)
(*                                                                         *)
(* A text is a sequence of characters, of which only the kind matters.     *)
(***************************************************************************)
EXTENDS Integers, Sequences, FiniteSets, FiniteSetsExt, SequencesExt

CONSTANTS
    Letters,     \* a to z
    Digits,      \* 0 to 9: a port's position is one digit here
    Lower,       \* the small letter of each capital one
    MaxName,     \* bound: 30
    Namespaces,  \* the Services that may be named
    Services,
    MaxServices  \* bound: Services named

Char == Letters \cup Digits \cup {"-"}

ASSUME AlphabetAssumption ==
    {"t", "g", "d", "e", "f", "a", "u", "l", "k", "s", "b"} \subseteq Letters
    /\ "8" \in Digits
ASSUME CharAssumption ==
    /\ Letters \cap Digits = {} /\ "-" \notin Letters \cup Digits
    /\ Lower \in [DOMAIN Lower -> Letters] /\ DOMAIN Lower \cap Char = {}
\* Room for a prefix before the shortest name.
ASSUME BoundAssumption == MaxName \in Nat /\ MaxName >= 5
\* They are texts, of any characters and any length.
ASSUME WordAssumption ==
    \A w \in Namespaces \cup Services : w \in Seq(Range(w))

Default == <<"d", "e", "f", "a", "u", "l", "t">>
TG == <<"t", "g">>
LB == <<"k", "8", "s", "-", "l", "b">>

VARIABLE given   \* the names given so far, with what each was given to

vars == given
-----------------------------------------------------------------------------
(* The pieces of generateValidName.                                        *)

\* The characters of s at the positions I, in their order.
Kept(s, I) ==
    LET rank == [i \in I |-> Cardinality({j \in I : j <= i})]
    IN  [k \in 1..Cardinality(I) |-> s[CHOOSE i \in I : rank[i] = k]]

\* Bug: without the hyphen.
JoinBare(s, part) == s \o part

\* strings.Join with "-", one part at a time: an empty one is left out.
JoinWith(s, part) ==
    IF s = <<>> THEN part ELSE IF part = <<>> THEN s ELSE s \o <<"-">> \o part

Joined(prefix, namespace, service, suffix) ==
    LET ns == IF namespace = Default THEN <<>> ELSE namespace
    IN  JoinWith(JoinWith(JoinWith(prefix, ns), service), suffix)

Small(c) == IF c \in DOMAIN Lower THEN Lower[c] ELSE c

\* Bug: any character is allowed.
ValidAll(c) == TRUE

Valid(c) == c \in Char

\* Lower case, then without the characters that are not allowed.
Cleaned(s) ==
    LET small == [i \in DOMAIN s |-> Small(s[i])]
    IN  Kept(small, {i \in DOMAIN s : Valid(small[i])})

\* Each run of hyphens becomes one.
Collapsed(s) ==
    Kept(s, {i \in DOMAIN s : s[i] = "-" => i = 1 \/ s[i - 1] # "-"})

\* strings.Trim(s, "-")
Trimmed(s) ==
    LET rest == {i \in DOMAIN s : s[i] # "-"}
    IN  IF rest = {} THEN <<>> ELSE SubSeq(s, Min(rest), Max(rest))

Lettered(s) ==
    IF s # <<>> /\ s[1] \in Letters THEN s ELSE TG \o <<"-">> \o s

\* Bug: the hyphen is looked for before the cut.
CutLast(s) == LET t == IF s # <<>> /\ Last(s) = "-" THEN Front(s) ELSE s
              IN  IF Len(t) > MaxName THEN SubSeq(t, 1, MaxName) ELSE t

\* Bug: a name that just fits is cut, too.
CutEarly(s) == LET t == IF Len(s) >= MaxName THEN SubSeq(s, 1, MaxName - 1) ELSE s
               IN  IF t # <<>> /\ Last(t) = "-" THEN Front(t) ELSE t

\* Cut to the length allowed, and strings.TrimSuffix(s, "-").
Cut(s) == LET t == IF Len(s) > MaxName THEN SubSeq(s, 1, MaxName) ELSE s
          IN  IF t # <<>> /\ Last(t) = "-" THEN Front(t) ELSE t

Lengthened(s) ==
    IF Len(s) >= 3 THEN s
    ELSE LET t == TG \o <<"-">> \o s
         IN  IF Len(t) >= 3 THEN t ELSE TG \o <<"-">> \o Default

\* The name before it is cut.
Uncut(prefix, namespace, service, suffix) ==
    Lettered(Trimmed(Collapsed(Cleaned(
        Joined(prefix, namespace, service, suffix)))))

generateValidName(prefix, namespace, service, suffix) ==
    Lengthened(Cut(Uncut(prefix, namespace, service, suffix)))
-----------------------------------------------------------------------------
(* Naming the resources of one Service after another.                      *)

\* What is named: a load balancer has no position.
Resource == [ns : Namespaces, svc : Services,
             prefix : {TG, LB}, suffix : {<<>>} \cup {<<d>> : d \in Digits}]

ResourcesOf(ns, svc) ==
    {[ns |-> ns, svc |-> svc, prefix |-> LB, suffix |-> <<>>]} \cup
    {[ns |-> ns, svc |-> svc, prefix |-> TG, suffix |-> <<d>>] : d \in Digits}

NameOf(r) == generateValidName(r.prefix, r.ns, r.svc, r.suffix)

Init == given = {}

\* reconcileNaverCloudLB names what it is about to make.
NameResources(ns, svc) ==
    /\ Cardinality({<<g.of.ns, g.of.svc>> : g \in given}) < MaxServices
    /\ given' = given \cup {[of |-> r, name |-> NameOf(r)] : r \in ResourcesOf(ns, svc)}

Next == \E ns \in Namespaces, svc \in Services : NameResources(ns, svc)

Spec == Init /\ [][Next]_vars
-----------------------------------------------------------------------------
(* What the code keeps.                                                    *)

\* Names consist of the characters allowed.
TypeOK == given \subseteq [of : Resource, name : Seq(Char)]

\* The rules in generateValidName's comment, for any texts, empty ones and such
\* that consist of nothing allowed included: a name begins with a letter, has
\* three characters or more and not more than the bound, and does not end with
\* a hyphen, although every later step may undo what an earlier one did.
ValidNames ==
    \A g \in given :
        /\ g.name[1] \in Letters
        /\ Len(g.name) \in 3..MaxName
        /\ Last(g.name) # "-"

\* The name was not cut.
Whole(g) == Len(Uncut(g.of.prefix, g.of.ns, g.of.svc, g.of.suffix)) <= MaxName

\* A Service's resources have names of their own, unless they were cut: ports
\* whose target groups had one name would share one.
PortsApart ==
    \A g, h \in given :
        /\ g.of # h.of /\ g.name = h.name
        /\ g.of.ns = h.of.ns /\ g.of.svc = h.of.svc
        => ~Whole(g) \/ ~Whole(h)

\* A name as Kubernetes has them, without two hyphens in a row: of those, the
\* names made here keep only one.
Label(w) ==
    /\ w # <<>> /\ w[1] # "-" /\ Last(w) # "-"
    /\ \A i \in DOMAIN w : w[i] \in Char
    /\ \A i \in DOMAIN w : w[i] = "-" /\ i + 1 \in DOMAIN w => w[i + 1] # "-"

\* What a name says of the Service.
FullName(ns, svc) == IF ns = Default THEN svc ELSE ns \o <<"-">> \o svc

\* What two Services make has different names, unless one is cut - or unless the
\* Services are of different namespaces and their namespaces and names read the
\* same when a hyphen joins them: b-c in a, and c in a-b; a-b in the default
\* one, and b in a.  Within a namespace nothing else is ever shared.
ServicesApart ==
    \A g, h \in given :
        /\ g.of # h.of /\ g.name = h.name
        /\ Whole(g) /\ Whole(h)
        /\ \A r \in {g.of, h.of} :
              (Label(r.ns) \/ r.ns = Default) /\ Label(r.svc)
        => /\ g.of.ns # h.of.ns
           /\ FullName(g.of.ns, g.of.svc) = FullName(h.of.ns, h.of.svc)
=============================================================================
