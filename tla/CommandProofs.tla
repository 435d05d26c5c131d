----------------------------- MODULE CommandProofs ----------------------------
(* What a failed command leaves, and what no command touches.              *)
EXTENDS ProjectProofs

-------------------------------------------------------------------------------
(* The inductive invariant.                                                *)

(* Which kinds of steps a command takes.                                   *)
HTTPKinds    == {"api", "routes", "sync"}
PbKinds      == {"buf", "prune", "discover", "register", "rpc-stubs", "verify"}
BindingKinds == {"require", "external", "handler", "stubs", "implement", "clients",
                 "add-config", "remove-config", "manifest", "tidy", "compile"}
Generators   == {"http", "pb", "rpc"}

Takes(name, k) ==
  \/ name = "new" /\ k \in {"clear", "publish", "commit"}
  \/ name = "api-add" /\ k \in {"http-stub", "contract", "commit"}
  \/ name = "api-generate" /\ k \in HTTPKinds \union {"commit"}
  \/ name = "pb-generate" /\ k \in PbKinds \union {"commit"}
  \/ name \in {"pb-service-add", "pb-method-add"} /\ k = "proto"
  \/ /\ name \in {"server-bind", "server-unbind", "client-bind", "client-unbind"}
     /\ k \in BindingKinds \union {"commit"}
  \/ name = "generate" /\ k \in Generators \union HTTPKinds \union PbKinds \union BindingKinds
                                  \union {"commit"}

(* In which order it takes them.                                           *)
Rank(k) ==
  CASE k \in {"clear", "http-stub", "proto", "http"} -> 0
    [] k \in {"publish", "contract", "api"}          -> 1
    [] k = "routes"    -> 2
    [] k = "sync"      -> 3
    [] k = "pb"        -> 4
    [] k = "buf"       -> 5
    [] k = "prune"     -> 6
    [] k = "discover"  -> 7
    [] k = "register"  -> 8
    [] k = "rpc-stubs" -> 9
    [] k = "verify"    -> 10
    [] k = "rpc"       -> 11
    [] k = "require"   -> 12
    [] k = "external"  -> 13
    [] k \in {"handler", "stubs", "implement"} -> 14
    [] k = "clients"   -> 15
    [] k \in {"add-config", "remove-config"} -> 16
    [] k = "manifest"  -> 17
    [] k = "tidy"      -> 18
    [] k = "compile"   -> 19
    [] k = "commit"    -> 20

Precedes(k, l) == Rank(k) < Rank(l) \/ (Rank(k) = 14 /\ Rank(l) = 14)

Of(s)    == {s[i] : i \in 1..Len(s)}
Kinds(s) == {s[i][1] : i \in 1..Len(s)}

(* A command has as many commits ahead as snapshots, the last step being   *)
(* one.  Between the two of a nested generator are further generators.     *)
CommitsMatch(s, name, depth) ==
  LET n == Len(s)
      IsCommit(i) == s[i][1] = "commit"
  IN \/ depth = 0 /\ \A i \in 1..n : s[i][1] = "proto"
     \/ /\ depth = 1 /\ n > 0
        /\ \A i \in 1..n : IsCommit(i) <=> i = n
        /\ name = "generate" => \A i \in 1..n : i < n => s[i][1] \in Generators
     \/ /\ depth = 2 /\ name = "generate"
        /\ \E k \in 1..n :
             /\ k < n
             /\ \A i \in 1..n : IsCommit(i) <=> i \in {k, n}
             /\ \A i \in 1..n : i # n => (s[i][1] \in Generators <=> i > k)

Plan(s, name, depth) ==
  /\ \E S : s \in Seq(S)
  /\ \A i \in 1..Len(s) : Takes(name, s[i][1])
  /\ \A i, j \in 1..Len(s) :
       i < j => \/ "commit" \in {s[i][1], s[j][1]}
                \/ Precedes(s[i][1], s[j][1])
  /\ CommitsMatch(s, name, depth)
  /\ Kinds(s) \intersect BindingKinds # {} =>
       Kinds(s) \intersect (Generators \union {"prune"}) = {}

Running == status \in {"working", "undoing"}

PlanInv ==
  /\ status = "working" => Plan(steps, command.name, Len(snapshots))
  /\ status # "working" => steps = <<>>

(* Only `jgo new` works where there is no project.                         *)
TargetInv ==
  /\ tree[Target] # "project" => \A p \in Path \ {Target} : tree[p] = Absent
  /\ Running =>
       IF command.name = "new"
       THEN /\ \A p \in Path \ {Target} : before[p] = Absent
            /\ \A i \in 1..Len(snapshots) :
                 DOMAIN snapshots[i] = {Target} /\ snapshots[i][Target] # "project"
            /\ status = "undoing" \/ Kinds(steps) \intersect {"clear", "publish"} # {} =>
                 tree[Target] # "project"
       ELSE /\ tree[Target] = "project"
            /\ \A i \in 1..Len(snapshots) : Target \notin DOMAIN snapshots[i]

(* A manifest that can be loaded names services that are there, servers    *)
(* only where gRPC is served, and handlers of one service each.            *)
GoodManifest(m, grpc) ==
  /\ m \in Manifests
  /\ ValidManifest(m)
  /\ ~grpc => m.servers = <<>>

Loadable(m, grpc) == m \in {Absent, Torn} \/ GoodManifest(m, grpc)

ManifestInv ==
  /\ published \in [Service -> SUBSET Method]
  /\ Loadable(tree[Manifest], ServesGRPC)
  /\ \A i \in 1..Len(snapshots) :
       Manifest \in DOMAIN snapshots[i] => Loadable(snapshots[i][Manifest], ServesGRPC)
  /\ Kinds(steps) \intersect BindingKinds # {} => GoodManifest(command.manifest, ServesGRPC)

(* No snapshot would overwrite what the developer has with anything else.  *)
Owned == ServiceFile \union {Models}
UserInv ==
  /\ \A p \in Owned : before[p] # Absent =>
       /\ tree[p] = before[p] \/ p \in spoiled
       /\ \A i \in 1..Len(snapshots) : p \in DOMAIN snapshots[i] => snapshots[i][p] = before[p]
  /\ \A o \in Operation, i \in 1..Len(steps) :
       steps[i] = <<"http-stub", o>> => tree[HttpStub(o)] = Absent

(* What the outermost snapshot has to hold of what a step may write.       *)
Held(x, covered, name, m) ==
  /\ x[1] = "clear" => Target \in covered
  /\ x[1] \in HTTPKinds => HTTPOutputs \subseteq covered
  /\ x[1] = "http-stub" => HttpStub(x[2]) \in covered
  /\ x[1] \in {"buf", "prune"} => Generated \subseteq covered
  /\ x[1] = "register" => RegisterGen \in covered
  /\ x[1] = "rpc-stubs" => name = "pb-generate" \/ ServiceFile \subseteq covered
  /\ x[1] \in {"require", "tidy"} => ModuleFiles \subseteq covered
  /\ x[1] = "external" => External \in covered
  /\ x[1] \in {"handler", "stubs"} =>
       HandlerFiles(m, {x[2]}) \subseteq covered \/ ServiceFile \subseteq covered
  /\ x[1] = "implement" => ServiceFile \subseteq covered
  /\ x[1] = "clients" => ClientsGen \in covered
  /\ x[1] \in {"add-config", "remove-config"} => LocalConfig \in covered
  /\ x[1] = "manifest" => Manifest \in covered

Leftovers ==
  {p \in Path : command.name = "pb-generate" /\ p[1] = "rpc-stub" /\ before[p] = Absent}

(* Outside its snapshots a command writes what ends it: nothing that can   *)
(* fail comes after that.                                                  *)
CoverInv ==
  /\ \A i \in 1..Len(steps) : Held(steps[i], Covered, command.name, command.manifest)
  /\ status = "working" /\ command.name = "generate" /\ snapshots # <<>> =>
       Covered = GeneratorState
  /\ status = "working" =>
       \/ exposed \intersect Path = {}
       \/ exposed \intersect Path \subseteq Leftovers /\ "rpc-stubs" \notin Kinds(steps)
       \/ command.name # "generate" /\ Kinds(steps) \subseteq {"commit"}
       \/ steps = <<>>
  /\ status = "undoing" => exposed \intersect Path \subseteq Leftovers
  /\ status = "failed" => \A p \in exposed \intersect Path : tree[p] # before[p] => p \in Leftovers

SafetyInv ==
  /\ kind \in Kind
  /\ status \in {"ok", "working", "undoing", "failed", "crashed"}
  /\ command = [name |-> command.name, manifest |-> command.manifest]
  /\ PlanInv /\ TargetInv /\ ManifestInv /\ UserInv /\ CoverInv

-------------------------------------------------------------------------------
(* Lists of steps.                                                         *)

(* What the rest of a list is.                                             *)
LEMMA TailOf ==
  ASSUME NEW s, \E S : s \in Seq(S), s # <<>>
  PROVE  /\ \E S : Tail(s) \in Seq(S)
         /\ Len(s) \in Nat /\ Len(s) > 0
         /\ Len(Tail(s)) = Len(s) - 1
         /\ \A i \in 1..Len(Tail(s)) : Tail(s)[i] = s[i + 1] /\ i + 1 \in 1..Len(s)
         /\ Head(s) = s[1] /\ 1 \in 1..Len(s)
<1>1. PICK S : s \in Seq(S)
  OBVIOUS
<1>2. Tail(s) \in Seq(S)
  BY <1>1
<1>. QED
  BY <1>1, <1>2

LEMMA KindsOfTail ==
  ASSUME NEW s, \E S : s \in Seq(S), s # <<>>
  PROVE  Kinds(s) = {Head(s)[1]} \union Kinds(Tail(s))
<1>1. Kinds(Tail(s)) \subseteq Kinds(s) /\ Head(s)[1] \in Kinds(s)
  BY TailOf DEF Kinds
<1>2. ASSUME NEW i \in 1..Len(s), i # 1
      PROVE  s[i][1] \in Kinds(Tail(s))
  <2>1. Len(s) \in Nat /\ Len(Tail(s)) = Len(s) - 1
    BY TailOf
  <2>2. i - 1 \in 1..Len(Tail(s)) /\ (i - 1) + 1 = i
    BY <1>2, <2>1
  <2>3. Tail(s)[i - 1] = s[i]
    BY <2>2, TailOf
  <2>. QED
    BY <2>2, <2>3 DEF Kinds
<1>. QED
  BY <1>1, <1>2, TailOf DEF Kinds

(* A plan stays one when its first step has been taken.                    *)
LEMMA PlanTail ==
  ASSUME NEW s, NEW name, NEW depth, Plan(s, name, depth), s # <<>>
  PROVE  /\ Takes(name, Head(s)[1])
         /\ Head(s)[1] # "commit" => Plan(Tail(s), name, depth)
         /\ Head(s)[1] # "commit" =>
              \A k \in Kinds(Tail(s)) : k = "commit" \/ Precedes(Head(s)[1], k)
<1>. DEFINE t == Tail(s)
<1>1. /\ \E S : t \in Seq(S)
      /\ Len(s) \in Nat /\ Len(s) > 0 /\ Len(t) = Len(s) - 1
      /\ \A i \in 1..Len(t) : t[i] = s[i + 1] /\ i + 1 \in 1..Len(s)
      /\ Head(s) = s[1] /\ 1 \in 1..Len(s)
  BY TailOf DEF Plan
<1>2. Kinds(s) = {Head(s)[1]} \union Kinds(t)
  BY KindsOfTail DEF Plan
<1>. HIDE DEF t
<1>3. \A i \in 1..Len(t) : Takes(name, t[i][1])
  BY <1>1 DEF Plan
<1>4. \A i, j \in 1..Len(t) :
        i < j => "commit" \in {t[i][1], t[j][1]} \/ Precedes(t[i][1], t[j][1])
  BY <1>1 DEF Plan
<1>5. ASSUME Head(s)[1] # "commit"
      PROVE  CommitsMatch(t, name, depth)
  <2>. DEFINE n == Len(s)
              m == Len(t)
  <2>1. CASE depth = 0
    BY <1>1, <2>1 DEF Plan, CommitsMatch
  <2>2. CASE depth = 1
    <3>1. \A i \in 1..n : s[i][1] = "commit" <=> i = n
      BY <2>2 DEF Plan, CommitsMatch
    <3>2. n # 1
      BY <1>1, <1>5, <3>1
    <3>3. \A i \in 1..m : t[i][1] = "commit" <=> i = m
      BY <1>1, <3>1
    <3>4. name = "generate" => \A i \in 1..m : i < m => t[i][1] \in Generators
      BY <1>1, <2>2 DEF Plan, CommitsMatch
    <3>. QED
      BY <1>1, <2>2, <3>2, <3>3, <3>4 DEF CommitsMatch
  <2>3. CASE depth = 2
    <3>1. PICK k \in 1..n :
            /\ k < n
            /\ \A i \in 1..n : s[i][1] = "commit" <=> i \in {k, n}
            /\ \A i \in 1..n : i # n => (s[i][1] \in Generators <=> i > k)
      BY <2>3 DEF Plan, CommitsMatch
    <3>2. k # 1
      BY <1>1, <1>5, <3>1
    <3>3. k - 1 \in 1..m /\ k - 1 < m
      BY <1>1, <3>1, <3>2
    <3>4. \A i \in 1..m : t[i][1] = "commit" <=> i \in {k - 1, m}
      BY <1>1, <3>1
    <3>5. \A i \in 1..m : i # m => (t[i][1] \in Generators <=> i > k - 1)
      BY <1>1, <3>1
    <3>6. name = "generate"
      BY <2>3 DEF Plan, CommitsMatch
    <3>. QED
      BY <2>3, <3>3, <3>4, <3>5, <3>6 DEF CommitsMatch
  <2>. QED
    BY <2>1, <2>2, <2>3 DEF Plan, CommitsMatch
<1>6. Kinds(t) \intersect BindingKinds # {} =>
        Kinds(t) \intersect (Generators \union {"prune"}) = {}
  BY <1>2 DEF Plan
<1>7. Head(s)[1] # "commit" =>
        \A k \in Kinds(t) : k = "commit" \/ Precedes(Head(s)[1], k)
  <2>. SUFFICES ASSUME Head(s)[1] # "commit", NEW i \in 1..Len(t), t[i][1] # "commit"
                PROVE  Precedes(Head(s)[1], t[i][1])
    BY DEF Kinds
  <2>1. 1 < i + 1
    BY <1>1
  <2>. QED
    BY <1>1, <2>1 DEF Plan
<1>. QED
  BY <1>1, <1>3, <1>4, <1>5, <1>6, <1>7 DEF Plan, t

(* A commit ends the snapshot it is for.                                   *)
LEMMA PlanCommit ==
  ASSUME NEW s, NEW name, NEW depth, Plan(s, name, depth), s # <<>>, Head(s)[1] = "commit"
  PROVE  /\ depth \in {1, 2} /\ (depth = 2 => name = "generate")
         /\ depth = 1 => Tail(s) = <<>>
         /\ Plan(Tail(s), name, depth - 1)
<1>. DEFINE t == Tail(s)
            n == Len(s)
            m == Len(t)
<1>1. /\ \E S : t \in Seq(S)
      /\ n \in Nat /\ n > 0 /\ m = n - 1
      /\ \A i \in 1..m : t[i] = s[i + 1] /\ i + 1 \in 1..n
      /\ Head(s) = s[1] /\ 1 \in 1..n
  BY TailOf DEF Plan
<1>2. Kinds(s) = {Head(s)[1]} \union Kinds(t)
  BY KindsOfTail DEF Plan
<1>. HIDE DEF t
<1>3. \A i \in 1..m : Takes(name, t[i][1])
  BY <1>1 DEF Plan
<1>4. \A i, j \in 1..m :
        i < j => "commit" \in {t[i][1], t[j][1]} \/ Precedes(t[i][1], t[j][1])
  BY <1>1 DEF Plan
<1>5. Kinds(t) \intersect BindingKinds # {} =>
        Kinds(t) \intersect (Generators \union {"prune"}) = {}
  BY <1>2 DEF Plan
<1>6. depth # 0
  BY <1>1 DEF Plan, CommitsMatch
<1>9. depth \in {1, 2} /\ (depth = 2 => name = "generate")
  BY <1>6 DEF Plan, CommitsMatch
<1>7. CASE depth = 1
  <2>1. n = 1
    BY <1>1, <1>7 DEF Plan, CommitsMatch
  <2>2. t = <<>>
    BY <1>1, <2>1, EmptySeq
  <2>3. CommitsMatch(t, name, 0)
    BY <1>1, <2>1 DEF CommitsMatch
  <2>. QED
    BY <1>1, <1>3, <1>4, <1>5, <1>7, <2>2, <2>3 DEF Plan, t
<1>8. CASE depth = 2
  <2>1. PICK k \in 1..n :
          /\ k < n
          /\ \A i \in 1..n : s[i][1] = "commit" <=> i \in {k, n}
          /\ \A i \in 1..n : i # n => (s[i][1] \in Generators <=> i > k)
    BY <1>8 DEF Plan, CommitsMatch
  <2>2. k = 1
    BY <1>1, <2>1
  <2>3. m > 0 /\ \A i \in 1..m : t[i][1] = "commit" <=> i = m
    BY <1>1, <2>1, <2>2
  <2>4. \A i \in 1..m : i < m => t[i][1] \in Generators
    BY <1>1, <2>1, <2>2
  <2>5. CommitsMatch(t, name, 1)
    BY <2>3, <2>4 DEF CommitsMatch
  <2>6. Plan(t, name, 1)
    BY <1>1, <1>3, <1>4, <1>5, <2>5 DEF Plan
  <2>. QED
    BY <1>8, <1>9, <2>6 DEF t
<1>. QED
  BY <1>7, <1>8, <1>9

(* What one list followed by another is.                                   *)
LEMMA ConcatOf ==
  ASSUME NEW s, \E S : s \in Seq(S), NEW t, \E S : t \in Seq(S)
  PROVE  /\ \E S : s \o t \in Seq(S)
         /\ Len(s) \in Nat /\ Len(t) \in Nat
         /\ Len(s \o t) = Len(s) + Len(t)
         /\ \A i \in 1..Len(s \o t) :
              \/ i \in 1..Len(s) /\ (s \o t)[i] = s[i]
              \/ i > Len(s) /\ i - Len(s) \in 1..Len(t) /\ (s \o t)[i] = t[i - Len(s)]
         /\ Kinds(s \o t) = Kinds(s) \union Kinds(t)
         /\ Of(s \o t) = Of(s) \union Of(t)
<1>1. PICK S : s \in Seq(S)
  OBVIOUS
<1>2. PICK T : t \in Seq(T)
  OBVIOUS
<1>3. s \in Seq(S \union T) /\ t \in Seq(S \union T)
  BY <1>1, <1>2
<1>4. s \o t \in Seq(S \union T)
  BY <1>3
<1>5. /\ Len(s) \in Nat /\ Len(t) \in Nat /\ Len(s \o t) = Len(s) + Len(t)
      /\ \A i \in 1..Len(s \o t) : (s \o t)[i] = IF i <= Len(s) THEN s[i] ELSE t[i - Len(s)]
  BY <1>3, <1>4
<1>6. \A i \in 1..Len(s \o t) :
         \/ i \in 1..Len(s) /\ (s \o t)[i] = s[i]
         \/ i > Len(s) /\ i - Len(s) \in 1..Len(t) /\ (s \o t)[i] = t[i - Len(s)]
  BY <1>5
<1>7. /\ Kinds(s \o t) \subseteq Kinds(s) \union Kinds(t)
      /\ Of(s \o t) \subseteq Of(s) \union Of(t)
  BY <1>6 DEF Kinds, Of
<1>8. Kinds(s) \subseteq Kinds(s \o t) /\ Of(s) \subseteq Of(s \o t)
  BY <1>5 DEF Kinds, Of
<1>9. Kinds(t) \subseteq Kinds(s \o t) /\ Of(t) \subseteq Of(s \o t)
  <2>. SUFFICES ASSUME NEW j \in 1..Len(t)
                PROVE  t[j][1] \in Kinds(s \o t) /\ t[j] \in Of(s \o t)
    BY DEF Kinds, Of
  <2>1. Len(s) + j \in 1..Len(s \o t) /\ ~(Len(s) + j <= Len(s)) /\ (Len(s) + j) - Len(s) = j
    BY <1>5
  <2>2. (s \o t)[Len(s) + j] = t[j]
    BY <1>5, <2>1
  <2>. QED
    BY <2>1, <2>2 DEF Kinds, Of
<1>. QED
  BY <1>4, <1>5, <1>6, <1>7, <1>8, <1>9

(* A part of a plan without a commit, or with one as its last step, whose  *)
(* other steps have ranks in a range.                                      *)
Part(s, name, lo, hi) ==
  /\ \E S : s \in Seq(S)
  /\ \A i \in 1..Len(s) : Takes(name, s[i][1])
  /\ \A i \in 1..Len(s) : s[i][1] # "commit" => Rank(s[i][1]) \in lo..hi
  /\ \A i, j \in 1..Len(s) :
       i < j => "commit" \in {s[i][1], s[j][1]} \/ Precedes(s[i][1], s[j][1])

Open(s, name, lo, hi) == Part(s, name, lo, hi) /\ "commit" \notin Kinds(s)
Closed(s, name, lo, hi) ==
  /\ Part(s, name, lo, hi)
  /\ Len(s) > 0
  /\ \A i \in 1..Len(s) : s[i][1] = "commit" <=> i = Len(s)

LEMMA OpenNothing ==
  ASSUME NEW name, NEW lo, NEW hi
  PROVE  Open(<<>>, name, lo, hi) /\ Kinds(<<>>) = {} /\ Of(<<>>) = {}
<1>1. <<>> \in Seq({}) /\ Len(<<>>) = 0
  OBVIOUS
<1>. QED
  BY <1>1 DEF Open, Part, Kinds, Of

LEMMA OpenOne ==
  ASSUME NEW x, NEW name, Takes(name, x[1]), x[1] # "commit", Rank(x[1]) \in Nat
  PROVE  /\ Open(<<x>>, name, Rank(x[1]), Rank(x[1]))
         /\ Kinds(<<x>>) = {x[1]} /\ Of(<<x>>) = {x}
<1>1. <<x>> \in Seq({x}) /\ Len(<<x>>) = 1 /\ <<x>>[1] = x
  OBVIOUS
<1>. DEFINE s == <<x>>
            r == Rank(x[1])
<1>. HIDE DEF s
<1>2. /\ s \in Seq({x})
      /\ Len(s) \in Nat
      /\ \A i \in 1..Len(s) : i = 1 /\ s[i] = x
      /\ 1 \in 1..Len(s) /\ s[1] = x
  BY <1>1 DEF s
<1>3. Kinds(s) = {x[1]} /\ Of(s) = {x}
  BY <1>2 DEF Kinds, Of
<1>4. r \in Nat /\ r \in r..r
  OBVIOUS
<1>5. \A i \in 1..Len(s) : Takes(name, s[i][1]) /\ Rank(s[i][1]) \in r..r
  BY <1>2, <1>4
<1>6. \A i, j \in 1..Len(s) : ~(i < j)
  BY <1>2
<1>7. Part(s, name, r, r)
  BY <1>2, <1>5, <1>6 DEF Part
<1>8. Open(s, name, r, r)
  BY <1>3, <1>7 DEF Open
<1>. QED
  BY <1>3, <1>8 DEF s

LEMMA PartConcat ==
  ASSUME NEW s, NEW t, NEW name, NEW lo \in Nat, NEW mid \in Nat, NEW up \in Nat, NEW hi \in Nat,
         Open(s, name, lo, mid), Part(t, name, up, hi), mid < up, lo <= up, mid <= hi
  PROVE  Part(s \o t, name, lo, hi)
<1>1. /\ \E S : s \o t \in Seq(S)
      /\ Len(s) \in Nat /\ Len(t) \in Nat
      /\ Len(s \o t) = Len(s) + Len(t)
      /\ \A i \in 1..Len(s \o t) :
           \/ i \in 1..Len(s) /\ (s \o t)[i] = s[i]
           \/ i > Len(s) /\ i - Len(s) \in 1..Len(t) /\ (s \o t)[i] = t[i - Len(s)]
  BY ConcatOf DEF Open, Part
<1>2. \A i \in 1..Len(s \o t) : Takes(name, (s \o t)[i][1])
  BY <1>1 DEF Open, Part
<1>3. \A i \in 1..Len(s \o t) : (s \o t)[i][1] # "commit" => Rank((s \o t)[i][1]) \in lo..hi
  <2>1. \A i \in 1..Len(s) : s[i][1] # "commit" => Rank(s[i][1]) \in lo..hi
    BY DEF Open, Part
  <2>2. \A i \in 1..Len(t) : t[i][1] # "commit" => Rank(t[i][1]) \in lo..hi
    BY DEF Part
  <2>. QED
    BY <1>1, <2>1, <2>2
<1>4. ASSUME NEW i \in 1..Len(s \o t), NEW j \in 1..Len(s \o t), i < j
      PROVE  "commit" \in {(s \o t)[i][1], (s \o t)[j][1]}
               \/ Precedes((s \o t)[i][1], (s \o t)[j][1])
  <2>1. CASE i \in 1..Len(s) /\ j \in 1..Len(s)
    BY <1>1, <1>4, <2>1 DEF Open, Part
  <2>2. CASE i > Len(s) /\ j > Len(s)
    <3>. DEFINE u == i - Len(s)
                v == j - Len(s)
    <3>1. /\ u \in 1..Len(t) /\ v \in 1..Len(t) /\ u < v
          /\ (s \o t)[i] = t[u] /\ (s \o t)[j] = t[v]
      BY <1>1, <1>4, <2>2
    <3>. HIDE DEF u, v
    <3>. QED
      BY <3>1 DEF Part
  <2>3. CASE i \in 1..Len(s) /\ j > Len(s)
    <3>1. Rank((s \o t)[i][1]) \in lo..mid \/ (s \o t)[i][1] = "commit"
      BY <1>1, <2>3 DEF Open, Part
    <3>2. Rank((s \o t)[j][1]) \in up..hi \/ (s \o t)[j][1] = "commit"
      BY <1>1, <2>3 DEF Part
    <3>. QED
      BY <3>1, <3>2 DEF Precedes
  <2>. QED
    BY <1>1, <1>4, <2>1, <2>2, <2>3
<1>. QED
  BY <1>1, <1>2, <1>3, <1>4 DEF Part

(* Parts put together are parts, and plans when the last is closed.        *)
LEMMA OpenConcat ==
  ASSUME NEW s, NEW t, NEW name, NEW lo \in Nat, NEW mid \in Nat, NEW up \in Nat, NEW hi \in Nat,
         Open(s, name, lo, mid), Open(t, name, up, hi), mid < up, lo <= up, mid <= hi
  PROVE  /\ Open(s \o t, name, lo, hi)
         /\ Kinds(s \o t) = Kinds(s) \union Kinds(t) /\ Of(s \o t) = Of(s) \union Of(t)
<1>1. Part(s \o t, name, lo, hi)
  BY PartConcat DEF Open
<1>2. Kinds(s \o t) = Kinds(s) \union Kinds(t) /\ Of(s \o t) = Of(s) \union Of(t)
  BY ConcatOf DEF Open, Part
<1>. QED
  BY <1>1, <1>2 DEF Open

LEMMA ClosedConcat ==
  ASSUME NEW s, NEW t, NEW name, NEW lo \in Nat, NEW mid \in Nat, NEW up \in Nat, NEW hi \in Nat,
         Open(s, name, lo, mid), Closed(t, name, up, hi), mid < up, lo <= up, mid <= hi
  PROVE  /\ Closed(s \o t, name, lo, hi)
         /\ Kinds(s \o t) = Kinds(s) \union Kinds(t) /\ Of(s \o t) = Of(s) \union Of(t)
<1>1. Part(s \o t, name, lo, hi)
  BY PartConcat DEF Closed
<1>2. /\ Len(s) \in Nat /\ Len(t) \in Nat
      /\ Len(s \o t) = Len(s) + Len(t)
      /\ \A i \in 1..Len(s \o t) :
           \/ i \in 1..Len(s) /\ (s \o t)[i] = s[i]
           \/ i > Len(s) /\ i - Len(s) \in 1..Len(t) /\ (s \o t)[i] = t[i - Len(s)]
      /\ Kinds(s \o t) = Kinds(s) \union Kinds(t) /\ Of(s \o t) = Of(s) \union Of(t)
  BY ConcatOf DEF Open, Closed, Part
<1>3. \A i \in 1..Len(s) : s[i][1] # "commit"
  BY DEF Open, Kinds
<1>4. ASSUME NEW i \in 1..Len(s \o t)
      PROVE  (s \o t)[i][1] = "commit" <=> i = Len(s \o t)
  <2>1. CASE i \in 1..Len(s) /\ (s \o t)[i] = s[i]
    BY <1>2, <1>3, <2>1 DEF Closed
  <2>2. CASE i - Len(s) \in 1..Len(t) /\ (s \o t)[i] = t[i - Len(s)]
    <3>1. t[i - Len(s)][1] = "commit" <=> i - Len(s) = Len(t)
      BY <2>2 DEF Closed
    <3>2. i - Len(s) = Len(t) <=> i = Len(s \o t)
      BY <1>2
    <3>. QED
      BY <2>2, <3>1, <3>2
  <2>. QED
    BY <1>2, <2>1, <2>2
<1>5. Len(s \o t) > 0
  BY <1>2 DEF Closed
<1>. QED
  BY <1>1, <1>2, <1>4, <1>5 DEF Closed

LEMMA ClosedPlan ==
  ASSUME NEW s, NEW name, NEW lo, NEW hi, Closed(s, name, lo, hi),
         name = "generate" => Kinds(s) \subseteq Generators \union {"commit"},
         Kinds(s) \intersect BindingKinds # {} =>
           Kinds(s) \intersect (Generators \union {"prune"}) = {}
  PROVE  Plan(s, name, 1)
<1>1. Len(s) \in Nat
  BY DEF Closed, Part
<1>2. name = "generate" => \A i \in 1..Len(s) : i < Len(s) => s[i][1] \in Generators
  BY DEF Closed, Kinds
<1>. QED
  BY <1>1, <1>2 DEF Plan, Closed, Part, CommitsMatch

(* A nested generator, and the loop over the services, put their steps     *)
(* before the others.                                                      *)
LEMMA PlanEnter ==
  ASSUME NEW s, NEW t, NEW lo \in Nat, NEW hi \in Nat,
         Plan(s, "generate", 1), s # <<>>,
         Closed(t, "generate", lo, hi), Kinds(t) \intersect Generators = {},
         \A k \in Kinds(Tail(s)) : k = "commit" \/ (Rank(k) \in Nat /\ hi < Rank(k)),
         Kinds(t) \intersect BindingKinds # {} =>
           "prune" \notin Kinds(t) /\ Kinds(Tail(s)) \subseteq {"commit"},
         Head(s)[1] # "commit"
  PROVE  /\ Plan(t \o Tail(s), "generate", 2)
         /\ Kinds(t \o Tail(s)) = Kinds(t) \union Kinds(Tail(s))
         /\ Of(t \o Tail(s)) = Of(t) \union Of(Tail(s))
<1>. DEFINE r == Tail(s)
            c == t \o r
<1>1. Plan(r, "generate", 1)
  BY PlanTail
<1>2. /\ \E S : c \in Seq(S)
      /\ Len(t) \in Nat /\ Len(r) \in Nat
      /\ Len(c) = Len(t) + Len(r)
      /\ \A i \in 1..Len(c) :
           \/ i \in 1..Len(t) /\ c[i] = t[i]
           \/ i > Len(t) /\ i - Len(t) \in 1..Len(r) /\ c[i] = r[i - Len(t)]
  BY <1>1, ConcatOf DEF Closed, Part, Plan
<1>9. Kinds(c) = Kinds(t) \union Kinds(r) /\ Of(c) = Of(t) \union Of(r)
  BY <1>1, ConcatOf DEF Closed, Part, Plan
<1>3. \A k \in Kinds(r) : k = "commit" \/ (Rank(k) \in Nat /\ hi < Rank(k))
  OBVIOUS
<1>. HIDE DEF c, r
<1>4. \A i \in 1..Len(c) : Takes("generate", c[i][1])
  BY <1>1, <1>2 DEF Closed, Part, Plan
<1>5. ASSUME NEW i \in 1..Len(c), NEW j \in 1..Len(c), i < j
      PROVE  "commit" \in {c[i][1], c[j][1]} \/ Precedes(c[i][1], c[j][1])
  <2>1. CASE i \in 1..Len(t) /\ j \in 1..Len(t)
    <3>1. c[i] = t[i] /\ c[j] = t[j]
      BY <1>2, <2>1
    <3>. QED
      BY <1>5, <2>1, <3>1 DEF Closed, Part
  <2>2. CASE i > Len(t) /\ j > Len(t)
    <3>. DEFINE u == i - Len(t)
                v == j - Len(t)
    <3>1. /\ u \in 1..Len(r) /\ v \in 1..Len(r) /\ u < v
          /\ c[i] = r[u] /\ c[j] = r[v]
      BY <1>2, <1>5, <2>2
    <3>. HIDE DEF u, v
    <3>. QED
      BY <1>1, <3>1 DEF Plan
  <2>3. CASE i \in 1..Len(t) /\ j > Len(t)
    <3>1. Rank(c[i][1]) \in lo..hi \/ c[i][1] = "commit"
      BY <1>2, <2>3 DEF Closed, Part
    <3>2. c[j][1] \in Kinds(r)
      BY <1>2, <2>3 DEF Kinds
    <3>. QED
      BY <1>3, <3>1, <3>2 DEF Precedes
  <2>. QED
    BY <1>2, <1>5, <2>1, <2>2, <2>3
<1>6. /\ Len(r) > 0
      /\ \A i \in 1..Len(r) : r[i][1] = "commit" <=> i = Len(r)
      /\ \A i \in 1..Len(r) : i < Len(r) => r[i][1] \in Generators
  BY <1>1 DEF Plan, CommitsMatch
<1>7. CommitsMatch(c, "generate", 2)
  <2>. DEFINE k == Len(t)
              n == Len(c)
  <2>1. k \in 1..n /\ k < n
    BY <1>2, <1>6 DEF Closed
  <2>2. ASSUME NEW i \in 1..n
        PROVE  c[i][1] = "commit" <=> i \in {k, n}
    <3>1. CASE i \in 1..Len(t) /\ c[i] = t[i]
      <4>1. i # n
        BY <2>1, <1>2, <3>1
      <4>. QED
        BY <3>1, <4>1 DEF Closed
    <3>2. CASE i > Len(t) /\ i - Len(t) \in 1..Len(r) /\ c[i] = r[i - Len(t)]
      <4>1. c[i][1] = "commit" <=> i - Len(t) = Len(r)
        BY <1>6, <3>2
      <4>2. i - Len(t) = Len(r) <=> i = n
        BY <1>2
      <4>3. i # k
        BY <1>2, <3>2
      <4>. QED
        BY <4>1, <4>2, <4>3
    <3>. QED
      BY <1>2, <3>1, <3>2
  <2>3. \A i \in 1..n : i # n => (c[i][1] \in Generators <=> i > k)
    <3>1. \A i \in 1..Len(t) : t[i][1] \notin Generators
      BY DEF Kinds
    <3>. SUFFICES ASSUME NEW i \in 1..n, i # n
                  PROVE  c[i][1] \in Generators <=> i > k
      OBVIOUS
    <3>2. CASE i \in 1..Len(t) /\ c[i] = t[i]
      BY <1>2, <3>1, <3>2
    <3>3. CASE i > Len(t) /\ i - Len(t) \in 1..Len(r) /\ c[i] = r[i - Len(t)]
      <4>1. i - Len(t) < Len(r)
        BY <1>2, <3>3
      <4>. QED
        BY <1>6, <3>3, <4>1
    <3>. QED
      BY <1>2, <3>2, <3>3
  <2>. QED
    BY <2>1, <2>2, <2>3 DEF CommitsMatch
<1>8. Kinds(c) \intersect BindingKinds # {} =>
        Kinds(c) \intersect (Generators \union {"prune"}) = {}
  <2>1. CASE Kinds(t) \intersect BindingKinds # {}
    <3>1. Kinds(r) \subseteq {"commit"}
      BY <2>1 DEF r
    <3>. QED
      BY <1>9, <2>1, <3>1 DEF Generators
  <2>2. CASE Kinds(t) \intersect BindingKinds = {}
    <3>1. \A i \in 1..Len(r) : r[i][1] \in Generators \union {"commit"}
      BY <1>2, <1>9, <1>6
    <3>2. Kinds(r) \intersect BindingKinds = {}
      BY <3>1 DEF Kinds, Generators, BindingKinds
    <3>. QED
      BY <1>2, <1>9, <2>2, <3>2
  <2>. QED
    BY <2>1, <2>2
<1>. QED
  BY <1>2, <1>9, <1>4, <1>5, <1>7, <1>8 DEF Plan, c, r

(* The loop over the services: any number of handlers and stubs.           *)
LEMMA PlanLoop ==
  ASSUME NEW s, NEW name, NEW depth, Plan(s, name, depth), s # <<>>, Head(s)[1] = "implement",
         NEW t, Open(t, name, 14, 14), Kinds(t) \subseteq {"handler", "stubs", "implement"}
  PROVE  /\ Plan(t \o Tail(s), name, depth)
         /\ Kinds(t \o Tail(s)) = Kinds(t) \union Kinds(Tail(s))
         /\ Of(t \o Tail(s)) = Of(t) \union Of(Tail(s))
<1>. DEFINE r == Tail(s)
            c == t \o r
<1>1. /\ Plan(r, name, depth) /\ Takes(name, "implement")
      /\ \A k \in Kinds(r) : k = "commit" \/ Precedes("implement", k)
  BY PlanTail
<1>2. /\ \E S : c \in Seq(S)
      /\ Len(t) \in Nat /\ Len(r) \in Nat
      /\ Len(c) = Len(t) + Len(r)
      /\ \A i \in 1..Len(c) :
           \/ i \in 1..Len(t) /\ c[i] = t[i]
           \/ i > Len(t) /\ i - Len(t) \in 1..Len(r) /\ c[i] = r[i - Len(t)]
      /\ Kinds(c) = Kinds(t) \union Kinds(r) /\ Of(c) = Of(t) \union Of(r)
  BY <1>1, ConcatOf DEF Open, Part, Plan
<1>3. Kinds(s) = {"implement"} \union Kinds(r) /\ s[1][1] = "implement" /\ 1 \in 1..Len(s)
      /\ Len(s) = Len(r) + 1 /\ \A i \in 1..Len(r) : r[i] = s[i + 1]
  BY KindsOfTail, TailOf DEF Plan
<1>. HIDE DEF c, r
<1>4. \A i \in 1..Len(c) : Takes(name, c[i][1])
  BY <1>1, <1>2 DEF Open, Part, Plan
<1>5. ASSUME NEW i \in 1..Len(c), NEW j \in 1..Len(c), i < j
      PROVE  "commit" \in {c[i][1], c[j][1]} \/ Precedes(c[i][1], c[j][1])
  <2>1. CASE i \in 1..Len(t) /\ j \in 1..Len(t)
    BY <1>2, <1>5, <2>1 DEF Open, Part
  <2>2. CASE i > Len(t) /\ j > Len(t)
    <3>. DEFINE u == i - Len(t)
                v == j - Len(t)
    <3>1. /\ u \in 1..Len(r) /\ v \in 1..Len(r) /\ u < v
          /\ c[i] = r[u] /\ c[j] = r[v]
      BY <1>2, <1>5, <2>2
    <3>. HIDE DEF u, v
    <3>. QED
      BY <1>1, <3>1 DEF Plan
  <2>3. CASE i \in 1..Len(t) /\ j > Len(t)
    <3>1. Rank(c[i][1]) = 14 \/ c[i][1] = "commit"
      BY <1>2, <2>3 DEF Open, Part
    <3>2. c[j][1] \in Kinds(r)
      BY <1>2, <2>3 DEF Kinds
    <3>3. Rank("implement") = 14
      BY DEF Rank
    <3>. QED
      BY <1>1, <3>1, <3>2, <3>3 DEF Precedes
  <2>. QED
    BY <1>2, <1>5, <2>1, <2>2, <2>3
<1>6. \A i \in 1..Len(t) : t[i][1] \notin Generators /\ t[i][1] # "commit"
  BY DEF Kinds, Generators
<1>7. depth # 0 /\ (depth = 1 => name # "generate")
  <2>1. depth # 0
    BY <1>3 DEF Plan, CommitsMatch
  <2>2. ASSUME depth = 1, name = "generate"
        PROVE  FALSE
    <3>1. Len(s) # 1 /\ Len(s) \in Nat
      BY <1>2, <1>3, <2>2 DEF Plan, CommitsMatch
    <3>2. s[1][1] \in Generators
      BY <1>3, <2>2, <3>1 DEF Plan, CommitsMatch
    <3>. QED
      BY <1>3, <3>2 DEF Generators
  <2>. QED
    BY <2>1, <2>2
<1>8. CommitsMatch(c, name, depth)
  <2>. DEFINE n == Len(c)
  <2>1. CASE depth = 1
    <3>1. Len(r) > 0 /\ \A i \in 1..Len(r) : r[i][1] = "commit" <=> i = Len(r)
      BY <1>1, <2>1 DEF Plan, CommitsMatch
    <3>2. n > 0
      BY <1>2, <3>1
    <3>3. ASSUME NEW i \in 1..n
          PROVE  c[i][1] = "commit" <=> i = n
      <4>1. CASE i \in 1..Len(t) /\ c[i] = t[i]
        <5>1. i # n
          BY <1>2, <3>1, <4>1
        <5>. QED
          BY <1>6, <4>1, <5>1
      <4>2. CASE i - Len(t) \in 1..Len(r) /\ c[i] = r[i - Len(t)]
        <5>1. c[i][1] = "commit" <=> i - Len(t) = Len(r)
          BY <3>1, <4>2
        <5>2. i - Len(t) = Len(r) <=> i = n
          BY <1>2
        <5>. QED
          BY <5>1, <5>2
      <4>. QED
        BY <1>2, <4>1, <4>2
    <3>. QED
      BY <1>7, <2>1, <3>2, <3>3 DEF CommitsMatch
  <2>2. CASE depth = 2
    <3>1. PICK k \in 1..Len(r) :
            /\ k < Len(r)
            /\ \A i \in 1..Len(r) : r[i][1] = "commit" <=> i \in {k, Len(r)}
            /\ \A i \in 1..Len(r) : i # Len(r) => (r[i][1] \in Generators <=> i > k)
      BY <1>1, <2>2 DEF Plan, CommitsMatch
    <3>2. Len(t) + k \in 1..n /\ Len(t) + k < n
      BY <1>2, <3>1
    <3>3. ASSUME NEW i \in 1..n
          PROVE  /\ c[i][1] = "commit" <=> i \in {Len(t) + k, n}
                 /\ i # n => (c[i][1] \in Generators <=> i > Len(t) + k)
      <4>1. CASE i \in 1..Len(t) /\ c[i] = t[i]
        <5>1. i # n /\ i # Len(t) + k /\ ~(i > Len(t) + k)
          BY <1>2, <3>1, <4>1
        <5>. QED
          BY <1>6, <4>1, <5>1
      <4>2. CASE i - Len(t) \in 1..Len(r) /\ c[i] = r[i - Len(t)]
        <5>1. /\ c[i][1] = "commit" <=> i - Len(t) \in {k, Len(r)}
              /\ i - Len(t) # Len(r) => (c[i][1] \in Generators <=> i - Len(t) > k)
          BY <3>1, <4>2
        <5>2. /\ i - Len(t) = Len(r) <=> i = n
              /\ i - Len(t) = k <=> i = Len(t) + k
              /\ i - Len(t) > k <=> i > Len(t) + k
          BY <1>2
        <5>. QED
          BY <5>1, <5>2
      <4>. QED
        BY <1>2, <4>1, <4>2
    <3>5. name = "generate"
      BY <2>2 DEF Plan, CommitsMatch
    <3>. QED
      BY <2>2, <3>2, <3>3, <3>5 DEF CommitsMatch
  <2>. QED
    BY <1>7, <2>1, <2>2 DEF Plan, CommitsMatch
<1>9. Kinds(c) \intersect (Generators \union {"prune"}) = {}
  <2>1. Kinds(s) \intersect (Generators \union {"prune"}) = {}
    BY <1>3 DEF Plan, BindingKinds
  <2>. QED
    BY <1>2, <1>3, <2>1 DEF Generators
<1>. QED
  BY <1>2, <1>4, <1>5, <1>8, <1>9 DEF Plan, c, r

(* The order and the kinds, by the names of the steps.                     *)
LEMMA Ranks ==
  /\ Rank("clear") = 0 /\ Rank("http-stub") = 0 /\ Rank("proto") = 0 /\ Rank("http") = 0
  /\ Rank("publish") = 1 /\ Rank("contract") = 1 /\ Rank("api") = 1
  /\ Rank("routes") = 2 /\ Rank("sync") = 3 /\ Rank("pb") = 4
  /\ Rank("buf") = 5 /\ Rank("prune") = 6 /\ Rank("discover") = 7 /\ Rank("register") = 8
  /\ Rank("rpc-stubs") = 9 /\ Rank("verify") = 10 /\ Rank("rpc") = 11
  /\ Rank("require") = 12 /\ Rank("external") = 13
  /\ Rank("handler") = 14 /\ Rank("stubs") = 14 /\ Rank("implement") = 14
  /\ Rank("clients") = 15 /\ Rank("add-config") = 16 /\ Rank("remove-config") = 16
  /\ Rank("manifest") = 17 /\ Rank("tidy") = 18 /\ Rank("compile") = 19 /\ Rank("commit") = 20
BY DEF Rank

LEMMA TakesRank ==
  ASSUME NEW name, NEW k, Takes(name, k)
  PROVE  Rank(k) \in 0..20
<1>1. k \in {"clear", "publish", "commit", "http-stub", "contract", "proto"}
         \union HTTPKinds \union PbKinds \union Generators \union BindingKinds
  BY DEF Takes
<1>2. CASE k \in BindingKinds
  BY <1>2, Ranks DEF BindingKinds
<1>3. CASE k \in HTTPKinds \union PbKinds \union Generators
  BY <1>3, Ranks DEF HTTPKinds, PbKinds, Generators
<1>4. CASE k \in {"clear", "publish", "commit", "http-stub", "contract", "proto"}
  BY <1>4, Ranks
<1>. QED
  BY <1>1, <1>2, <1>3, <1>4 DEF Takes

(* What a kind that is not the commit can be followed by.                  *)
LEMMA StubsFirst ==
  ASSUME NEW s, NEW name, NEW depth, Plan(s, name, depth), s # <<>>
  PROVE  /\ "http-stub" \notin Kinds(Tail(s)) /\ "clear" \notin Kinds(Tail(s))
         /\ Kinds(Tail(s)) \subseteq Kinds(s) /\ Head(s)[1] \in Kinds(s)
         /\ Of(Tail(s)) \subseteq Of(s) /\ Head(s) \in Of(s)
<1>1. Kinds(s) = {Head(s)[1]} \union Kinds(Tail(s))
  BY KindsOfTail DEF Plan
<1>2. Of(Tail(s)) \subseteq Of(s) /\ Head(s) \in Of(s)
  BY TailOf DEF Of, Plan
<1>3. ASSUME NEW k \in {"http-stub", "clear"}, k \in Kinds(Tail(s))
      PROVE  FALSE
  <2>1. Rank(k) = 0 /\ k # "commit"
    BY <1>3, Ranks
  <2>2. CASE Head(s)[1] # "commit"
    <3>. DEFINE h == Head(s)[1]
    <3>3. Takes(name, h) /\ \A l \in Kinds(Tail(s)) : l = "commit" \/ Precedes(h, l)
      BY <2>2, PlanTail
    <3>. HIDE DEF h
    <3>1. Precedes(h, k)
      BY <1>3, <2>1, <3>3
    <3>2. Rank(h) \in Nat
      BY <3>3, TakesRank
    <3>4. Rank(h) < 0 \/ (Rank(h) = 14 /\ 0 = 14)
      BY <2>1, <3>1 DEF Precedes
    <3>. QED
      BY <3>2, <3>4
  <2>3. CASE Head(s)[1] = "commit"
    <3>1. Tail(s) = <<>> \/ (name = "generate" /\ Plan(Tail(s), name, depth - 1))
      BY <2>3, PlanCommit
    <3>2. Tail(s) # <<>>
      BY <1>3, OpenNothing
    <3>3. Takes("generate", k)
      BY <1>3, <3>1, <3>2 DEF Plan, Kinds
    <3>. QED
      BY <1>3, <3>3 DEF Takes, HTTPKinds, PbKinds, BindingKinds, Generators
  <2>. QED
    BY <2>2, <2>3
<1>. QED
  BY <1>1, <1>2, <1>3

-------------------------------------------------------------------------------
(* The steps of a command.                                                 *)

(* Which places are the developer's, generated or the manifest.            *)
LEMMA Places ==
  /\ Target \in Path /\ Manifest \in Path
  /\ Target[1] = "target" /\ Manifest[1] = "rpc.json"
  /\ GoMod[1] = "go.mod" /\ GoSum[1] = "go.sum" /\ LocalConfig[1] = "local.yaml"
  /\ External[1] = "external.gen.go" /\ ClientsGen[1] = "clients.gen.go"
  /\ Contract[1] = "openapi.yaml" /\ ApiGen[1] = "api.gen.go"
  /\ RoutesGen[1] = "routes.gen.go" /\ RegisterGen[1] = "register.gen.go"
  /\ \A p \in Owned :
       p \in Path /\ p[1] \in {"handler", "stub", "http-stub", "rpc-stub", "models"}
  /\ \A p \in Generated : p[1] \in {"pb.go", "grpc.pb.go"}
  /\ \A f : Proto(f)[1] = "proto" /\ RpcStub(f)[1] = "rpc-stub"
  /\ \A o : HttpStub(o)[1] = "http-stub"
  /\ \A h : HandlerFile(h)[1] = "handler"
  /\ \A h, m : StubFile(h, m)[1] = "stub"
<1>1. Target \in Path /\ Manifest \in Path
  BY PathAssumption DEF ProjectPath
<1>4. Models \in Path
  BY PathAssumption DEF ProjectPath, HttpPaths
<1>2. \A p \in Owned :
        p \in Path /\ p[1] \in {"handler", "stub", "http-stub", "rpc-stub", "models"}
  BY <1>4 DEF Owned, ServiceFile, Models
<1>3. \A p \in Generated : p[1] \in {"pb.go", "grpc.pb.go"}
  BY DEF Generated, Messages, Services
<1>. QED
  BY <1>1, <1>2, <1>3
     DEF Target, Manifest, GoMod, GoSum, LocalConfig, External, ClientsGen, Contract, ApiGen,
         RoutesGen, RegisterGen, Proto, RpcStub, HttpStub, HandlerFile, StubFile

(* Only what protoc generates is ever left without its beginning.          *)
LEMMA RemainsOf ==
  ASSUME NEW p
  PROVE  /\ Remains(p) \subseteq {Torn, Headless}
         /\ p[1] \notin {"pb.go", "grpc.pb.go"} => Remains(p) = {Torn}
BY DEF Remains

LEMMA CutsOf ==
  ASSUME NEW ps, NEW cut \in Cuts(ps)
  PROVE  DOMAIN cut \subseteq ps /\ \A p \in DOMAIN cut : cut[p] \in Remains(p)
<1>1. CASE cut = Nothing
  BY <1>1 DEF Nothing
<1>2. ASSUME NEW p \in ps, NEW left \in Remains(p), cut = At(p, left)
      PROVE  DOMAIN cut \subseteq ps /\ \A q \in DOMAIN cut : cut[q] \in Remains(q)
  BY <1>2 DEF At
<1>. QED
  BY <1>1, <1>2 DEF Cuts

(* A rollback leaves a file as it is, or removed, or cut short.            *)
LEMMA RestoreIsUndo ==
  ASSUME Restore
  PROVE  /\ UNCHANGED toolVars
         /\ \E lost : \E fails \in BOOLEAN :
              /\ Undo(lost, fails) /\ DOMAIN lost \subseteq DOMAIN Top
              /\ \A p \in DOMAIN lost : lost[p] \in Remains(p) \union {Absent, tree[p]}
<1>1. PICK removed, inPlace : RollBack(removed, inPlace)
  BY DEF Restore
<1>. DEFINE Left(p)   == IF p \in removed /\ tree[p] # Headless THEN Absent ELSE tree[p]
            unsaved   == {p \in DOMAIN Top \intersect removed : Top[p] \in {Absent, Headless}}
            different == {p \in DOMAIN Top : Left(p) # Top[p]}
            written   == IF inPlace THEN {p \in DOMAIN Top : Top[p] # Absent} ELSE {}
            Lost(missed, cut) ==
              [p \in missed \union DOMAIN cut \union (different \intersect unsaved) |->
                 IF p \in DOMAIN cut THEN cut[p] ELSE Left(p)]
<1>2. PICK missed \in SUBSET (different \ unsaved), cut \in Cuts(written) :
        Undo(Lost(missed, cut), missed \union DOMAIN cut # {})
  BY <1>1 DEF RollBack
<1>3. DOMAIN cut \subseteq DOMAIN Top /\ \A p \in DOMAIN cut : cut[p] \in Remains(p)
  BY <1>2, CutsOf
<1>4. DOMAIN Lost(missed, cut) \subseteq DOMAIN Top
  BY <1>2, <1>3
<1>5. \A p \in DOMAIN Lost(missed, cut) :
        Lost(missed, cut)[p] \in Remains(p) \union {Absent, tree[p]}
  BY <1>2, <1>3
<1>6. (missed \union DOMAIN cut # {}) \in BOOLEAN
  OBVIOUS
<1>7. UNCHANGED toolVars
  BY <1>1 DEF RollBack
<1>. HIDE DEF Lost
<1>. QED
  BY <1>2, <1>4, <1>5, <1>6, <1>7

(* While a command works nothing has been lost.                            *)
LEMMA KeptSoFar ==
  ASSUME FileInv, SafetyInv, status = "working", NEW p \in Owned, before[p] # Absent
  PROVE  tree[p] = before[p] /\ tree[p] # Absent
BY DEF FileInv, Orderly, SafetyInv, UserInv

(* What a step may write where nothing is to be lost.                      *)
Gentle(new) ==
  \A p \in Path \intersect DOMAIN new :
    /\ p # Target
    /\ p \in Owned => tree[p] = Absent
    /\ p = Manifest => Loadable(new[p], ServesGRPC)

(* A tree with new content for some files.                                 *)
LEMMA Written ==
  ASSUME FileInv, SafetyInv, status = "working", NEW new, Gentle(new), tree' = With(new)
  PROVE  /\ tree'[Target] = tree[Target]
         /\ tree[Target] = "project" => tree'[Target] = "project"
         /\ Loadable(tree'[Manifest], ServesGRPC)
         /\ \A p \in Owned : before[p] # Absent => tree'[p] = before[p]
         /\ \A p \in Path \ DOMAIN new : tree'[p] = tree[p]
<1>1. \A p \in Path : tree'[p] = IF p \in DOMAIN new THEN new[p] ELSE tree[p]
  BY WithNew
<1>2. tree'[Target] = tree[Target]
  BY <1>1, Places DEF Gentle
<1>3. Loadable(tree'[Manifest], ServesGRPC)
  BY <1>1, Places DEF Gentle, SafetyInv, ManifestInv
<1>4. ASSUME NEW p \in Owned, before[p] # Absent
      PROVE  tree'[p] = before[p]
  <2>1. tree[p] = before[p] /\ tree[p] # Absent
    BY <1>4, KeptSoFar
  <2>2. p \in Path
    BY Places
  <2>. QED
    BY <1>1, <2>1, <2>2 DEF Gentle
<1>. QED
  BY <1>1, <1>2, <1>3, <1>4

LEMMA SameName ==
  ASSUME SafetyInv, NEW m, command' = [command EXCEPT !.manifest = m]
  PROVE  /\ command'.name = command.name /\ command'.manifest = m
         /\ command' = [name |-> command'.name, manifest |-> command'.manifest]
<1>1. command = [name |-> command.name, manifest |-> command.manifest]
  BY DEF SafetyInv
<1>2. command' = [[name |-> command.name, manifest |-> command.manifest] EXCEPT !.manifest = m]
  BY <1>1
<1>3. command' = [name |-> command.name, manifest |-> m]
  BY <1>2
<1>. QED
  BY <1>3

(* A step that wrote its files, and that may be followed by others.        *)
LEMMA AdvanceKeeps ==
  ASSUME FileInv, SafetyInv, NEW new,
         steps # <<>>, Head(steps)[1] # "commit", command.name # "new",
         Put(new), Gentle(new), steps' = Tail(steps), UNCHANGED <<kind, published>>,
         \/ command' = command
         \/ Head(steps)[1] = "prune" /\ \E m : command' = [command EXCEPT !.manifest = m],
         \/ Path \intersect DOMAIN new \subseteq Covered
         \/ command.name # "generate" /\ Kinds(Tail(steps)) \subseteq {"commit"}
         \/ Head(steps)[1] = "rpc-stubs" /\ Path \intersect DOMAIN new \subseteq Leftovers
  PROVE  SafetyInv'
<1>1. /\ status = "working" /\ status' = status /\ tree' = With(new)
      /\ exposed' = exposed \union (DOMAIN new \ Covered)
      /\ UNCHANGED <<snapshots, before, spoiled>>
  BY DEF Put
<1>13. /\ command'.name = command.name
       /\ command' = [name |-> command'.name, manifest |-> command'.manifest]
       /\ command' = command \/ Head(steps)[1] = "prune"
  BY SameName DEF SafetyInv
<1>2. /\ tree'[Target] = tree[Target]
      /\ Loadable(tree'[Manifest], ServesGRPC)
      /\ \A p \in Owned : before[p] # Absent => tree'[p] = before[p]
      /\ \A p \in Path \ DOMAIN new : tree'[p] = tree[p]
  BY <1>1, Written
<1>3. Plan(steps, command.name, Len(snapshots))
  BY <1>1 DEF SafetyInv, PlanInv
<1>4. /\ Plan(Tail(steps), command.name, Len(snapshots))
      /\ \A k \in Kinds(Tail(steps)) : k = "commit" \/ Precedes(Head(steps)[1], k)
  BY <1>3, PlanTail
<1>5. /\ "http-stub" \notin Kinds(Tail(steps)) /\ "clear" \notin Kinds(Tail(steps))
      /\ Kinds(Tail(steps)) \subseteq Kinds(steps) /\ Head(steps)[1] \in Kinds(steps)
      /\ Of(Tail(steps)) \subseteq Of(steps)
  BY <1>3, StubsFirst
<1>6. Head(steps)[1] = "prune" => Kinds(steps) \intersect BindingKinds = {}
  BY <1>3, <1>5 DEF Plan
<1>7. Covered' = Covered /\ Leftovers' = Leftovers
  BY <1>1, <1>13 DEF Covered, Leftovers
<1>8. PlanInv'
  BY <1>13, <1>1, <1>4 DEF PlanInv
<1>9. TargetInv'
  <2>1. tree[Target] = "project"
    BY <1>13, <1>1 DEF SafetyInv, TargetInv, Running
  <2>. QED
    BY <1>13, <1>1, <1>2, <2>1 DEF SafetyInv, TargetInv, Running
<1>10. ManifestInv'
  <2>1. Kinds(steps') \intersect BindingKinds # {} => GoodManifest(command'.manifest, ServesGRPC)
    BY <1>13, <1>5, <1>6 DEF SafetyInv, ManifestInv
  <2>2. ServesGRPC' = ServesGRPC
    BY DEF ServesGRPC, HasGRPC, HasServer
  <2>. QED
    BY <1>1, <1>2, <2>1, <2>2 DEF SafetyInv, ManifestInv
<1>11. UserInv'
  <2>2. \A i \in 1..Len(steps') : steps'[i][1] # "http-stub"
    BY <1>5 DEF Kinds
  <2>1. \A o \in Operation, i \in 1..Len(steps') : steps'[i] # <<"http-stub", o>>
    BY <2>2
  <2>. QED
    BY <1>1, <1>2, <2>1 DEF SafetyInv, UserInv
<1>12. CoverInv'
  <2>1. ASSUME NEW i \in 1..Len(steps')
        PROVE  Held(steps'[i], Covered, command.name, command'.manifest)
    <3>1. Held(steps'[i], Covered, command.name, command.manifest)
      BY <1>5 DEF Of, SafetyInv, CoverInv
    <3>2. CASE command' = command
      BY <3>1, <3>2
    <3>3. CASE Head(steps)[1] = "prune"
      <4>1. steps'[i][1] \notin {"handler", "stubs"}
        BY <1>5, <1>6, <3>3 DEF Kinds, BindingKinds
      <4>. QED
        BY <3>1, <4>1 DEF Held
    <3>. QED
      BY <1>13, <3>2, <3>3
  <2>2. CASE Path \intersect DOMAIN new \subseteq Covered
    <3>1. Path \intersect exposed' = Path \intersect exposed
      BY <1>1, <2>2
    <3>2. \/ exposed \intersect Path = {}
          \/ exposed \intersect Path \subseteq Leftovers /\ "rpc-stubs" \notin Kinds(steps)
          \/ command.name # "generate" /\ Kinds(steps) \subseteq {"commit"}
      BY <1>1 DEF SafetyInv, CoverInv
    <3>. QED
      BY <1>13, <1>1, <1>5, <1>7, <2>1, <3>1, <3>2 DEF SafetyInv, CoverInv
  <2>3. CASE command.name # "generate" /\ Kinds(Tail(steps)) \subseteq {"commit"}
    BY <1>13, <1>1, <1>7, <2>1, <2>3 DEF SafetyInv, CoverInv
  <2>4. CASE Head(steps)[1] = "rpc-stubs" /\ Path \intersect DOMAIN new \subseteq Leftovers
    <3>1. "rpc-stubs" \notin Kinds(Tail(steps))
      BY <1>4, <2>4, Ranks DEF Precedes
    <3>2. exposed \intersect Path \subseteq Leftovers
      BY <1>1, <1>5, <2>4 DEF SafetyInv, CoverInv
    <3>3. exposed' \intersect Path \subseteq Leftovers
      BY <1>1, <2>4, <3>2
    <3>. QED
      BY <1>13, <1>1, <1>7, <2>1, <3>1, <3>3 DEF SafetyInv, CoverInv
  <2>. QED
    BY <2>2, <2>3, <2>4
<1>. QED
  BY <1>13, <1>1, <1>8, <1>9, <1>10, <1>11, <1>12 DEF SafetyInv

(* A step that was cut short.                                              *)
LEMMA CutKeeps ==
  ASSUME FileInv, SafetyInv, NEW new,
         steps # <<>>, Head(steps)[1] # "commit", command.name # "new",
         Interrupt(new) \/ Crash(new), Gentle(new), steps' = <<>>, UNCHANGED <<kind, published>>,
         \E m : command' = [command EXCEPT !.manifest = m],
         Interrupt(new) => Path \intersect DOMAIN new \subseteq Covered \union Leftovers
  PROVE  SafetyInv'
<1>1. /\ status = "working" /\ tree' = With(new)
      /\ exposed' = exposed \union (DOMAIN new \ Covered)
      /\ UNCHANGED <<before, spoiled>>
      /\ \/ Interrupt(new) /\ status' = "undoing" /\ snapshots' = snapshots
         \/ status' = "crashed" /\ snapshots' = <<>>
  BY DEF Interrupt, Crash, CutShort
<1>11. /\ command'.name = command.name
       /\ command' = [name |-> command'.name, manifest |-> command'.manifest]
  BY SameName
<1>2. /\ tree'[Target] = tree[Target]
      /\ Loadable(tree'[Manifest], ServesGRPC)
      /\ \A p \in Owned : before[p] # Absent => tree'[p] = before[p]
  BY <1>1, Written
<1>3. Plan(steps, command.name, Len(snapshots))
  BY <1>1 DEF SafetyInv, PlanInv
<1>4. steps' = <<>> /\ Kinds(<<>>) = {} /\ Len(<<>>) = 0
  BY OpenNothing
<1>5. Leftovers' = Leftovers /\ ServesGRPC' = ServesGRPC
  BY <1>11, <1>1 DEF Leftovers, ServesGRPC, HasGRPC, HasServer
<1>6. PlanInv'
  BY <1>1 DEF PlanInv
<1>7. TargetInv'
  <2>1. tree[Target] = "project"
    BY <1>1 DEF SafetyInv, TargetInv, Running
  <2>. QED
    BY <1>11, <1>1, <1>2, <1>4, <2>1 DEF SafetyInv, TargetInv, Running
<1>8. ManifestInv'
  BY <1>1, <1>2, <1>4, <1>5 DEF SafetyInv, ManifestInv
<1>9. UserInv'
  BY <1>1, <1>2, <1>4 DEF SafetyInv, UserInv
<1>10. CoverInv'
  <2>1. ASSUME status' = "undoing"
        PROVE  exposed' \intersect Path \subseteq Leftovers
    <3>1. Path \intersect DOMAIN new \subseteq Covered \union Leftovers
      BY <1>1, <2>1
    <3>2. Head(steps)[1] \in Kinds(steps)
      BY <1>3, StubsFirst
    <3>3. exposed \intersect Path \subseteq Leftovers
      BY <1>1, <3>2 DEF SafetyInv, CoverInv
    <3>. QED
      BY <1>1, <3>1, <3>3
  <2>. QED
    BY <1>11, <1>1, <1>4, <1>5, <2>1 DEF CoverInv
<1>. QED
  BY <1>11, <1>1, <1>6, <1>7, <1>8, <1>9, <1>10 DEF SafetyInv

(* A step that failed.                                                     *)
LEMMA FailKeeps ==
  ASSUME FileInv, SafetyInv, steps # <<>>,
         Fail, steps' = <<>>, UNCHANGED <<kind, command, published>>,
         Head(steps)[1] # "commit" \/ command.name = "generate"
  PROVE  SafetyInv'
<1>1. /\ status = "working" /\ status' = "undoing"
      /\ UNCHANGED <<tree, snapshots, before, exposed, spoiled>>
  BY DEF Fail
<1>2. Plan(steps, command.name, Len(snapshots))
  BY <1>1 DEF SafetyInv, PlanInv
<1>3. steps' = <<>> /\ Kinds(<<>>) = {} /\ Len(<<>>) = 0
  BY OpenNothing
<1>4. Leftovers' = Leftovers /\ ServesGRPC' = ServesGRPC
  BY <1>1 DEF Leftovers, ServesGRPC, HasGRPC, HasServer
<1>5. Head(steps)[1] \in Kinds(steps) /\ Takes(command.name, Head(steps)[1])
  BY <1>2, StubsFirst, PlanTail
<1>6. PlanInv'
  BY <1>1 DEF PlanInv
<1>7. TargetInv'
  <2>1. command.name = "new" => Kinds(steps) \intersect {"clear", "publish"} # {}
    BY <1>5 DEF Takes
  <2>. QED
    BY <1>1, <1>3, <2>1 DEF SafetyInv, TargetInv, Running
<1>8. ManifestInv'
  BY <1>1, <1>3, <1>4 DEF SafetyInv, ManifestInv
<1>9. UserInv'
  BY <1>1, <1>3 DEF SafetyInv, UserInv
<1>10. CoverInv'
  <2>1. exposed \intersect Path \subseteq Leftovers
    BY <1>1, <1>5 DEF SafetyInv, CoverInv
  <2>. QED
    BY <1>1, <1>3, <1>4, <2>1 DEF CoverInv
<1>. QED
  BY <1>1, <1>6, <1>7, <1>8, <1>9, <1>10 DEF SafetyInv

(* A command that starts where nothing is known but that all is at rest.   *)
LEMMA StartKeeps ==
  ASSUME FileInv, SafetyInv, NEW name, NEW manifest, NEW taken, NEW todo, NEW ps,
         Start(name, manifest, taken, todo), UNCHANGED published,
         taken = <<Saved(ps)>> \/ (taken = <<>> /\ ps = {}),
         Plan(todo, name, Len(taken)),
         IF name = "new" THEN tree[Target] # "project" /\ ps = {Target}
                         ELSE tree[Target] = "project" /\ Target \notin ps,
         Kinds(todo) \intersect BindingKinds # {} => GoodManifest(manifest, ServesGRPC),
         \A o \in Operation : <<"http-stub", o>> \in Of(todo) => tree[HttpStub(o)] = Absent,
         \A x \in Of(todo) : Held(x, ps, name, manifest),
         name = "generate" => ps = GeneratorState
  PROVE  SafetyInv'
<1>1. /\ AtRest /\ status' = "working" /\ before' = tree /\ tree' = tree
      /\ snapshots' = taken /\ exposed' = {} /\ spoiled' = {}
      /\ kind' = kind /\ steps' = todo
      /\ command'.name = name /\ command'.manifest = manifest
      /\ command' = [name |-> command'.name, manifest |-> command'.manifest]
  BY DEF Start, Begin
<1>2. /\ DOMAIN Saved(ps) = ps /\ \A p \in ps : Saved(ps)[p] = tree[p]
      /\ taken # <<>> => taken = <<Saved(ps)>>
      /\ Len(taken) \in Nat
      /\ \A i \in 1..Len(taken) : i = 1 /\ taken[i] = Saved(ps)
      /\ taken = <<>> => ps = {}
  <2>1. <<Saved(ps)>> # <<>> /\ Len(<<Saved(ps)>>) = 1 /\ <<Saved(ps)>>[1] = Saved(ps)
        /\ Len(<<>>) = 0
    OBVIOUS
  <2>2. DOMAIN Saved(ps) = ps /\ \A p \in ps : Saved(ps)[p] = tree[p]
    BY DEF Saved
  <2>3. CASE taken = <<>> /\ ps = {}
    BY <2>1, <2>2, <2>3
  <2>4. CASE taken = <<Saved(ps)>>
    <3>1. Len(taken) = 1 /\ taken[1] = Saved(ps) /\ taken # <<>>
      BY <2>1, <2>4
    <3>. QED
      BY <2>2, <2>4, <3>1
  <2>. QED
    BY <2>3, <2>4
<1>. HIDE DEF Saved
<1>3. ServesGRPC' = ServesGRPC
  BY <1>1 DEF ServesGRPC, HasGRPC, HasServer
<1>4. Covered' = ps
  BY <1>1, <1>2 DEF Covered
<1>5. PlanInv'
  BY <1>1 DEF PlanInv
<1>6. TargetInv'
  BY <1>1, <1>2 DEF SafetyInv, TargetInv, Running
<1>7. ManifestInv'
  BY <1>1, <1>2, <1>3 DEF SafetyInv, ManifestInv
<1>8. UserInv'
  BY <1>1, <1>2 DEF UserInv, Of
<1>9. CoverInv'
  BY <1>1, <1>4 DEF CoverInv, Of
<1>. QED
  BY <1>1, <1>5, <1>6, <1>7, <1>8, <1>9 DEF SafetyInv

(* A nested generator starts.                                              *)
LEMMA PlanGenerator ==
  ASSUME NEW s, NEW name, NEW depth, Plan(s, name, depth), s # <<>>, Head(s)[1] \in Generators
  PROVE  /\ name = "generate" /\ depth = 1
         /\ Kinds(s) \subseteq Generators \union {"commit"}
<1>1. Takes(name, Head(s)[1])
  BY PlanTail
<1>2. name = "generate"
  BY <1>1 DEF Takes, Generators, HTTPKinds, PbKinds, BindingKinds
<1>3. Len(s) \in Nat /\ Len(s) > 0 /\ Head(s) = s[1] /\ 1 \in 1..Len(s)
  BY TailOf DEF Plan
<1>4. depth = 1
  <2>1. depth # 0
    BY <1>3 DEF Plan, CommitsMatch, Generators
  <2>2. ASSUME depth = 2
        PROVE  FALSE
    <3>1. PICK k \in 1..Len(s) :
            k < Len(s) /\ \A i \in 1..Len(s) : i # Len(s) => (s[i][1] \in Generators <=> i > k)
      BY <2>2 DEF Plan, CommitsMatch
    <3>. QED
      BY <1>3, <3>1
  <2>. QED
    BY <2>1, <2>2 DEF Plan, CommitsMatch
<1>5. ASSUME NEW i \in 1..Len(s)
      PROVE  s[i][1] \in Generators \union {"commit"}
  <2>1. CASE i = Len(s)
    BY <1>4, <2>1 DEF Plan, CommitsMatch
  <2>2. CASE i < Len(s)
    BY <1>2, <1>4, <2>2 DEF Plan, CommitsMatch
  <2>. QED
    BY <1>3, <2>1, <2>2
<1>. QED
  BY <1>2, <1>4, <1>5 DEF Kinds

LEMMA EnterKeeps ==
  ASSUME FileInv, SafetyInv, NEW step, NEW manifest, NEW ps, NEW todo,
         NEW lo \in Nat, NEW hi \in Nat,
         Enter(step, manifest, ps, todo), UNCHANGED published,
         step[1] \in Generators, Target \notin ps,
         Closed(todo, "generate", lo, hi), Kinds(todo) \intersect Generators = {},
         \A k \in Kinds(Tail(steps)) : k = "commit" \/ (Rank(k) \in Nat /\ hi < Rank(k)),
         Kinds(todo) \intersect BindingKinds # {} =>
           /\ "prune" \notin Kinds(todo) /\ Kinds(Tail(steps)) \subseteq {"commit"}
           /\ GoodManifest(manifest, ServesGRPC),
         \A x \in Of(todo) : Held(x, GeneratorState, "generate", manifest)
  PROVE  SafetyInv'
<1>1. /\ status = "working" /\ steps # <<>> /\ Head(steps)[1] \in Generators
      /\ snapshots' = Append(snapshots, Saved(ps)) /\ steps' = todo \o Tail(steps)
      /\ command' = [command EXCEPT !.manifest = manifest]
      /\ UNCHANGED <<kind, tree, status, before, exposed, spoiled, published>>
  BY DEF Enter, IsNext, TakeSnapshot
<1>2. /\ Plan(steps, "generate", 1) /\ Kinds(steps) \subseteq Generators \union {"commit"}
      /\ command.name = "generate" /\ Len(snapshots) = 1
  <2>1. Plan(steps, command.name, Len(snapshots))
    BY <1>1 DEF SafetyInv, PlanInv
  <2>2. command.name = "generate" /\ Len(snapshots) = 1
        /\ Kinds(steps) \subseteq Generators \union {"commit"}
    BY <1>1, <2>1, PlanGenerator
  <2>. QED
    BY <2>1, <2>2
<1>3. /\ Plan(steps', "generate", 2)
      /\ Kinds(steps') = Kinds(todo) \union Kinds(Tail(steps))
      /\ Of(steps') = Of(todo) \union Of(Tail(steps))
  <2>1. Head(steps)[1] # "commit"
    BY <1>1 DEF Generators
  <2>. QED
    BY <1>1, <1>2, <2>1, PlanEnter
<1>4. /\ Kinds(Tail(steps)) \subseteq Generators \union {"commit"}
      /\ Of(Tail(steps)) \subseteq Of(steps)
  BY <1>1, <1>2, StubsFirst
<1>5. DOMAIN Saved(ps) = ps /\ \A p \in ps : Saved(ps)[p] = tree[p]
  BY DEF Saved
<1>6. /\ command'.name = "generate" /\ command'.manifest = manifest
      /\ command' = [name |-> command'.name, manifest |-> command'.manifest]
  BY <1>1, <1>2, SameName
<1>7. /\ Len(snapshots') = 2
      /\ snapshots'[1] = snapshots[1] /\ snapshots'[2] = Saved(ps)
      /\ snapshots # <<>> /\ snapshots' # <<>>
  <2>1. SeqOfFrames(snapshots)
    BY DEF FileInv, Maps
  <2>. DEFINE f == Saved(ps)
  <2>. HIDE DEF f
  <2>2. /\ SeqOfFrames(snapshots')
        /\ Len(snapshots') = Len(snapshots) + 1
        /\ \A i \in 1..Len(snapshots) : snapshots'[i] = snapshots[i]
        /\ snapshots'[Len(snapshots) + 1] = f
    BY <1>1, <2>1, AppendFrame DEF f
  <2>3. Len(snapshots') = 2 /\ snapshots'[1] = snapshots[1] /\ snapshots'[2] = f
    BY <1>2, <2>2
  <2>4. snapshots # <<>> /\ snapshots' # <<>>
    BY <1>2, <2>3, EmptySeqOfFrames
  <2>. QED
    BY <2>3, <2>4 DEF f
<1>8. Covered' = Covered /\ Covered = GeneratorState /\ Leftovers' = Leftovers
      /\ ServesGRPC' = ServesGRPC
  BY <1>1, <1>2, <1>6, <1>7
     DEF Covered, SafetyInv, CoverInv, Leftovers, ServesGRPC, HasGRPC, HasServer
<1>9. PlanInv'
  BY <1>1, <1>3, <1>6, <1>7 DEF PlanInv
<1>10. TargetInv'
  <2>1. \A i \in 1..Len(snapshots') : Target \notin DOMAIN snapshots'[i]
    BY <1>1, <1>2, <1>5, <1>7 DEF SafetyInv, TargetInv, Running
  <2>. QED
    BY <1>1, <1>2, <1>6, <2>1 DEF SafetyInv, TargetInv, Running
<1>11. ManifestInv'
  <2>1. Kinds(Tail(steps)) \intersect BindingKinds = {}
    BY <1>4 DEF Generators, BindingKinds
  <2>. QED
    BY <1>1, <1>2, <1>3, <1>5, <1>6, <1>7, <1>8, <2>1 DEF SafetyInv, ManifestInv
<1>12. UserInv'
  <2>1. ASSUME NEW p \in Owned, before[p] # Absent
        PROVE  /\ tree[p] = before[p]
               /\ \A i \in 1..Len(snapshots') :
                    p \in DOMAIN snapshots'[i] => snapshots'[i][p] = before[p]
    <3>1. tree[p] = before[p]
      BY <1>1, <2>1, KeptSoFar
    <3>. QED
      BY <1>2, <1>5, <1>7, <2>1, <3>1 DEF SafetyInv, UserInv
  <2>2. \A i \in 1..Len(steps') : steps'[i][1] # "http-stub"
    BY <1>3 DEF Plan, Takes, HTTPKinds, PbKinds, BindingKinds, Generators
  <2>3. \A o \in Operation, i \in 1..Len(steps') : steps'[i] # <<"http-stub", o>>
    BY <2>2
  <2>. QED
    BY <1>1, <2>1, <2>3 DEF UserInv
<1>13. CoverInv'
  <2>1. ASSUME NEW x \in Of(steps')
        PROVE  Held(x, GeneratorState, "generate", command'.manifest)
    <3>1. CASE x \in Of(todo)
      BY <1>6, <3>1
    <3>2. CASE x \in Of(Tail(steps))
      <4>1. Held(x, GeneratorState, "generate", command.manifest)
        BY <1>2, <1>4, <1>8, <3>2 DEF SafetyInv, CoverInv, Of
      <4>2. x[1] \in Generators \union {"commit"}
        BY <1>4, <3>2 DEF Of, Kinds
      <4>3. x[1] \notin {"handler", "stubs"}
        BY <4>2 DEF Generators
      <4>. QED
        BY <4>1, <4>3 DEF Held
    <3>. QED
      BY <1>3, <3>1, <3>2
  <2>2. exposed \intersect Path = {}
    <3>1. Leftovers = {}
      BY <1>2 DEF Leftovers
    <3>2. ~(Kinds(steps) \subseteq {"commit"})
      BY <1>1, <1>2, StubsFirst DEF Generators
    <3>. QED
      BY <1>1, <1>2, <3>1, <3>2 DEF SafetyInv, CoverInv
  <2>. QED
    BY <1>1, <1>6, <1>8, <2>1, <2>2 DEF CoverInv, Of
<1>. QED
  BY <1>1, <1>6, <1>9, <1>10, <1>11, <1>12, <1>13 DEF SafetyInv

(* A snapshot is dropped.                                                  *)
LEMMA CommitKeeps == FileInv /\ SafetyInv /\ CommitStep /\ UNCHANGED published => SafetyInv'
<1>. SUFFICES ASSUME FileInv, SafetyInv, CommitStep, UNCHANGED published
              PROVE  SafetyInv'
  OBVIOUS
<1>1. /\ status = "working" /\ steps # <<>> /\ Head(steps)[1] = "commit"
      /\ snapshots # <<>> /\ snapshots' = SubSeq(snapshots, 1, Len(snapshots) - 1)
      /\ exposed' = IF Len(snapshots) > 1 THEN exposed
                    ELSE exposed \union {p \in DOMAIN Top : tree[p] # before[p]}
      /\ steps' = Tail(steps)
      /\ UNCHANGED <<kind, command, tree, status, before, spoiled>>
  BY DEF CommitStep, IsNext, Commit
<1>2. Plan(steps, command.name, Len(snapshots))
  BY <1>1 DEF SafetyInv, PlanInv
<1>3. /\ Len(snapshots) \in {1, 2} /\ (Len(snapshots) = 2 => command.name = "generate")
      /\ Len(snapshots) = 1 => Tail(steps) = <<>>
      /\ Plan(Tail(steps), command.name, Len(snapshots) - 1)
  BY <1>1, <1>2, PlanCommit
<1>4. /\ "http-stub" \notin Kinds(Tail(steps)) /\ "clear" \notin Kinds(Tail(steps))
      /\ Kinds(Tail(steps)) \subseteq Kinds(steps)
      /\ Of(Tail(steps)) \subseteq Of(steps)
  BY <1>1, <1>2, StubsFirst
<1>5. /\ Len(snapshots') = Len(snapshots) - 1
      /\ \A i \in 1..Len(snapshots') : snapshots'[i] = snapshots[i] /\ i \in 1..Len(snapshots)
      /\ Len(snapshots) > 1 => Covered' = Covered
      /\ Len(snapshots) = 1 => snapshots' = <<>>
  <2>1. SeqOfFrames(snapshots)
    BY DEF FileInv, Maps
  <2>2. /\ Len(snapshots') = Len(snapshots) - 1
        /\ \A i \in 1..Len(snapshots') : snapshots'[i] = snapshots[i]
        /\ Len(snapshots) > 1 => Covered' = Covered
    BY <1>1, Dropped
  <2>3. Len(snapshots) = 1 => snapshots' = <<>>
    BY <1>1, <2>1, DropFrame
  <2>. QED
    BY <1>3, <2>2, <2>3
<1>6. Leftovers' = Leftovers /\ ServesGRPC' = ServesGRPC
  BY <1>1 DEF Leftovers, ServesGRPC, HasGRPC, HasServer
<1>7. PlanInv'
  BY <1>1, <1>3, <1>5 DEF PlanInv
<1>8. TargetInv'
  <2>1. Kinds(steps') \intersect {"clear", "publish"} # {} =>
          Kinds(steps) \intersect {"clear", "publish"} # {}
    BY <1>1, <1>4
  <2>. QED
    BY <1>1, <1>5, <2>1 DEF SafetyInv, TargetInv, Running
<1>9. ManifestInv'
  BY <1>1, <1>4, <1>5, <1>6 DEF SafetyInv, ManifestInv
<1>10. UserInv'
  <2>1. \A i \in 1..Len(steps') : steps'[i][1] # "http-stub"
    BY <1>1, <1>4 DEF Kinds
  <2>2. \A o \in Operation, i \in 1..Len(steps') : steps'[i] # <<"http-stub", o>>
    BY <2>1
  <2>. QED
    BY <1>1, <1>5, <2>2 DEF SafetyInv, UserInv
<1>11. CoverInv'
  <2>1. CASE Len(snapshots) = 1
    <3>1. steps' = <<>> /\ snapshots' = <<>> /\ Len(<<>>) = 0
      BY <1>1, <1>3, <1>5, <2>1
    <3>. QED
      BY <1>1, <3>1 DEF CoverInv
  <2>2. CASE Len(snapshots) = 2
    <3>1. Covered' = Covered /\ exposed' = exposed /\ command.name = "generate"
      BY <1>1, <1>3, <1>5, <2>2
    <3>2. ASSUME NEW i \in 1..Len(steps')
          PROVE  Held(steps'[i], Covered, command.name, command.manifest)
      BY <1>1, <1>4 DEF Of, SafetyInv, CoverInv
    <3>. QED
      BY <1>1, <1>4, <1>6, <3>1, <3>2 DEF SafetyInv, CoverInv
  <2>. QED
    BY <1>3, <2>1, <2>2
<1>. QED
  BY <1>1, <1>7, <1>8, <1>9, <1>10, <1>11 DEF SafetyInv

(* A snapshot is put back.                                                 *)
LEMMA RestoreKeeps == FileInv /\ SafetyInv /\ Restore /\ UNCHANGED published => SafetyInv'
<1>. SUFFICES ASSUME FileInv, SafetyInv, Restore, UNCHANGED published
              PROVE  SafetyInv'
  OBVIOUS
<1>1. PICK lost, fails :
        /\ Undo(lost, fails) /\ DOMAIN lost \subseteq DOMAIN Top
        /\ \A p \in DOMAIN lost : lost[p] \in Remains(p) \union {Absent, tree[p]}
  BY RestoreIsUndo
<1>2. UNCHANGED toolVars
  BY RestoreIsUndo
<1>3. /\ status = "undoing" /\ snapshots # <<>>
      /\ tree' = With([p \in DOMAIN Top |-> IF p \in DOMAIN lost THEN lost[p] ELSE Top[p]])
      /\ spoiled' = (spoiled \ DOMAIN Top) \union DOMAIN lost
      /\ \/ status' = status /\ snapshots' = SubSeq(snapshots, 1, Len(snapshots) - 1)
         \/ status' = "crashed" /\ snapshots' = <<>>
      /\ UNCHANGED <<before, exposed>>
  BY <1>1 DEF Undo
<1>4. /\ \A p \in (Path \intersect DOMAIN Top) \ DOMAIN lost : tree'[p] = Top[p]
      /\ \A p \in Path \intersect DOMAIN lost : tree'[p] \in Remains(p) \union {Absent, tree[p]}
      /\ \A p \in Path \ DOMAIN Top : tree'[p] = tree[p]
  BY <1>1, <1>3, WithNew
<1>5. /\ Len(snapshots) \in 1..Len(snapshots) /\ Top = snapshots[Len(snapshots)]
      /\ Len(snapshots') \in Nat
      /\ \A i \in 1..Len(snapshots') : snapshots'[i] = snapshots[i] /\ i \in 1..Len(snapshots)
  <2>1. Len(snapshots) \in Nat /\ Len(snapshots) > 0
    BY <1>3, DropFrame DEF FileInv, Maps
  <2>2. CASE snapshots' = <<>>
    BY <2>1, <2>2, EmptySeqOfFrames DEF Top
  <2>3. CASE snapshots' = SubSeq(snapshots, 1, Len(snapshots) - 1)
    <3>1. /\ Len(snapshots') = Len(snapshots) - 1
          /\ \A i \in 1..Len(snapshots') : snapshots'[i] = snapshots[i]
      BY <1>3, <2>3, Dropped
    <3>. QED
      BY <2>1, <3>1 DEF Top
  <2>. QED
    BY <1>3, <2>2, <2>3
<1>6. /\ kind' = kind /\ command' = command /\ steps' = <<>> /\ steps = <<>>
      /\ Leftovers' = Leftovers /\ ServesGRPC' = ServesGRPC
  BY <1>2, <1>3
     DEF toolVars, SafetyInv, PlanInv, Leftovers, ServesGRPC, HasGRPC, HasServer
<1>7. TargetInv'
  <2>1. CASE command.name = "new"
    <3>1. /\ tree[Target] # "project" /\ \A p \in Path \ {Target} : tree[p] = Absent
          /\ DOMAIN Top = {Target} /\ Top[Target] # "project"
      BY <1>3, <1>5, <2>1 DEF SafetyInv, TargetInv, Running
    <3>2. tree'[Target] # "project"
      <4>1. Target \in Path /\ Remains(Target) = {Torn}
            /\ Torn # "project" /\ Absent # "project"
        BY Places, RemainsOf, ContentAssumption
      <4>2. CASE Target \in DOMAIN lost
        BY <1>4, <3>1, <4>1, <4>2
      <4>3. CASE Target \notin DOMAIN lost
        BY <1>4, <3>1, <4>1, <4>3
      <4>. QED
        BY <4>2, <4>3
    <3>3. \A p \in Path \ {Target} : tree'[p] = Absent
      BY <1>4, <3>1
    <3>4. \A p \in Path \ {Target} : before[p] = Absent
      BY <1>3, <2>1 DEF SafetyInv, TargetInv, Running
    <3>5. \A i \in 1..Len(snapshots') :
             DOMAIN snapshots'[i] = {Target} /\ snapshots'[i][Target] # "project"
      BY <1>3, <1>5, <2>1 DEF SafetyInv, TargetInv, Running
    <3>. QED
      BY <1>3, <1>6, <2>1, <3>2, <3>3, <3>4, <3>5 DEF TargetInv, Running
  <2>2. CASE command.name # "new"
    <3>1. tree[Target] = "project" /\ \A i \in 1..Len(snapshots) : Target \notin DOMAIN snapshots[i]
      BY <1>3, <2>2 DEF SafetyInv, TargetInv, Running
    <3>2. tree'[Target] = "project"
      BY <1>4, <1>5, <3>1, Places
    <3>. QED
      BY <1>3, <1>5, <1>6, <2>2, <3>1, <3>2 DEF TargetInv, Running
  <2>. QED
    BY <2>1, <2>2
<1>8. ManifestInv'
  <2>1. Loadable(tree'[Manifest], ServesGRPC)
    <3>1. Manifest \in DOMAIN Top => Loadable(Top[Manifest], ServesGRPC)
      BY <1>5 DEF SafetyInv, ManifestInv
    <3>2. Loadable(tree[Manifest], ServesGRPC)
      BY DEF SafetyInv, ManifestInv
    <3>3. tree'[Manifest] \in Remains(Manifest) \union {Absent, tree[Manifest]}
            \/ (Manifest \in DOMAIN Top /\ tree'[Manifest] = Top[Manifest])
      BY <1>1, <1>4, Places
    <3>. QED
      BY <3>1, <3>2, <3>3, Places, RemainsOf DEF Loadable
  <2>2. Kinds(<<>>) = {}
    BY OpenNothing
  <2>. QED
    BY <1>5, <1>6, <2>1, <2>2 DEF SafetyInv, ManifestInv
<1>9. UserInv'
  <2>1. ASSUME NEW p \in Owned, before[p] # Absent
        PROVE  /\ tree'[p] = before[p] \/ p \in spoiled'
               /\ \A i \in 1..Len(snapshots') :
                    p \in DOMAIN snapshots'[i] => snapshots'[i][p] = before[p]
    <3>1. /\ tree[p] = before[p] \/ p \in spoiled
          /\ \A i \in 1..Len(snapshots) :
               p \in DOMAIN snapshots[i] => snapshots[i][p] = before[p]
      BY <2>1 DEF SafetyInv, UserInv
    <3>2. p \in Path
      BY Places
    <3>3. tree'[p] = before[p] \/ p \in spoiled'
      BY <1>3, <1>4, <1>5, <3>1, <3>2
    <3>. QED
      BY <1>5, <3>1, <3>3
  <2>2. Len(<<>>) = 0
    OBVIOUS
  <2>. QED
    BY <1>3, <1>6, <2>1, <2>2 DEF UserInv
<1>10. CoverInv'
  <2>1. Len(<<>>) = 0
    OBVIOUS
  <2>. QED
    BY <1>3, <1>6, <2>1 DEF SafetyInv, CoverInv
<1>11. PlanInv'
  BY <1>3, <1>6 DEF PlanInv
<1>. QED
  BY <1>3, <1>6, <1>7, <1>8, <1>9, <1>10, <1>11 DEF SafetyInv

(* A command ends.                                                         *)
LEMMA EndKeeps == FileInv /\ SafetyInv /\ End /\ UNCHANGED published => SafetyInv'
<1>. SUFFICES ASSUME FileInv, SafetyInv, End, UNCHANGED published
              PROVE  SafetyInv'
  OBVIOUS
<1>1. /\ UNCHANGED <<tree, snapshots, before, exposed, spoiled, kind, command, steps>>
      /\ steps = <<>>
      /\ \/ status = "working" /\ status' = "ok"
         \/ status = "undoing" /\ status' = "failed"
  BY DEF End, Finish, GiveUp, toolVars
<1>2. /\ Kinds(<<>>) = {} /\ Len(<<>>) = 0
      /\ Leftovers' = Leftovers /\ ServesGRPC' = ServesGRPC
  BY <1>1, OpenNothing DEF Leftovers, ServesGRPC, HasGRPC, HasServer
<1>3. PlanInv' /\ TargetInv' /\ ManifestInv' /\ UserInv'
  BY <1>1, <1>2 DEF SafetyInv, PlanInv, TargetInv, Running, ManifestInv, UserInv
<1>4. CoverInv'
  BY <1>1, <1>2 DEF SafetyInv, CoverInv
<1>. QED
  BY <1>1, <1>3, <1>4 DEF SafetyInv

(* The loop over the services goes on, or is over.                         *)
LEMMA LoopKeeps ==
  ASSUME FileInv, SafetyInv, NEW todo, NEW s, NEW t,
         steps # <<>>, Head(steps) = <<"implement", todo>>, status = "working",
         UNCHANGED <<fileVars, kind, command, published>>,
         t \in {<<>>, <<<<"handler", s>>, <<"stubs", s>>, <<"implement", todo \ {s}>>>>},
         steps' = IF t = <<>> THEN Tail(steps) ELSE t \o Tail(steps)
  PROVE  SafetyInv'
<1>. DEFINE more == <<<<"handler", s>>, <<"stubs", s>>, <<"implement", todo \ {s}>>>>
<1>1. UNCHANGED <<tree, snapshots, status, before, exposed, spoiled>>
  BY DEF fileVars
<1>2. Plan(steps, command.name, Len(snapshots)) /\ Head(steps)[1] = "implement"
  BY DEF SafetyInv, PlanInv
<1>3. /\ "http-stub" \notin Kinds(Tail(steps)) /\ "clear" \notin Kinds(Tail(steps))
      /\ Kinds(Tail(steps)) \subseteq Kinds(steps) /\ Head(steps)[1] \in Kinds(steps)
      /\ Of(Tail(steps)) \subseteq Of(steps) /\ Head(steps) \in Of(steps)
  BY <1>2, StubsFirst
<1>4. Takes(command.name, "implement") /\ Plan(Tail(steps), command.name, Len(snapshots))
  BY <1>2, PlanTail
<1>5. /\ Open(more, command.name, 14, 14)
      /\ Kinds(more) = {"handler", "stubs", "implement"}
      /\ Of(more) = {<<"handler", s>>, <<"stubs", s>>, <<"implement", todo \ {s}>>}
  <2>1. Takes(command.name, "handler") /\ Takes(command.name, "stubs")
    BY <1>4 DEF Takes, BindingKinds, HTTPKinds, PbKinds, Generators
  <2>2. /\ more \in Seq({<<"handler", s>>, <<"stubs", s>>, <<"implement", todo \ {s}>>})
        /\ Len(more) = 3
        /\ more[1] = <<"handler", s>> /\ more[2] = <<"stubs", s>>
        /\ more[3] = <<"implement", todo \ {s}>>
    OBVIOUS
  <2>. HIDE DEF more
  <2>3. \A i \in 1..Len(more) : i \in {1, 2, 3}
    BY <2>2
  <2>4. 1 \in 1..Len(more) /\ 2 \in 1..Len(more) /\ 3 \in 1..Len(more)
    BY <2>2
  <2>5. more[1][1] = "handler" /\ more[2][1] = "stubs" /\ more[3][1] = "implement"
    BY <2>2
  <2>6. \A i \in 1..Len(more) : more[i][1] \in {"handler", "stubs", "implement"}
    BY <2>3, <2>5
  <2>7. Kinds(more) = {"handler", "stubs", "implement"}
    BY <2>3, <2>4, <2>5 DEF Kinds
  <2>8. Of(more) = {<<"handler", s>>, <<"stubs", s>>, <<"implement", todo \ {s}>>}
    BY <2>2, <2>3, <2>4 DEF Of
  <2>9. \A i \in 1..Len(more) : Takes(command.name, more[i][1]) /\ Rank(more[i][1]) = 14
    BY <1>4, <2>1, <2>6, Ranks
  <2>10. Part(more, command.name, 14, 14)
    BY <2>2, <2>9 DEF Part, Precedes
  <2>. QED
    BY <2>7, <2>8, <2>10 DEF Open
<1>6. /\ Plan(steps', command.name, Len(snapshots))
      /\ Kinds(steps') \subseteq Kinds(steps) \union {"handler", "stubs", "implement"}
      /\ Of(steps') \subseteq Of(steps) \union Of(more)
  <2>. HIDE DEF more
  <2>1. CASE t = <<>>
    BY <1>3, <1>4, <2>1
  <2>2. CASE t # <<>>
    <3>1. t = more /\ steps' = more \o Tail(steps)
      BY <2>2 DEF more
    <3>2. /\ Plan(more \o Tail(steps), command.name, Len(snapshots))
          /\ Kinds(more \o Tail(steps)) = Kinds(more) \union Kinds(Tail(steps))
          /\ Of(more \o Tail(steps)) = Of(more) \union Of(Tail(steps))
      BY <1>2, <1>5, PlanLoop
    <3>. QED
      BY <1>3, <1>5, <3>1, <3>2
  <2>. QED
    BY <2>1, <2>2
<1>. HIDE DEF more
<1>7. "implement" \in Kinds(steps) /\ "implement" \in BindingKinds
  BY <1>2, <1>3 DEF BindingKinds
<1>8. Covered' = Covered /\ Leftovers' = Leftovers /\ ServesGRPC' = ServesGRPC
  BY <1>1 DEF Covered, Leftovers, ServesGRPC, HasGRPC, HasServer
<1>9. PlanInv'
  BY <1>1, <1>6 DEF PlanInv
<1>10. TargetInv'
  <2>1. Kinds(steps') \intersect {"clear", "publish"} # {} =>
          Kinds(steps) \intersect {"clear", "publish"} # {}
    BY <1>6
  <2>. QED
    BY <1>1, <2>1 DEF SafetyInv, TargetInv, Running
<1>11. ManifestInv'
  BY <1>1, <1>7, <1>8 DEF SafetyInv, ManifestInv
<1>12. UserInv'
  <2>1. "http-stub" \notin Kinds(steps')
    <3>1. Takes(command.name, "implement") => ~Takes(command.name, "http-stub")
      BY DEF Takes, BindingKinds, HTTPKinds, PbKinds, Generators
    <3>2. \A k \in Kinds(steps') : Takes(command.name, k)
      BY <1>6 DEF Plan, Kinds
    <3>. QED
      BY <1>4, <3>1, <3>2
  <2>2. \A i \in 1..Len(steps') : steps'[i][1] # "http-stub"
    BY <2>1 DEF Kinds
  <2>3. \A o \in Operation, i \in 1..Len(steps') : steps'[i] # <<"http-stub", o>>
    <3>1. \A o : <<"http-stub", o>>[1] = "http-stub"
      OBVIOUS
    <3>. QED
      BY <2>2, <3>1
  <2>. QED
    BY <1>1, <2>3 DEF SafetyInv, UserInv
<1>13. CoverInv'
  <2>1. ServiceFile \subseteq Covered
    BY <1>2, <1>3 DEF SafetyInv, CoverInv, Held, Of
  <2>2. ASSUME NEW x \in Of(steps')
        PROVE  Held(x, Covered, command.name, command.manifest)
    <3>1. CASE x \in Of(steps)
      BY <3>1 DEF SafetyInv, CoverInv, Of
    <3>2. CASE x \in Of(more)
      <4>1. x[1] \in {"handler", "stubs", "implement"}
        BY <1>5, <3>2
      <4>. QED
        BY <2>1, <4>1 DEF Held, HTTPKinds
    <3>. QED
      BY <1>6, <3>1, <3>2
  <2>3. \/ exposed \intersect Path = {}
        \/ exposed \intersect Path \subseteq Leftovers /\ "rpc-stubs" \notin Kinds(steps)
    BY <1>7 DEF SafetyInv, CoverInv
  <2>. QED
    BY <1>1, <1>6, <1>8, <2>2, <2>3 DEF SafetyInv, CoverInv, Of
<1>. QED
  BY <1>1, <1>9, <1>10, <1>11, <1>12, <1>13 DEF SafetyInv

-------------------------------------------------------------------------------
(* What others do.                                                         *)

(* The developer edits a contract; others publish methods; a new target.   *)
LEMMA EditKeeps == FileInv /\ SafetyInv /\ Edit => SafetyInv'
<1>. SUFFICES ASSUME FileInv, SafetyInv, Edit
              PROVE  SafetyInv'
  OBVIOUS
<1>1. PICK p \in ServiceFile \union {Models} \union {Proto(f) : f \in ProtoFile} :
        tree[p] # Absent /\ \E content : Outside(p, content)
  BY DEF Edit, Readable
<1>2. PICK content : Outside(p, content)
  BY <1>1
<1>3. p \in Path /\ p[1] \notin {"target", "rpc.json"}
  <2>1. CASE p \in Owned
    BY <2>1, Places
  <2>2. ASSUME NEW f \in ProtoFile, p = Proto(f)
        PROVE  p \in Path /\ p[1] \notin {"target", "rpc.json"}
    BY <2>2, Places, PathAssumption DEF ProjectPath, RpcPaths
  <2>. QED
    BY <1>1, <2>1, <2>2 DEF Owned
<1>4. p # Target /\ p # Manifest
  BY <1>3, Places
<1>5. /\ AtRest /\ snapshots = <<>> /\ steps = <<>>
      /\ UNCHANGED <<kind, command, steps, published>>
  BY DEF Edit, toolVars, FileInv, Orderly, SafetyInv, PlanInv, AtRest
<1>6. /\ tree' = [tree EXCEPT ![p] = content] /\ before' = [before EXCEPT ![p] = content]
      /\ spoiled' = spoiled \ {p} /\ status' = status /\ exposed' = exposed
  BY <1>2 DEF Outside
<1>7. /\ tree'[p] = content /\ before'[p] = content
      /\ \A q \in Path \ {p} : tree'[q] = tree[q] /\ before'[q] = before[q]
  BY <1>3, <1>6 DEF FileInv, Maps
<1>8. snapshots' = <<>>
  <2>1. FileInv'
    BY <1>2, <1>3, OutsideInv
  <2>. QED
    BY <1>5, <1>6, <2>1 DEF FileInv, Orderly, AtRest
<1>9. Kinds(<<>>) = {} /\ Len(<<>>) = 0 /\ ServesGRPC' = ServesGRPC /\ ~Running /\ ~Running'
  BY <1>5, <1>6, OpenNothing DEF ServesGRPC, HasGRPC, HasServer, AtRest, Running
<1>10. PlanInv' /\ ManifestInv'
  BY <1>4, <1>5, <1>6, <1>7, <1>8, <1>9, Places DEF SafetyInv, PlanInv, ManifestInv, AtRest
<1>11. TargetInv'
  BY <1>1, <1>3, <1>4, <1>7, <1>9, Places DEF SafetyInv, TargetInv
<1>12. UserInv'
  <2>1. ASSUME NEW q \in Owned, before'[q] # Absent
        PROVE  tree'[q] = before'[q] \/ q \in spoiled'
    BY <1>6, <1>7, <2>1, Places DEF SafetyInv, UserInv
  <2>. QED
    BY <1>5, <1>8, <1>9, <2>1 DEF UserInv
<1>13. CoverInv'
  <2>1. ASSUME status = "failed", NEW q \in exposed \intersect Path, tree'[q] # before'[q]
        PROVE  q \in Leftovers'
    <3>1. q # p /\ tree'[q] = tree[q] /\ before'[q] = before[q]
      BY <1>7, <2>1
    <3>2. q \in Leftovers
      BY <2>1, <3>1 DEF SafetyInv, CoverInv
    <3>. QED
      BY <1>5, <3>1, <3>2 DEF Leftovers
  <2>. QED
    BY <1>5, <1>6, <1>8, <1>9, <2>1 DEF CoverInv, AtRest
<1>. QED
  BY <1>5, <1>6, <1>10, <1>11, <1>12, <1>13 DEF SafetyInv

LEMMA SameLength ==
  ASSUME NEW m \in Nat, NEW n \in Nat, 1..m = 1..n
  PROVE  m = n
<1>1. m > 0 => m \in 1..m
  OBVIOUS
<1>2. n > 0 => n \in 1..n
  OBVIOUS
<1>. QED
  BY <1>1, <1>2

LEMMA OccupyKeeps == FileInv /\ SafetyInv /\ Occupy => SafetyInv'
<1>. SUFFICES ASSUME FileInv, SafetyInv, Occupy
              PROVE  SafetyInv'
  OBVIOUS
<1>1. /\ status = "working" /\ command.name = "new" /\ tree[Target] # "project"
      /\ UNCHANGED <<kind, command, steps, published>>
      /\ Outside(Target, "occupied")
  <2>1. Vacant => tree[Target] # "project"
    BY ContentAssumption DEF Vacant
  <2>. QED
    BY <2>1 DEF Occupy, toolVars
<1>2. /\ tree' = [tree EXCEPT ![Target] = "occupied"]
      /\ before' = [before EXCEPT ![Target] = "occupied"]
      /\ spoiled' = spoiled \ {Target} /\ status' = status /\ exposed' = exposed
      /\ snapshots' = [i \in DOMAIN snapshots |->
                         IF Target \in DOMAIN snapshots[i]
                         THEN [snapshots[i] EXCEPT ![Target] = "occupied"]
                         ELSE snapshots[i]]
  BY <1>1 DEF Outside
<1>3. /\ tree'[Target] = "occupied" /\ before'[Target] = "occupied"
      /\ \A q \in Path \ {Target} : tree'[q] = tree[q] /\ before'[q] = before[q]
  BY <1>2, Places DEF FileInv, Maps
<1>4. /\ Len(snapshots) \in Nat /\ DOMAIN snapshots = 1..Len(snapshots)
      /\ Len(snapshots') = Len(snapshots)
  <2>1. Len(snapshots) \in Nat /\ DOMAIN snapshots = 1..Len(snapshots)
    BY LenProperties DEF FileInv, Maps, SeqOfFrames
  <2>2. FileInv'
    BY <1>1, OutsideInv, Places
  <2>3. Len(snapshots') \in Nat /\ DOMAIN snapshots' = 1..Len(snapshots')
    BY <2>2, LenProperties DEF FileInv, Maps, SeqOfFrames
  <2>4. 1..Len(snapshots') = 1..Len(snapshots)
    BY <1>2, <2>1, <2>3
  <2>. QED
    BY <2>1, <2>3, <2>4, SameLength
<1>5. \A i \in 1..Len(snapshots) :
        /\ DOMAIN snapshots[i] = {Target} /\ DOMAIN snapshots'[i] = {Target}
        /\ snapshots'[i][Target] = "occupied"
  <2>1. \A i \in 1..Len(snapshots) : DOMAIN snapshots[i] = {Target}
    BY <1>1 DEF SafetyInv, TargetInv, Running
  <2>2. \A i \in 1..Len(snapshots) : snapshots'[i] = [snapshots[i] EXCEPT ![Target] = "occupied"]
    BY <1>2, <1>4, <2>1
  <2>. QED
    BY <2>1, <2>2
<1>6. Covered' = Covered
  <2>1. SeqOfFrames(snapshots) /\ SeqOfFrames(snapshots')
    <3>1. FileInv'
      BY <1>1, OutsideInv, Places
    <3>. QED
      BY <3>1 DEF FileInv, Maps
  <2>2. snapshots = <<>> <=> snapshots' = <<>>
    BY <1>4, <2>1, SomeFrame
  <2>3. CASE snapshots = <<>>
    BY <2>2, <2>3 DEF Covered
  <2>4. CASE snapshots # <<>>
    <3>1. 1 \in 1..Len(snapshots)
      BY <1>4, <2>1, <2>4, SomeFrame
    <3>. QED
      BY <1>5, <2>2, <2>4, <3>1 DEF Covered
  <2>. QED
    BY <2>3, <2>4
<1>7. ServesGRPC' = ServesGRPC
  BY <1>1 DEF ServesGRPC, HasGRPC, HasServer
<1>8. Target \notin Owned /\ Manifest # Target
  BY Places
<1>9. PlanInv'
  BY <1>1, <1>2, <1>4 DEF SafetyInv, PlanInv
<1>10. TargetInv'
  BY <1>1, <1>2, <1>3, <1>4, <1>5 DEF SafetyInv, TargetInv, Running
<1>11. ManifestInv'
  BY <1>1, <1>3, <1>4, <1>5, <1>7, <1>8, Places DEF SafetyInv, ManifestInv
<1>12. UserInv'
  <2>1. \A q \in Owned : q \in Path /\ q # Target
    BY <1>8, Places
  <2>2. \A o : HttpStub(o) # Target
    BY Places
  <2>. QED
    BY <1>1, <1>2, <1>3, <1>4, <1>5, <2>1, <2>2 DEF SafetyInv, UserInv
<1>13. CoverInv'
  <2>1. Leftovers = {} /\ Leftovers' = {}
    BY <1>1 DEF Leftovers
  <2>. QED
    BY <1>1, <1>2, <1>6, <2>1 DEF SafetyInv, CoverInv
<1>. QED
  BY <1>1, <1>2, <1>9, <1>10, <1>11, <1>12, <1>13 DEF SafetyInv

LEMMA PublishKeeps ==
  ASSUME SafetyInv, NEW s \in Service, NEW ms \in SUBSET Method, Publish(s, ms)
  PROVE  SafetyInv'
<1>1. UNCHANGED <<fileVars, toolVars>> /\ published' = [published EXCEPT ![s] = ms]
  BY DEF Publish
<1>2. published' \in [Service -> SUBSET Method]
  BY <1>1 DEF SafetyInv, ManifestInv
<1>3. Covered' = Covered /\ Leftovers' = Leftovers /\ ServesGRPC' = ServesGRPC
  BY <1>1 DEF Covered, Leftovers, ServesGRPC, HasGRPC, HasServer, fileVars, toolVars
<1>. QED
  BY <1>1, <1>2, <1>3
     DEF SafetyInv, PlanInv, TargetInv, Running, ManifestInv, UserInv, CoverInv, fileVars, toolVars

-------------------------------------------------------------------------------
(* Each step of a generator.                                               *)

(* Do, unfolded.                                                           *)
LEMMA DoEffect ==
  ASSUME NEW step, NEW possible, NEW new, NEW inPlace, Do(step, possible, new, inPlace),
         new = [p \in DOMAIN new |-> new[p]]
  PROVE  /\ status = "working" /\ steps # <<>> /\ Head(steps) = step
         /\ UNCHANGED <<kind, command>>
         /\ \/ possible /\ Put(new) /\ steps' = Tail(steps)
            \/ /\ possible /\ steps' = <<>>
               /\ \E w : /\ Interrupt(w) \/ Crash(w)
                         /\ DOMAIN w \subseteq DOMAIN new
                         /\ \A p \in DOMAIN w : w[p] = new[p] \/ w[p] \in Remains(p)
                         /\ Interrupt(w) => inPlace \/ new = Nothing \/ DOMAIN w # DOMAIN new
            \/ ~possible /\ Fail /\ steps' = <<>>
<1>1. status = "working" /\ steps # <<>> /\ Head(steps) = step /\ UNCHANGED <<kind, command>>
  BY DEF Do, IsNext
<1>2. ASSUME NEW done \in SUBSET DOMAIN new, NEW cut \in Cuts(done),
             inPlace \/ cut = Nothing, NEW w, w = [p \in done |-> IF p \in DOMAIN cut THEN cut[p] ELSE new[p]],
             Crash(w) \/ ((w # new \/ new = Nothing) /\ Interrupt(w))
      PROVE  /\ Interrupt(w) \/ Crash(w)
             /\ DOMAIN w \subseteq DOMAIN new
             /\ \A p \in DOMAIN w : w[p] = new[p] \/ w[p] \in Remains(p)
             /\ Interrupt(w) => inPlace \/ new = Nothing \/ DOMAIN w # DOMAIN new
  <2>1. DOMAIN w = done /\ \A p \in DOMAIN w : w[p] = IF p \in DOMAIN cut THEN cut[p] ELSE new[p]
    BY <1>2
  <2>4. \A p \in DOMAIN cut : cut[p] \in Remains(p)
    BY CutsOf
  <2>2. ~(Crash(w) /\ Interrupt(w))
    BY DEF Crash, Interrupt
  <2>3. ASSUME Interrupt(w), cut = Nothing, DOMAIN w = DOMAIN new
        PROVE  new = Nothing
    <3>1. w = [p \in DOMAIN new |-> new[p]]
      BY <1>2, <2>1, <2>3 DEF Nothing
    <3>. QED
      BY <1>2, <2>2, <2>3, <3>1
  <2>. QED
    BY <1>2, <2>1, <2>2, <2>3, <2>4
<1>3. ASSUME NEW done \in SUBSET DOMAIN new, NEW cut \in Cuts(done),
             inPlace \/ cut = Nothing,
             LET written == [p \in done |-> IF p \in DOMAIN cut THEN cut[p] ELSE new[p]]
             IN Crash(written) \/ ((written # new \/ new = Nothing) /\ Interrupt(written))
      PROVE  \E w : /\ Interrupt(w) \/ Crash(w)
                    /\ DOMAIN w \subseteq DOMAIN new
                    /\ \A p \in DOMAIN w : w[p] = new[p] \/ w[p] \in Remains(p)
                    /\ Interrupt(w) => inPlace \/ new = Nothing \/ DOMAIN w # DOMAIN new
  BY <1>2, <1>3
<1>. QED
  BY <1>1, <1>3 DEF Do

LEMMA DoKeeps ==
  ASSUME FileInv, SafetyInv, NEW step, NEW possible, NEW new, NEW inPlace,
         Do(step, possible, new, inPlace), UNCHANGED published,
         step[1] # "commit", command.name # "new",
         new = [p \in DOMAIN new |-> new[p]], Gentle(new),
         \/ Path \intersect DOMAIN new \subseteq Covered
         \/ /\ command.name # "generate" /\ Kinds(Tail(steps)) \subseteq {"commit"}
            /\ ~inPlace /\ new # Nothing /\ \E p : DOMAIN new = {p}
         \/ step[1] = "rpc-stubs" /\ Path \intersect DOMAIN new \subseteq Leftovers
  PROVE  SafetyInv'
<1>1. /\ status = "working" /\ steps # <<>> /\ Head(steps) = step
      /\ UNCHANGED <<kind, command>>
  BY DoEffect
<1>2. command' = [command EXCEPT !.manifest = command.manifest]
  BY <1>1 DEF SafetyInv
<1>3. CASE Put(new) /\ steps' = Tail(steps)
  BY <1>1, <1>3, AdvanceKeeps
<1>4. CASE Fail /\ steps' = <<>>
  BY <1>1, <1>4, FailKeeps
<1>5. ASSUME steps' = <<>>, NEW w, Interrupt(w) \/ Crash(w), DOMAIN w \subseteq DOMAIN new,
             \A p \in DOMAIN w : w[p] = new[p] \/ w[p] \in Remains(p),
             Interrupt(w) => inPlace \/ new = Nothing \/ DOMAIN w # DOMAIN new
      PROVE  SafetyInv'
  <2>1. Gentle(w)
    BY <1>5, Places, RemainsOf DEF Gentle, Loadable
  <2>2. Interrupt(w) => Path \intersect DOMAIN w \subseteq Covered \union Leftovers
    BY <1>1, <1>5
  <2>. QED
    BY <1>1, <1>2, <1>5, <2>1, <2>2, CutKeeps
<1>. QED
  BY <1>3, <1>4, <1>5, DoEffect

LEMMA MayFailKeeps ==
  ASSUME FileInv, SafetyInv, NEW step, MayFail(step), UNCHANGED published,
         step[1] # "commit" \/ command.name = "generate"
  PROVE  SafetyInv'
BY FailKeeps DEF MayFail, IsNext

(* What is known when a step is taken.                                     *)
LEMMA AtStep ==
  ASSUME SafetyInv, NEW step, IsNext(step)
  PROVE  /\ Takes(command.name, step[1])
         /\ Held(step, Covered, command.name, command.manifest)
         /\ step[1] # "commit" =>
              \A k \in Kinds(Tail(steps)) : k = "commit" \/ Precedes(step[1], k)
         /\ \A k \in Kinds(Tail(steps)) : Takes(command.name, k)
         /\ step[1] \in BindingKinds => GoodManifest(command.manifest, ServesGRPC)
<1>1. Plan(steps, command.name, Len(snapshots)) /\ steps # <<>> /\ Head(steps) = step
  BY DEF IsNext, SafetyInv, PlanInv
<1>2. /\ Takes(command.name, step[1])
      /\ step[1] # "commit" =>
           \A k \in Kinds(Tail(steps)) : k = "commit" \/ Precedes(step[1], k)
  BY <1>1, PlanTail
<1>3. /\ step \in Of(steps) /\ step[1] \in Kinds(steps)
      /\ Kinds(Tail(steps)) \subseteq Kinds(steps)
  BY <1>1, StubsFirst
<1>4. Held(step, Covered, command.name, command.manifest)
  BY <1>3 DEF SafetyInv, CoverInv, Of
<1>5. step[1] \in BindingKinds => GoodManifest(command.manifest, ServesGRPC)
  BY <1>3 DEF SafetyInv, ManifestInv
<1>6. \A k \in Kinds(steps) : Takes(command.name, k)
  BY <1>1 DEF Plan, Kinds
<1>. QED
  BY <1>2, <1>3, <1>4, <1>5, <1>6

LEMMA NothingOf == DOMAIN Nothing = {} /\ Nothing = [q \in DOMAIN Nothing |-> Nothing[q]]
BY DEF Nothing

LEMMA AtOf ==
  ASSUME NEW p, NEW c
  PROVE  /\ DOMAIN At(p, c) = {p} /\ At(p, c)[p] = c
         /\ At(p, c) = [q \in DOMAIN At(p, c) |-> At(p, c)[q]]
         /\ At(p, c) # Nothing
<1>1. /\ DOMAIN At(p, c) = {p} /\ At(p, c)[p] = c
      /\ At(p, c) = [q \in DOMAIN At(p, c) |-> At(p, c)[q]]
  BY DEF At
<1>. QED
  BY <1>1, NothingOf

(* One file that is the project's, not the developer's, and is no manifest. *)
LEMMA WriteOwnKeeps ==
  ASSUME FileInv, SafetyInv, NEW step, NEW possible, NEW file, NEW content, NEW inPlace,
         Do(step, possible, At(file, content), inPlace), UNCHANGED published,
         step[1] # "commit", command.name # "new",
         file[1] \notin {"handler", "stub", "http-stub", "rpc-stub", "models", "target", "rpc.json"},
         \/ file \in Covered
         \/ command.name # "generate" /\ Kinds(Tail(steps)) \subseteq {"commit"} /\ ~inPlace
  PROVE  SafetyInv'
<1>1. /\ DOMAIN At(file, content) = {file}
      /\ At(file, content) = [q \in DOMAIN At(file, content) |-> At(file, content)[q]]
  BY DEF At
<1>2. At(file, content) # Nothing
  BY AtOf
<1>3. Gentle(At(file, content))
  BY <1>1, Places DEF Gentle
<1>. QED
  BY <1>1, <1>2, <1>3, DoKeeps

(* A step that writes nothing.                                             *)
LEMMA WriteNothingKeeps ==
  ASSUME FileInv, SafetyInv, NEW step, NEW possible, NEW inPlace,
         Do(step, possible, Nothing, inPlace), UNCHANGED published,
         step[1] # "commit", command.name # "new"
  PROVE  SafetyInv'
<1>1. Gentle(Nothing)
  BY NothingOf DEF Gentle
<1>. QED
  BY <1>1, NothingOf, DoKeeps

(* The steps of `jgo api generate`.                                        *)
LEMMA HTTPStepsKeep ==
  ASSUME FileInv, SafetyInv, UNCHANGED published,
         WriteContract \/ WriteHTTP \/ \E o \in Operation : WriteHTTPStub(o)
  PROVE  SafetyInv'
<1>1. ASSUME NEW o \in Operation, WriteHTTPStub(o)
      PROVE  SafetyInv'
  <2>. DEFINE step == <<"http-stub", o>>
              new == At(HttpStub(o), "stub")
  <2>1. IsNext(step) /\ step[1] = "http-stub" /\ step[2] = o
    BY <1>1 DEF WriteHTTPStub, Do
  <2>2. Do(step, TRUE, new, TRUE)
    BY <1>1 DEF WriteHTTPStub
  <2>. HIDE DEF step
  <2>3. HttpStub(o) \in Covered /\ command.name # "new"
    BY <2>1, AtStep DEF Held, Takes
  <2>4. tree[HttpStub(o)] = Absent
    <3>1. \E S : steps \in Seq(S)
      BY <2>1 DEF IsNext, SafetyInv, PlanInv, Plan
    <3>2. 1 \in 1..Len(steps) /\ steps[1] = step
      BY <2>1, <3>1, TailOf DEF IsNext
    <3>. QED
      BY <3>2 DEF SafetyInv, UserInv, step
  <2>5. /\ DOMAIN new = {HttpStub(o)} /\ new = [q \in DOMAIN new |-> new[q]]
    BY AtOf
  <2>. HIDE DEF new
  <2>6. Gentle(new)
    BY <2>4, <2>5, Places DEF Gentle
  <2>. QED
    BY <2>1, <2>2, <2>3, <2>5, <2>6, DoKeeps
<1>2. CASE WriteContract
  <2>. DEFINE step == <<"contract">>
  <2>1. IsNext(step) /\ step[1] = "contract"
    BY <1>2 DEF WriteContract, Do
  <2>. HIDE DEF step
  <2>2. command.name = "api-add"
    BY <2>1, AtStep DEF Takes, HTTPKinds, PbKinds, BindingKinds, Generators
  <2>3. Kinds(Tail(steps)) \subseteq {"commit"}
    BY <2>1, <2>2, AtStep, Ranks DEF Takes, Precedes
  <2>. QED
    BY <1>2, <2>1, <2>2, <2>3, Places, WriteOwnKeeps DEF WriteContract, step
<1>3. CASE WriteHTTP
  <2>1. ASSUME NEW step \in {<<"api">>, <<"routes">>, <<"sync">>}, IsNext(step)
        PROVE  step[1] # "commit" /\ command.name # "new" /\ HTTPOutputs \subseteq Covered
    <3>1. step[1] \in {"api", "routes", "sync"}
      BY <2>1
    <3>2. command.name # "new"
      BY <2>1, <3>1, AtStep DEF Takes
    <3>. QED
      BY <2>1, <3>1, <3>2, AtStep DEF Held, HTTPKinds
  <2>2. CASE Do(<<"api">>, TRUE, At(ApiGen, Synced), FALSE)
    <3>. DEFINE step == <<"api">>
    <3>1. IsNext(step)
      BY <2>2 DEF Do
    <3>2. step[1] # "commit" /\ command.name # "new" /\ ApiGen \in Covered
      BY <2>1, <3>1 DEF HTTPOutputs
    <3>. HIDE DEF step
    <3>. QED
      BY <2>2, <3>2, Places, WriteOwnKeeps DEF step
  <2>3. CASE Do(<<"routes">>, TRUE, At(RoutesGen, Routes), FALSE)
    <3>. DEFINE step == <<"routes">>
    <3>1. IsNext(step)
      BY <2>3 DEF Do
    <3>2. step[1] # "commit" /\ command.name # "new" /\ RoutesGen \in Covered
      BY <2>1, <3>1 DEF HTTPOutputs
    <3>. HIDE DEF step
    <3>. QED
      BY <2>3, <3>2, Places, WriteOwnKeeps DEF step
  <2>4. CASE Do(<<"sync">>, TRUE, At(Contract, Synced), FALSE)
    <3>. DEFINE step == <<"sync">>
    <3>1. IsNext(step)
      BY <2>4 DEF Do
    <3>2. step[1] # "commit" /\ command.name # "new" /\ Contract \in Covered
      BY <2>1, <3>1 DEF HTTPOutputs
    <3>. HIDE DEF step
    <3>. QED
      BY <2>4, <3>2, Places, WriteOwnKeeps DEF step
  <2>. QED
    BY <1>3, <2>2, <2>3, <2>4 DEF WriteHTTP
<1>. QED
  BY <1>1, <1>2, <1>3

LEMMA PbKind ==
  ASSUME SafetyInv, NEW step, IsNext(step), step[1] \in PbKinds \union BindingKinds
  PROVE  step[1] # "commit" /\ command.name # "new"
BY AtStep DEF PbKinds, BindingKinds, Takes

(* Generated files are neither the developer's nor a manifest.             *)
LEMMA GentleGenerated ==
  ASSUME NEW new, DOMAIN new \subseteq Generated
  PROVE  Gentle(new)
BY Places DEF Gentle

(* Prune removes generated files only.                                     *)
LEMMA PruneKeeps == FileInv /\ SafetyInv /\ Prune /\ UNCHANGED published => SafetyInv'
<1>. SUFFICES ASSUME FileInv, SafetyInv, Prune, UNCHANGED published
              PROVE  SafetyInv'
  OBVIOUS
<1>. DEFINE step == <<"prune">>
<1>1. IsNext(step) /\ step[1] = "prune"
  BY DEF Prune
<1>2. steps # <<>> /\ Head(steps) = step
  BY <1>1 DEF IsNext
<1>. HIDE DEF step
<1>3. step[1] # "commit" /\ command.name # "new" /\ Generated \subseteq Covered
  BY <1>1, PbKind, AtStep DEF PbKinds, Held
<1>4. Stale \subseteq Generated
  BY DEF Stale
<1>5. CASE Put([p \in Stale |-> Absent]) /\ steps' = Tail(steps)
  <2>. DEFINE new == [p \in Stale |-> Absent]
  <2>1. DOMAIN new = Stale
    OBVIOUS
  <2>2. Put(new)
    BY <1>5
  <2>. HIDE DEF new
  <2>3. Gentle(new)
    BY <1>4, <2>1, GentleGenerated
  <2>4. command' = [command EXCEPT !.manifest = Stale] /\ kind' = kind
    BY DEF Prune
  <2>. QED
    BY <1>1, <1>2, <1>3, <1>4, <1>5, <2>1, <2>2, <2>3, <2>4, AdvanceKeeps
<1>6. ASSUME NEW done \in SUBSET Stale, NEW w, w = [p \in done |-> Absent],
             Crash(w) \/ (done # Stale /\ Interrupt(w)), steps' = <<>>
      PROVE  SafetyInv'
  <2>1. DOMAIN w = done
    BY <1>6
  <2>2. Gentle(w)
    BY <1>4, <2>1, GentleGenerated
  <2>3. command' = [command EXCEPT !.manifest = Stale] /\ kind' = kind
    BY DEF Prune
  <2>4. Path \intersect DOMAIN w \subseteq Covered \union Leftovers
    BY <1>3, <1>4, <2>1
  <2>. QED
    BY <1>1, <1>2, <1>3, <1>6, <2>2, <2>3, <2>4, CutKeeps
<1>. QED
  BY <1>5, <1>6 DEF Prune

(* The steps of `jgo pb generate`.                                         *)
LEMMA PbStepsKeep ==
  ASSUME FileInv, SafetyInv, UNCHANGED published,
         \/ Buf \/ Prune \/ Discover \/ WriteTransport \/ CreateServiceStubs \/ Verify
         \/ \E f \in ProtoFile : WriteProto(f)
  PROVE  SafetyInv'
<1>1. ASSUME NEW f \in ProtoFile, WriteProto(f)
      PROVE  SafetyInv'
  <2>. DEFINE step == <<"proto", f>>
  <2>1. IsNext(step) /\ step[1] = "proto"
    BY <1>1 DEF WriteProto, Do
  <2>2. Do(step, TRUE, At(Proto(f), command.manifest), FALSE)
    BY <1>1 DEF WriteProto
  <2>. HIDE DEF step
  <2>3. command.name \in {"pb-service-add", "pb-method-add"}
    BY <2>1, AtStep DEF Takes, HTTPKinds, PbKinds, BindingKinds, Generators
  <2>4. Kinds(Tail(steps)) \subseteq {"commit"}
    BY <2>1, <2>3, AtStep, Ranks DEF Takes, Precedes
  <2>. QED
    BY <2>1, <2>2, <2>3, <2>4, Places, WriteOwnKeeps
<1>2. CASE Buf
  <2>. DEFINE step == <<"buf">>
              files == {f \in ProtoFile : tree[Proto(f)] # Absent}
              outputs == {Messages(f) : f \in files}
                           \union {Services(f) : f \in {g \in files : Declares(g)}}
              new == [p \in outputs |-> tree[Proto(p[2])]]
  <2>1. Do(step, TRUE, new, TRUE) \/ MayFail(step)
    BY <1>2 DEF Buf
  <2>2. IsNext(step) /\ step[1] = "buf"
    BY <2>1 DEF Do, MayFail
  <2>3. outputs \subseteq Generated
    BY DEF Generated
  <2>4. DOMAIN new = outputs /\ new = [p \in DOMAIN new |-> new[p]]
    OBVIOUS
  <2>. HIDE DEF new, outputs, step
  <2>5. step[1] # "commit" /\ command.name # "new" /\ Generated \subseteq Covered
    BY <2>2, PbKind, AtStep DEF PbKinds, Held
  <2>6. Gentle(new)
    BY <2>3, <2>4, GentleGenerated
  <2>. QED
    BY <2>1, <2>3, <2>4, <2>5, <2>6, DoKeeps, MayFailKeeps
<1>3. CASE Discover \/ Verify
  <2>. PICK step \in {<<"discover">>, <<"verify">>} :
         (\E possible : Do(step, possible, Nothing, FALSE)) \/ MayFail(step)
    BY <1>3 DEF Discover, Verify
  <2>1. IsNext(step) /\ step[1] \in PbKinds
    BY DEF Do, MayFail, PbKinds
  <2>2. step[1] # "commit" /\ command.name # "new"
    BY <2>1, PbKind
  <2>. QED
    BY <2>2, WriteNothingKeeps, MayFailKeeps
<1>4. CASE WriteTransport
  <2>. DEFINE step == <<"register">>
              content == [f \in Discovered |-> tree[Services(f)]]
  <2>1. IsNext(step) /\ step[1] = "register" /\ Do(step, TRUE, At(RegisterGen, content), FALSE)
    BY <1>4 DEF WriteTransport, Do
  <2>. HIDE DEF step, content
  <2>2. step[1] # "commit" /\ command.name # "new" /\ RegisterGen \in Covered
    BY <2>1, PbKind, AtStep DEF PbKinds, Held, HTTPKinds
  <2>. QED
    BY <2>1, <2>2, Places, WriteOwnKeeps
<1>5. CASE CreateServiceStubs
  <2>. DEFINE step == <<"rpc-stubs">>
              missing == {f \in Implemented : tree[RpcStub(f)] = Absent}
              new == [p \in {RpcStub(f) : f \in missing} |-> "stub"]
  <2>1. Do(step, Parses, new, FALSE)
    BY <1>5 DEF CreateServiceStubs
  <2>2. IsNext(step) /\ step[1] = "rpc-stubs" /\ status = "working"
    BY <2>1 DEF Do, IsNext
  <2>3. /\ new = [p \in DOMAIN new |-> new[p]]
        /\ \A p \in DOMAIN new : p[1] = "rpc-stub" /\ tree[p] = Absent
    BY Places
  <2>. HIDE DEF new, step
  <2>4. step[1] # "commit" /\ command.name # "new"
    BY <2>2, PbKind DEF PbKinds
  <2>5. Gentle(new)
    BY <2>3, Places DEF Gentle
  <2>6. Path \intersect DOMAIN new \subseteq ServiceFile
    BY <2>3 DEF ServiceFile
  <2>7. CASE ServiceFile \subseteq Covered
    BY <2>1, <2>3, <2>4, <2>5, <2>6, <2>7, DoKeeps
  <2>8. CASE command.name = "pb-generate"
    <3>1. ASSUME NEW p \in Path \intersect DOMAIN new
          PROVE  p \in Leftovers
      <4>1. p \in Owned
        BY <2>6 DEF Owned
      <4>2. before[p] = Absent
        BY <2>2, <2>3, <4>1, KeptSoFar
      <4>. QED
        BY <2>3, <2>8, <4>2 DEF Leftovers
    <3>. QED
      BY <2>1, <2>2, <2>3, <2>4, <2>5, <3>1, DoKeeps
  <2>. QED
    BY <2>2, <2>7, <2>8, AtStep DEF Held
<1>. QED
  BY <1>1, <1>2, <1>3, <1>4, <1>5, PruneKeeps

LEMMA ContractStepKeeps == FileInv /\ SafetyInv /\ ContractStep /\ UNCHANGED published => SafetyInv'
BY HTTPStepsKeep, PbStepsKeep DEF ContractStep

LEMMA HandlerOf ==
  ASSUME NEW m, NEW s
  PROVE  /\ HandlerFile(m.servers[s].handler) \in HandlerFiles(m, {s})
         /\ {StubFile(m.servers[s].handler, x) : x \in m.servers[s].methods}
              \subseteq HandlerFiles(m, {s})
BY DEF HandlerFiles

(* The loop over the services writes handlers that are not there.          *)
LEMMA HandlerStepsKeep ==
  ASSUME FileInv, SafetyInv, UNCHANGED published, NEW s,
         CreateServerHandler(s) \/ CreateServerStubs(s)
  PROVE  SafetyInv'
<1>. DEFINE m == command.manifest
            file == HandlerFile(m.servers[s].handler)
            stubs == {StubFile(m.servers[s].handler, x) : x \in m.servers[s].methods}
            missing == {p \in stubs : tree[p] = Absent}
<1>1. CASE CreateServerHandler(s)
  <2>. DEFINE step == <<"handler", s>>
              new == IF tree[file] = Absent THEN At(file, "template") ELSE Nothing
  <2>1. Do(step, Parses, new, TRUE)
    BY <1>1 DEF CreateServerHandler
  <2>2. IsNext(step) /\ step[1] = "handler" /\ step[2] = s
    BY <2>1 DEF Do
  <2>. HIDE DEF step
  <2>3. step[1] # "commit" /\ command.name # "new"
    BY <2>2, PbKind DEF BindingKinds
  <2>4. DOMAIN new \subseteq {file} /\ new = [p \in DOMAIN new |-> new[p]]
        /\ (tree[file] # Absent => DOMAIN new = {})
    <3>1. CASE tree[file] = Absent
      <4>1. new = At(file, "template")
        BY <3>1
      <4>. HIDE DEF new, file
      <4>. QED
        BY <3>1, <4>1 DEF At
    <3>2. CASE tree[file] # Absent
      BY <3>2, NothingOf
    <3>. QED
      BY <3>1, <3>2
  <2>5. file[1] = "handler"
    BY Places
  <2>. HIDE DEF new
  <2>6. Gentle(new)
    BY <2>4, <2>5, Places DEF Gentle
  <2>7. Path \intersect DOMAIN new \subseteq Covered
    <3>1. Path \intersect {file} \subseteq ServiceFile
      BY <2>5 DEF ServiceFile
    <3>2. file \in HandlerFiles(m, {s})
      BY HandlerOf
    <3>. HIDE DEF file
    <3>. QED
      BY <2>2, <2>4, <3>1, <3>2, AtStep DEF Held
  <2>. QED
    BY <2>1, <2>3, <2>4, <2>6, <2>7, DoKeeps
<1>2. CASE CreateServerStubs(s)
  <2>. DEFINE step == <<"stubs", s>>
              possible == Parses /\ \A p \in stubs \ missing : Implements(tree[p], s)
              new == [p \in missing |-> [service |-> s, edited |-> FALSE]]
  <2>1. Do(step, possible, new, TRUE)
    BY <1>2 DEF CreateServerStubs
  <2>2. IsNext(step) /\ step[1] = "stubs" /\ step[2] = s
    BY <2>1 DEF Do
  <2>. HIDE DEF step, possible
  <2>3. step[1] # "commit" /\ command.name # "new"
    BY <2>2, PbKind DEF BindingKinds
  <2>4. DOMAIN new = missing /\ new = [p \in DOMAIN new |-> new[p]]
    OBVIOUS
  <2>5. \A p \in missing : p \in stubs /\ tree[p] = Absent /\ p[1] = "stub"
    BY Places
  <2>6. stubs \subseteq HandlerFiles(m, {s})
    BY HandlerOf
  <2>. HIDE DEF new, missing, stubs
  <2>7. Gentle(new)
    BY <2>4, <2>5, Places DEF Gentle
  <2>8. Path \intersect DOMAIN new \subseteq Covered
    <3>1. Path \intersect missing \subseteq ServiceFile
      BY <2>5 DEF ServiceFile
    <3>. QED
      BY <2>2, <2>4, <2>5, <2>6, <3>1, AtStep DEF Held
  <2>. QED
    BY <2>1, <2>3, <2>4, <2>7, <2>8, DoKeeps
<1>. QED
  BY <1>1, <1>2

LEMMA SaveManifestKeeps ==
  ASSUME FileInv, SafetyInv, UNCHANGED published, SaveManifest
  PROVE  SafetyInv'
<1>. DEFINE step == <<"manifest">>
            new == At(Manifest, command.manifest)
<1>1. Do(step, TRUE, new, TRUE) /\ IsNext(step) /\ step[1] = "manifest"
  BY DEF SaveManifest, Do
<1>. HIDE DEF step
<1>2. /\ step[1] # "commit" /\ command.name # "new" /\ Manifest \in Covered
      /\ GoodManifest(command.manifest, ServesGRPC)
  BY <1>1, PbKind, AtStep DEF BindingKinds, Held
<1>3. DOMAIN new = {Manifest} /\ new[Manifest] = command.manifest
      /\ new = [p \in DOMAIN new |-> new[p]]
  BY DEF At
<1>. HIDE DEF new
<1>4. Gentle(new)
  BY <1>2, <1>3, Places DEF Gentle, Loadable
<1>. QED
  BY <1>1, <1>2, <1>3, <1>4, DoKeeps

(* The steps of the binding commands.                                      *)
LEMMA BindingStepKeeps == FileInv /\ SafetyInv /\ BindingStep => SafetyInv'
<1>. SUFFICES ASSUME FileInv, SafetyInv, BindingStep, UNCHANGED published
              PROVE  SafetyInv'
  BY DEF BindingStep
<1>1. ASSUME NEW ss \in SUBSET Service, AddRequirement(ss)
      PROVE  SafetyInv'
  <2>. DEFINE step == <<"require", ss>>
  <2>1. PICK possible, content :
          Do(step, possible, At(GoMod, content), TRUE) \/ Do(step, possible, Nothing, TRUE)
    BY <1>1 DEF AddRequirement
  <2>2. IsNext(step) /\ step[1] = "require"
    BY <2>1 DEF Do
  <2>. HIDE DEF step
  <2>3. step[1] # "commit" /\ command.name # "new" /\ GoMod \in Covered
    BY <2>2, PbKind, AtStep DEF BindingKinds, Held, ModuleFiles
  <2>. QED
    BY <2>1, <2>3, Places, WriteOwnKeeps, WriteNothingKeeps
<1>2. ASSUME NEW ss \in SUBSET Service, ImplementServices(ss)
      PROVE  SafetyInv'
  <2>1. steps # <<>> /\ Head(steps) = <<"implement", ss>> /\ status = "working"
        /\ UNCHANGED <<fileVars, kind, command, published>>
    BY <1>2 DEF ImplementServices, IsNext
  <2>2. CASE steps' = Tail(steps)
    BY <2>1, <2>2, LoopKeeps
  <2>3. ASSUME NEW s \in ss,
               steps' = <<<<"handler", s>>, <<"stubs", s>>, <<"implement", ss \ {s}>>>> \o Tail(steps)
        PROVE  SafetyInv'
    <3>1. <<<<"handler", s>>, <<"stubs", s>>, <<"implement", ss \ {s}>>>> # <<>>
      OBVIOUS
    <3>. QED
      BY <2>1, <2>3, <3>1, LoopKeeps
  <2>. QED
    BY <1>2, <2>2, <2>3 DEF ImplementServices
<1>3. CASE WriteServer \/ WriteClients
  <2>. PICK step \in {<<"external">>, <<"clients">>}, file \in {External, ClientsGen} :
         /\ \E possible, content : Do(step, possible, At(file, content), TRUE)
         /\ step = <<"external">> => file = External
         /\ step = <<"clients">> => file = ClientsGen
    <3>1. <<"external">> # <<"clients">>
      OBVIOUS
    <3>. QED
      BY <1>3, <3>1 DEF WriteServer, WriteClients
  <2>. PICK possible, content : Do(step, possible, At(file, content), TRUE)
    OBVIOUS
  <2>1. IsNext(step) /\ step[1] \in {"external", "clients"}
    BY DEF Do
  <2>2. step[1] # "commit" /\ command.name # "new"
    BY <2>1, PbKind DEF BindingKinds
  <2>3. file \in Covered
    <3>1. Held(step, Covered, command.name, command.manifest)
      BY <2>1, AtStep
    <3>2. CASE step = <<"external">>
      BY <3>1, <3>2 DEF Held
    <3>3. CASE step = <<"clients">>
      BY <3>1, <3>3 DEF Held
    <3>. QED
      BY <3>2, <3>3
  <2>. QED
    BY <2>2, <2>3, Places, WriteOwnKeeps
<1>4. CASE Tidy
  <2>. DEFINE step == <<"tidy">>
              new == [p \in ModuleFiles |-> Imported \intersect Versioned]
  <2>1. Do(step, Readable(GoMod), new, TRUE) \/ MayFail(step)
    BY <1>4 DEF Tidy
  <2>2. IsNext(step) /\ step[1] = "tidy"
    BY <2>1 DEF Do, MayFail
  <2>. HIDE DEF step
  <2>3. step[1] # "commit" /\ command.name # "new" /\ ModuleFiles \subseteq Covered
    BY <2>2, PbKind, AtStep DEF BindingKinds, Held
  <2>4. DOMAIN new = ModuleFiles /\ new = [p \in DOMAIN new |-> new[p]]
    OBVIOUS
  <2>. HIDE DEF new
  <2>5. Gentle(new)
    BY <2>4, Places DEF Gentle, ModuleFiles
  <2>. QED
    BY <2>1, <2>3, <2>4, <2>5, DoKeeps, MayFailKeeps
<1>5. CASE Compile
  <2>. DEFINE step == <<"compile">>
  <2>1. Do(step, TRUE, Nothing, FALSE) \/ MayFail(step)
    BY <1>5 DEF Compile
  <2>2. IsNext(step) /\ step[1] = "compile"
    BY <2>1 DEF Do, MayFail
  <2>. HIDE DEF step
  <2>3. step[1] # "commit" /\ command.name # "new"
    BY <2>2, PbKind DEF BindingKinds
  <2>. QED
    BY <2>1, <2>3, WriteNothingKeeps, MayFailKeeps
<1>6. ASSUME NEW c \in Client, AddClientConfig(c) \/ RemoveClientConfig(c)
      PROVE  SafetyInv'
  <2>. PICK step \in {<<"add-config", c>>, <<"remove-config", c>>} :
         \E possible, content : Do(step, possible, At(LocalConfig, content), TRUE)
    BY <1>6 DEF AddClientConfig, RemoveClientConfig
  <2>1. PICK possible, content : Do(step, possible, At(LocalConfig, content), TRUE)
    OBVIOUS
  <2>2. IsNext(step) /\ step[1] \in {"add-config", "remove-config"}
    BY <2>1 DEF Do
  <2>3. step[1] # "commit" /\ command.name # "new" /\ LocalConfig \in Covered
    BY <2>2, PbKind, AtStep DEF BindingKinds, Held
  <2>. QED
    BY <2>1, <2>3, Places, WriteOwnKeeps
<1>. QED
  BY <1>1, <1>2, <1>3, <1>4, <1>5, <1>6, SaveManifestKeeps, HandlerStepsKeep DEF BindingStep

(* A step of `jgo new`.                                                    *)
LEMMA NewKeeps ==
  ASSUME FileInv, SafetyInv, NEW new, status = "working", command.name = "new",
         steps # <<>>, Head(steps)[1] # "commit",
         tree' = With(new), exposed' = exposed \union (DOMAIN new \ Covered),
         UNCHANGED <<before, spoiled, kind, command, published>>,
         tree'[Target] = "project" \/ \A p \in Path \ {Target} : tree'[p] = tree[p],
         Loadable(tree'[Manifest], ServesGRPC),
         \/ /\ status' = "working" /\ snapshots' = snapshots /\ steps' = Tail(steps)
            /\ Path \intersect DOMAIN new \subseteq Covered \/ Kinds(Tail(steps)) \subseteq {"commit"}
            /\ Kinds(Tail(steps)) \intersect {"clear", "publish"} # {} => tree'[Target] # "project"
         \/ /\ status' = "undoing" /\ snapshots' = snapshots /\ steps' = <<>>
            /\ Path \intersect DOMAIN new \subseteq Covered /\ tree'[Target] # "project"
         \/ status' = "crashed" /\ snapshots' = <<>> /\ steps' = <<>>
  PROVE  SafetyInv'
<1>1. Plan(steps, command.name, Len(snapshots))
  BY DEF SafetyInv, PlanInv
<1>2. /\ Plan(Tail(steps), command.name, Len(snapshots))
      /\ "http-stub" \notin Kinds(Tail(steps)) /\ "clear" \notin Kinds(Tail(steps))
      /\ Kinds(Tail(steps)) \subseteq Kinds(steps) /\ Head(steps)[1] \in Kinds(steps)
      /\ Of(Tail(steps)) \subseteq Of(steps)
  BY <1>1, PlanTail, StubsFirst
<1>3. /\ Kinds(<<>>) = {} /\ Len(<<>>) = 0
      /\ ServesGRPC' = ServesGRPC /\ Leftovers = {} /\ Leftovers' = {}
  BY OpenNothing DEF ServesGRPC, HasGRPC, HasServer, Leftovers
<1>4. /\ \A p \in Path \ {Target} : before[p] = Absent
      /\ \A i \in 1..Len(snapshots) :
           DOMAIN snapshots[i] = {Target} /\ snapshots[i][Target] # "project"
      /\ tree[Target] # "project" => \A p \in Path \ {Target} : tree[p] = Absent
      /\ tree[Target] # "project"
  <2>1. Kinds(steps) \intersect {"clear", "publish"} # {}
    <3>1. Takes("new", Head(steps)[1])
      BY <1>1, PlanTail
    <3>. QED
      BY <1>2, <3>1 DEF Takes
  <2>. QED
    BY <2>1 DEF SafetyInv, TargetInv, Running
<1>5. Path \intersect exposed = {}
  <2>1. ~(Kinds(steps) \subseteq {"commit"})
    BY <1>2
  <2>. QED
    BY <1>3, <2>1 DEF SafetyInv, CoverInv
<1>6. PlanInv'
  BY <1>2 DEF PlanInv
<1>7. TargetInv'
  BY <1>3, <1>4 DEF TargetInv, Running
<1>8. ManifestInv'
  <2>1. Kinds(steps') \intersect BindingKinds # {} => Kinds(steps) \intersect BindingKinds # {}
    BY <1>2, <1>3
  <2>. QED
    BY <1>3, <2>1 DEF SafetyInv, ManifestInv
<1>9. UserInv'
  <2>1. \A p \in Owned : before[p] = Absent
    BY <1>4, Places
  <2>2. \A i \in 1..Len(steps') : steps'[i][1] # "http-stub"
    BY <1>2, <1>3 DEF Kinds
  <2>3. \A o : <<"http-stub", o>>[1] = "http-stub"
    OBVIOUS
  <2>. QED
    BY <2>1, <2>2, <2>3 DEF UserInv
<1>10. CoverInv'
  <2>1. CASE status' = "working" /\ snapshots' = snapshots /\ steps' = Tail(steps)
    <3>1. Covered' = Covered
      BY <2>1 DEF Covered
    <3>2. ASSUME NEW i \in 1..Len(steps')
          PROVE  Held(steps'[i], Covered, command.name, command.manifest)
      BY <1>2, <2>1 DEF Of, SafetyInv, CoverInv
    <3>3. exposed' \intersect Path = {} \/ Kinds(steps') \subseteq {"commit"}
      BY <1>5, <2>1
    <3>. QED
      BY <2>1, <3>1, <3>2, <3>3 DEF CoverInv
  <2>2. CASE status' = "undoing" /\ steps' = <<>> /\ Path \intersect DOMAIN new \subseteq Covered
    BY <1>3, <1>5, <2>2 DEF CoverInv
  <2>3. CASE status' = "crashed" /\ steps' = <<>>
    BY <1>3, <2>3 DEF CoverInv
  <2>. QED
    BY <2>1, <2>2, <2>3
<1>. QED
  BY <1>6, <1>7, <1>8, <1>9, <1>10 DEF SafetyInv

LEMMA ClearTargetKeeps ==
  ASSUME FileInv, SafetyInv, UNCHANGED published, ClearTarget
  PROVE  SafetyInv'
<1>. DEFINE step == <<"clear">>
            new == At(Target, Absent)
<1>1. Do(step, tree[Target] = "empty", new, FALSE) /\ IsNext(step) /\ step[1] = "clear"
  BY DEF ClearTarget, Do
<1>. HIDE DEF step
<1>2. command.name = "new" /\ Target \in Covered
  BY <1>1, AtStep DEF Takes, Held, HTTPKinds, PbKinds, BindingKinds, Generators
<1>3. DOMAIN new = {Target} /\ new[Target] = Absent /\ new = [p \in DOMAIN new |-> new[p]]
  BY DEF At
<1>. HIDE DEF new
<1>4. /\ status = "working" /\ steps # <<>> /\ Head(steps)[1] = "clear"
      /\ UNCHANGED <<kind, command>>
  BY <1>1, <1>3, DoEffect
<1>5. Torn # "project" /\ Absent # "project" /\ Manifest # Target /\ Manifest \in Path
  BY ContentAssumption, Places
<1>6. Loadable(tree[Manifest], ServesGRPC)
  BY DEF SafetyInv, ManifestInv
<1>7. CASE Put(new) /\ steps' = Tail(steps)
  <2>1. /\ status' = "working" /\ snapshots' = snapshots /\ tree' = With(new)
        /\ exposed' = exposed \union (DOMAIN new \ Covered)
        /\ UNCHANGED <<before, spoiled>>
    BY <1>7 DEF Put
  <2>2. tree'[Target] = Absent /\ \A p \in Path \ {Target} : tree'[p] = tree[p]
    BY <1>3, <2>1, Places, WithNew
  <2>. QED
    BY <1>2, <1>3, <1>4, <1>5, <1>6, <1>7, <2>1, <2>2, NewKeeps
<1>8. ASSUME tree[Target] = "empty", steps' = <<>>, NEW w, Interrupt(w) \/ Crash(w),
             DOMAIN w \subseteq DOMAIN new, \A p \in DOMAIN w : w[p] = new[p] \/ w[p] \in Remains(p)
      PROVE  SafetyInv'
  <2>1. /\ tree' = With(w) /\ exposed' = exposed \union (DOMAIN w \ Covered)
        /\ UNCHANGED <<before, spoiled>>
        /\ \/ status' = "undoing" /\ snapshots' = snapshots
           \/ status' = "crashed" /\ snapshots' = <<>>
    BY <1>8 DEF Interrupt, Crash, CutShort
  <2>2. tree'[Target] # "project" /\ \A p \in Path \ {Target} : tree'[p] = tree[p]
    BY <1>3, <1>5, <1>8, <2>1, Places, RemainsOf, WithNew
  <2>. QED
    BY <1>2, <1>3, <1>4, <1>5, <1>6, <1>8, <2>1, <2>2, NewKeeps
<1>9. CASE Fail /\ steps' = <<>>
  BY <1>4, <1>9, FailKeeps
<1>10. \/ Put(new) /\ steps' = Tail(steps)
       \/ /\ tree[Target] = "empty" /\ steps' = <<>>
          /\ \E w : /\ Interrupt(w) \/ Crash(w)
                    /\ DOMAIN w \subseteq DOMAIN new
                    /\ \A p \in DOMAIN w : w[p] = new[p] \/ w[p] \in Remains(p)
       \/ Fail /\ steps' = <<>>
  <2>. DEFINE possible == tree[Target] = "empty"
  <2>1. Do(step, possible, new, FALSE)
    BY <1>1
  <2>2. \/ possible /\ Put(new) /\ steps' = Tail(steps)
        \/ /\ possible /\ steps' = <<>>
           /\ \E w : /\ Interrupt(w) \/ Crash(w)
                     /\ DOMAIN w \subseteq DOMAIN new
                     /\ \A p \in DOMAIN w : w[p] = new[p] \/ w[p] \in Remains(p)
                     /\ Interrupt(w) => FALSE \/ new = Nothing \/ DOMAIN w # DOMAIN new
        \/ ~possible /\ Fail /\ steps' = <<>>
    <3>. HIDE DEF possible
    <3>. QED
      BY <1>3, <2>1, DoEffect
  <2>. QED
    BY <2>2
<1>. QED
  BY <1>7, <1>8, <1>9, <1>10

LEMMA PublishProjectKeeps ==
  ASSUME FileInv, SafetyInv, UNCHANGED published, PublishProject
  PROVE  SafetyInv'
<1>. DEFINE step == <<"publish">>
<1>1. IsNext(step) /\ step[1] = "publish"
  BY DEF PublishProject
<1>2. status = "working" /\ steps # <<>> /\ Head(steps) = step /\ UNCHANGED <<kind, command>>
  BY <1>1 DEF PublishProject, IsNext
<1>. HIDE DEF step
<1>3. command.name = "new"
  BY <1>1, AtStep DEF Takes, HTTPKinds, PbKinds, BindingKinds, Generators
<1>4. Kinds(Tail(steps)) \subseteq {"commit"}
  BY <1>1, <1>3, AtStep, Ranks DEF Takes, Precedes
<1>5. Loadable(tree[Manifest], ServesGRPC)
  BY DEF SafetyInv, ManifestInv
<1>6. DOMAIN Template = Path /\ Template[Target] = "project" /\ Template[Manifest] = Absent
  BY Places DEF Template, Models
<1>7. CASE Put(Template) /\ steps' = Tail(steps)
  <2>1. /\ status' = "working" /\ snapshots' = snapshots /\ tree' = With(Template)
        /\ exposed' = exposed \union (DOMAIN Template \ Covered)
        /\ UNCHANGED <<before, spoiled>>
    BY <1>7 DEF Put
  <2>2. tree'[Target] = "project" /\ Loadable(tree'[Manifest], ServesGRPC)
    BY <1>6, <2>1, Places, WithNew DEF Loadable
  <2>3. Kinds(Tail(steps)) \intersect {"clear", "publish"} = {}
    BY <1>4
  <2>. QED
    BY <1>1, <1>2, <1>3, <1>4, <1>7, <2>1, <2>2, <2>3, NewKeeps
<1>8. CASE Crash(Template) /\ steps' = <<>>
  <2>1. /\ tree' = With(Template) /\ exposed' = exposed \union (DOMAIN Template \ Covered)
        /\ UNCHANGED <<before, spoiled>>
        /\ status' = "crashed" /\ snapshots' = <<>>
    BY <1>8 DEF Crash, CutShort
  <2>2. tree'[Target] = "project" /\ Loadable(tree'[Manifest], ServesGRPC)
    BY <1>6, <2>1, Places, WithNew DEF Loadable
  <2>. QED
    BY <1>1, <1>2, <1>3, <1>8, <2>1, <2>2, NewKeeps
<1>9. CASE Vacant /\ (Interrupt(Nothing) \/ Crash(Nothing)) /\ steps' = <<>>
  <2>1. /\ tree' = With(Nothing) /\ exposed' = exposed \union (DOMAIN Nothing \ Covered)
        /\ UNCHANGED <<before, spoiled>>
        /\ \/ status' = "undoing" /\ snapshots' = snapshots
           \/ status' = "crashed" /\ snapshots' = <<>>
    BY <1>9 DEF Interrupt, Crash, CutShort
  <2>2. \A p \in Path : tree'[p] = tree[p]
    BY <2>1, NothingOf, WithNew
  <2>3. tree[Target] # "project"
    BY <1>9, ContentAssumption DEF Vacant
  <2>. QED
    BY <1>1, <1>2, <1>3, <1>5, <1>9, <2>1, <2>2, <2>3, NothingOf, Places, NewKeeps
<1>10. CASE Fail /\ steps' = <<>>
  BY <1>1, <1>2, <1>10, FailKeeps
<1>. QED
  BY <1>7, <1>8, <1>9, <1>10 DEF PublishProject

-------------------------------------------------------------------------------
(* The lists of steps of the commands and the nested generators.           *)

(* Short lists, by their elements.                                         *)
LEMMA Two ==
  ASSUME NEW a, NEW b
  PROVE  <<a, b>> = <<a>> \o <<b>>
<1>. DEFINE s == <<a>> \o <<b>>
            t == <<a, b>>
<1>1. s \in Seq({a, b}) /\ Len(s) = 2 /\ s[1] = a /\ s[2] = b
  <2>1. /\ <<a>> \in Seq({a, b}) /\ Len(<<a>>) = 1 /\ <<a>>[1] = a
        /\ <<b>> \in Seq({a, b}) /\ Len(<<b>>) = 1 /\ <<b>>[1] = b
    OBVIOUS
  <2>. QED
    BY <2>1
<1>2. t \in Seq({a, b}) /\ Len(t) = 2 /\ t[1] = a /\ t[2] = b
  OBVIOUS
<1>. HIDE DEF s, t
<1>3. DOMAIN s = 1..2 /\ DOMAIN t = 1..2 /\ s = [i \in 1..2 |-> s[i]] /\ t = [i \in 1..2 |-> t[i]]
  BY <1>1, <1>2
<1>4. \A i \in 1..2 : s[i] = t[i]
  BY <1>1, <1>2
<1>5. s = t
  BY <1>3, <1>4
<1>. QED
  BY <1>5 DEF s, t

LEMMA Three ==
  ASSUME NEW a, NEW b, NEW c
  PROVE  <<a, b, c>> = <<a, b>> \o <<c>>
OBVIOUS

LEMMA Four ==
  ASSUME NEW a, NEW b, NEW c, NEW d
  PROVE  <<a, b, c, d>> = <<a, b, c>> \o <<d>>
OBVIOUS

LEMMA Five ==
  ASSUME NEW a, NEW b, NEW c, NEW d, NEW e
  PROVE  <<a, b, c, d, e>> = <<a, b, c, d>> \o <<e>>
OBVIOUS

LEMMA KindsOf ==
  ASSUME NEW s
  PROVE  Kinds(s) = {x[1] : x \in Of(s)}
BY DEF Kinds, Of

LEMMA OpenMaybe ==
  ASSUME NEW s, NEW name, NEW lo, NEW hi, NEW wanted, wanted => Open(s, name, lo, hi)
  PROVE  /\ Open(IF wanted THEN s ELSE <<>>, name, lo, hi)
         /\ Of(IF wanted THEN s ELSE <<>>) \subseteq Of(s)
<1>1. CASE wanted
  BY <1>1
<1>2. CASE ~wanted
  BY <1>2, OpenNothing
<1>. QED
  BY <1>1, <1>2

LEMMA ClosedCommit ==
  ASSUME NEW name, NEW up, NEW hi, Takes(name, "commit")
  PROVE  /\ Closed(<<<<"commit">>>>, name, up, hi)
         /\ Of(<<<<"commit">>>>) = {<<"commit">>}
<1>. DEFINE x == <<"commit">>
            s == <<x>>
<1>1. s \in Seq({x}) /\ Len(s) = 1 /\ s[1] = x /\ x[1] = "commit"
  OBVIOUS
<1>. HIDE DEF s, x
<1>2. \A i \in 1..Len(s) : i = 1 /\ i = Len(s) /\ s[i] = x
  BY <1>1
<1>3. 1 \in 1..Len(s) /\ Len(s) > 0
  BY <1>1
<1>4. Part(s, name, up, hi)
  BY <1>1, <1>2 DEF Part
<1>5. Closed(s, name, up, hi)
  BY <1>1, <1>2, <1>3, <1>4 DEF Closed
<1>6. Of(s) = {x}
  BY <1>1, <1>2, <1>3 DEF Of
<1>. QED
  BY <1>5, <1>6 DEF s, x

LEMMA ClosedWider ==
  ASSUME NEW s, NEW name, NEW lo \in Nat, NEW mid \in Nat, NEW hi \in Nat,
         Closed(s, name, mid, hi), lo <= mid
  PROVE  Closed(s, name, lo, hi)
BY DEF Closed, Part

LEMMA OpenRank ==
  ASSUME NEW x, NEW name, NEW k, NEW r \in Nat, x[1] = k, k # "commit", Takes(name, k), Rank(k) = r
  PROVE  Open(<<x>>, name, r, r) /\ Of(<<x>>) = {x}
<1>1. Open(<<x>>, name, Rank(x[1]), Rank(x[1])) /\ Of(<<x>>) = {x}
  BY OpenOne
<1>. QED
  BY <1>1

(* A step is added at the end.                                             *)
LEMMA OpenMore ==
  ASSUME NEW s, NEW x, NEW name, NEW lo \in Nat, NEW mid \in Nat,
         Open(s, name, lo, mid), Takes(name, x[1]), x[1] # "commit",
         Rank(x[1]) \in Nat, mid < Rank(x[1]), lo <= mid
  PROVE  /\ Open(s \o <<x>>, name, lo, Rank(x[1]))
         /\ Of(s \o <<x>>) = Of(s) \union {x}
<1>1. Open(<<x>>, name, Rank(x[1]), Rank(x[1])) /\ Of(<<x>>) = {x}
  BY OpenOne
<1>. QED
  BY <1>1, OpenConcat

LEMMA OpenTwo ==
  ASSUME NEW x, NEW y, NEW name, Takes(name, x[1]), Takes(name, y[1]),
         x[1] # "commit", y[1] # "commit", Rank(x[1]) < Rank(y[1])
  PROVE  /\ Open(<<x, y>>, name, Rank(x[1]), Rank(y[1]))
         /\ Of(<<x, y>>) = {x, y}
<1>1. Rank(x[1]) \in Nat /\ Rank(y[1]) \in Nat /\ Rank(x[1]) <= Rank(x[1])
  BY TakesRank
<1>2. Open(<<x>>, name, Rank(x[1]), Rank(x[1])) /\ Of(<<x>>) = {x}
  BY <1>1, OpenOne
<1>3. /\ Open(<<x>> \o <<y>>, name, Rank(x[1]), Rank(y[1]))
      /\ Of(<<x>> \o <<y>>) = {x} \union {y}
  <2>. DEFINE s == <<x>>
              r == Rank(x[1])
  <2>1. Open(s, name, r, r) /\ r \in Nat /\ r <= r /\ r < Rank(y[1]) /\ Of(s) = {x}
    BY <1>1, <1>2
  <2>. HIDE DEF s, r
  <2>2. Open(s \o <<y>>, name, r, Rank(y[1])) /\ Of(s \o <<y>>) = Of(s) \union {y}
    BY <1>1, <2>1, OpenMore
  <2>. QED
    BY <2>1, <2>2 DEF s, r
<1>. QED
  BY <1>3, Two

LEMMA OpenThree ==
  ASSUME NEW x, NEW y, NEW z, NEW name,
         Takes(name, x[1]), Takes(name, y[1]), Takes(name, z[1]),
         "commit" \notin {x[1], y[1], z[1]},
         Rank(x[1]) < Rank(y[1]), Rank(y[1]) < Rank(z[1])
  PROVE  /\ Open(<<x, y, z>>, name, Rank(x[1]), Rank(z[1]))
         /\ Of(<<x, y, z>>) = {x, y, z}
<1>1. Rank(x[1]) \in Nat /\ Rank(y[1]) \in Nat /\ Rank(z[1]) \in Nat
  BY TakesRank
<1>2. Open(<<x, y>>, name, Rank(x[1]), Rank(y[1])) /\ Of(<<x, y>>) = {x, y}
  BY OpenTwo
<1>3. /\ Open(<<x, y>> \o <<z>>, name, Rank(x[1]), Rank(z[1]))
      /\ Of(<<x, y>> \o <<z>>) = {x, y} \union {z}
  <2>. DEFINE s == <<x, y>>
              r == Rank(x[1])
              q == Rank(y[1])
  <2>1. Open(s, name, r, q) /\ r \in Nat /\ q \in Nat /\ r <= q /\ q < Rank(z[1]) /\ Of(s) = {x, y}
    BY <1>1, <1>2
  <2>. HIDE DEF s, r, q
  <2>2. Open(s \o <<z>>, name, r, Rank(z[1])) /\ Of(s \o <<z>>) = Of(s) \union {z}
    BY <1>1, <2>1, OpenMore
  <2>. QED
    BY <2>1, <2>2 DEF s, r, q
<1>4. <<x, y, z>> = <<x, y>> \o <<z>>
  BY Three
<1>5. {x, y, z} = {x, y} \union {z}
  OBVIOUS
<1>. QED
  BY <1>3, <1>4, <1>5, Zenon

LEMMA Closing ==
  ASSUME NEW s, NEW name, NEW lo \in Nat, NEW mid \in Nat,
         Open(s, name, lo, mid), Takes(name, "commit"), lo <= mid
  PROVE  /\ Closed(s \o <<<<"commit">>>>, name, lo, mid)
         /\ Of(s \o <<<<"commit">>>>) = Of(s) \union {<<"commit">>}
<1>. DEFINE t == <<<<"commit">>>>
<1>1. Closed(t, name, mid + 1, mid) /\ Of(t) = {<<"commit">>}
  BY ClosedCommit
<1>. HIDE DEF t
<1>2. mid + 1 \in Nat /\ mid < mid + 1 /\ lo <= mid + 1 /\ mid <= mid
  OBVIOUS
<1>3. Closed(s \o t, name, lo, mid) /\ Of(s \o t) = Of(s) \union Of(t)
  BY <1>1, <1>2, ClosedConcat
<1>. QED
  BY <1>1, <1>3 DEF t

Maybe(wanted, t) == IF wanted THEN t ELSE <<>>

LEMMA MaybeMore ==
  ASSUME NEW s, NEW t, NEW name, NEW wanted,
         NEW lo \in Nat, NEW mid \in Nat, NEW up \in Nat, NEW hi \in Nat,
         Open(s, name, lo, mid), Open(t, name, up, hi), lo <= mid, mid < up, up <= hi
  PROVE  /\ Open(s \o Maybe(wanted, t), name, lo, hi)
         /\ Of(s \o Maybe(wanted, t)) = Of(s) \union (IF wanted THEN Of(t) ELSE {})
<1>. DEFINE more == Maybe(wanted, t)
<1>1. Open(more, name, up, hi) /\ Of(more) = (IF wanted THEN Of(t) ELSE {})
  BY OpenNothing DEF Maybe
<1>. HIDE DEF more
<1>2. Open(s \o more, name, lo, hi) /\ Of(s \o more) = Of(s) \union Of(more)
  BY <1>1, OpenConcat
<1>. QED
  BY <1>1, <1>2 DEF more

LEMMA MaybeThenCommit ==
  ASSUME NEW s, NEW t, NEW name, NEW wanted,
         NEW lo \in Nat, NEW mid \in Nat, NEW up \in Nat, NEW hi \in Nat,
         Open(s, name, lo, mid), Open(t, name, up, hi), lo <= mid, mid < up, up <= hi,
         Takes(name, "commit")
  PROVE  LET todo == s \o Maybe(wanted, t) \o <<<<"commit">>>>
         IN /\ Closed(todo, name, lo, hi)
            /\ Of(todo) = Of(s) \union (IF wanted THEN Of(t) ELSE {}) \union {<<"commit">>}
<1>. DEFINE r == s \o Maybe(wanted, t)
<1>1. Open(r, name, lo, hi) /\ Of(r) = Of(s) \union (IF wanted THEN Of(t) ELSE {})
  BY MaybeMore
<1>. HIDE DEF r
<1>2. lo <= hi
  OBVIOUS
<1>3. /\ Closed(r \o <<<<"commit">>>>, name, lo, hi)
      /\ Of(r \o <<<<"commit">>>>) = Of(r) \union {<<"commit">>}
  BY <1>1, <1>2, Closing
<1>. QED
  BY <1>1, <1>3 DEF r

LEMMA TidyLast ==
  ASSUME NEW s, NEW name, NEW wanted, NEW lo \in Nat, NEW mid \in Nat,
         Open(s, name, lo, mid), lo <= mid, mid < 18, Takes(name, "tidy")
  PROVE  /\ Open(s \o TidyIf(wanted), name, lo, 18)
         /\ Of(s \o TidyIf(wanted)) \subseteq Of(s) \union {<<"tidy">>}
<1>. DEFINE x == <<"tidy">>
            t == <<x>>
<1>1. x[1] = "tidy"
  OBVIOUS
<1>2. Open(t, name, 18, 18) /\ Of(t) = {x}
  <2>. HIDE DEF x
  <2>. QED
    BY <1>1, OpenOne, Ranks
<1>3. TidyIf(wanted) = Maybe(wanted, t)
  BY DEF TidyIf, Maybe
<1>. HIDE DEF t
<1>4. /\ Open(s \o Maybe(wanted, t), name, lo, 18)
      /\ Of(s \o Maybe(wanted, t)) \subseteq Of(s) \union Of(t)
  BY <1>2, MaybeMore
<1>. QED
  BY <1>2, <1>3, <1>4

LEMMA VerifiedLast ==
  ASSUME NEW s, NEW name, NEW lo \in Nat, NEW mid \in Nat,
         Open(s, name, lo, mid), lo <= mid, mid < 19,
         Takes(name, "compile"), Takes(name, "commit")
  PROVE  /\ Closed(s \o Verified, name, lo, 19)
         /\ Of(s \o Verified) = Of(s) \union {<<"compile">>, <<"commit">>}
<1>. DEFINE x == <<"compile">>
            t == <<x>>
<1>1. x[1] = "compile"
  OBVIOUS
<1>2. Open(t, name, 19, 19) /\ Of(t) = {x}
  <2>. HIDE DEF x
  <2>. QED
    BY <1>1, OpenOne, Ranks
<1>3. Verified = t \o <<<<"commit">>>>
  BY Two DEF Verified
<1>. HIDE DEF t
<1>4. Closed(Verified, name, 19, 19) /\ Of(Verified) = Of(t) \union {<<"commit">>}
  BY <1>2, <1>3, Closing
<1>5. Closed(s \o Verified, name, lo, 19) /\ Of(s \o Verified) = Of(s) \union Of(Verified)
  <2>1. lo <= 19 /\ mid <= 19
    OBVIOUS
  <2>. QED
    BY <1>4, <2>1, ClosedConcat
<1>. QED
  BY <1>2, <1>4, <1>5

(* The steps of the contract generators are parts of a plan.               *)
LEMMA HTTPList ==
  ASSUME NEW name \in {"api-generate", "generate"}
  PROVE  /\ Closed(HTTPSteps, name, 1, 3)
         /\ Of(HTTPSteps) = {<<"api">>, <<"routes">>, <<"sync">>, <<"commit">>}
<1>1. /\ Takes(name, "api") /\ Takes(name, "routes") /\ Takes(name, "sync")
      /\ Takes(name, "commit")
  BY DEF Takes, HTTPKinds
<1>2. /\ Open(<<<<"api">>, <<"routes">>, <<"sync">>>>, name, 1, 3)
      /\ Of(<<<<"api">>, <<"routes">>, <<"sync">>>>) = {<<"api">>, <<"routes">>, <<"sync">>}
  <2>. DEFINE x == <<"api">>
              y == <<"routes">>
              z == <<"sync">>
  <2>1. x[1] = "api" /\ y[1] = "routes" /\ z[1] = "sync"
    OBVIOUS
  <2>. HIDE DEF x, y, z
  <2>2. /\ Open(<<x, y, z>>, name, Rank(x[1]), Rank(z[1]))
        /\ Of(<<x, y, z>>) = {x, y, z}
    BY <1>1, <2>1, OpenThree, Ranks
  <2>3. Rank(x[1]) = 1 /\ Rank(z[1]) = 3
    BY <2>1, Ranks
  <2>4. Open(<<x, y, z>>, name, 1, 3)
    BY <2>2, <2>3
  <2>. QED
    BY <2>2, <2>4 DEF x, y, z
<1>3. HTTPSteps = <<<<"api">>, <<"routes">>, <<"sync">>>> \o <<<<"commit">>>>
  <2>. DEFINE x == <<"api">>
              y == <<"routes">>
              z == <<"sync">>
              c == <<"commit">>
  <2>. HIDE DEF x, y, z, c
  <2>1. <<x, y, z, c>> = <<x, y, z>> \o <<c>>
    BY Four
  <2>. QED
    BY <2>1 DEF HTTPSteps, x, y, z, c
<1>. DEFINE s == <<<<"api">>, <<"routes">>, <<"sync">>>>
<1>4. Open(s, name, 1, 3) /\ Of(s) = {<<"api">>, <<"routes">>, <<"sync">>}
      /\ HTTPSteps = s \o <<<<"commit">>>>
  BY <1>2, <1>3
<1>. HIDE DEF s
<1>5. Closed(HTTPSteps, name, 1, 3) /\ Of(HTTPSteps) = Of(s) \union {<<"commit">>}
  BY <1>1, <1>4, Closing
<1>. QED
  BY <1>4, <1>5

LEMMA PbList ==
  ASSUME NEW name \in {"pb-generate", "generate"}
  PROVE  /\ Closed(PbSteps, name, 5, 10)
         /\ Of(PbSteps) \subseteq
              {<<"buf">>, <<"prune">>, <<"discover">>, <<"rpc-stubs">>, <<"verify">>, <<"commit">>}
                \union (IF HasServer THEN {<<"register">>} ELSE {})
<1>1. Takes(name, "commit") /\ \A k \in PbKinds : Takes(name, k)
  BY DEF Takes, PbKinds
<1>. DEFINE buf == <<"buf">>
            prune == <<"prune">>
            discover == <<"discover">>
            register == <<"register">>
            stubs == <<"rpc-stubs">>
            verify == <<"verify">>
            last == <<<<"commit">>>>
<1>2. /\ buf[1] = "buf" /\ prune[1] = "prune" /\ discover[1] = "discover"
      /\ register[1] = "register" /\ stubs[1] = "rpc-stubs" /\ verify[1] = "verify"
  OBVIOUS
<1>3. PbSteps = IF ~HasContracts
                THEN <<prune>> \o (IF HasServer THEN <<register, verify>> ELSE <<>>) \o last
                ELSE <<buf, prune>>
                       \o (IF HasServer THEN <<discover, register, stubs, verify>> ELSE <<>>)
                       \o last
  BY DEF PbSteps
<1>. HIDE DEF buf, prune, discover, register, stubs, verify
<1>4. /\ Rank(buf[1]) = 5 /\ Rank(prune[1]) = 6 /\ Rank(discover[1]) = 7
      /\ Rank(register[1]) = 8 /\ Rank(stubs[1]) = 9 /\ Rank(verify[1]) = 10
      /\ \A x \in {buf, prune, discover, register, stubs, verify} :
           Takes(name, x[1]) /\ x[1] # "commit"
  BY <1>1, <1>2, Ranks DEF PbKinds
<1>5. Open(<<prune>>, name, 6, 6) /\ Of(<<prune>>) = {prune}
  <2>1. Open(<<prune>>, name, Rank(prune[1]), Rank(prune[1])) /\ Of(<<prune>>) = {prune}
    BY <1>4, OpenOne
  <2>. QED
    BY <1>4, <2>1
<1>6. Open(<<buf, prune>>, name, 5, 6) /\ Of(<<buf, prune>>) = {buf, prune}
  <2>1. /\ Open(<<buf, prune>>, name, Rank(buf[1]), Rank(prune[1]))
        /\ Of(<<buf, prune>>) = {buf, prune}
    BY <1>4, OpenTwo
  <2>. QED
    BY <1>4, <2>1
<1>7. Open(<<register, verify>>, name, 8, 10) /\ Of(<<register, verify>>) = {register, verify}
  <2>1. /\ Open(<<register, verify>>, name, Rank(register[1]), Rank(verify[1]))
        /\ Of(<<register, verify>>) = {register, verify}
    BY <1>4, OpenTwo
  <2>. QED
    BY <1>4, <2>1
<1>8. /\ Open(<<discover, register, stubs, verify>>, name, 7, 10)
      /\ Of(<<discover, register, stubs, verify>>) = {discover, register, stubs, verify}
  <2>. DEFINE s == <<discover, register, stubs>>
  <2>1. /\ Open(s, name, Rank(discover[1]), Rank(stubs[1])) /\ Of(s) = {discover, register, stubs}
    BY <1>4, OpenThree
  <2>2. Open(s, name, 7, 9)
    BY <1>4, <2>1
  <2>3. <<discover, register, stubs, verify>> = s \o <<verify>>
    BY Four
  <2>. HIDE DEF s
  <2>4. Open(s \o <<verify>>, name, 7, Rank(verify[1])) /\ Of(s \o <<verify>>) = Of(s) \union {verify}
    <3>1. Rank(verify[1]) \in Nat /\ 9 < Rank(verify[1]) /\ 7 <= 9
      BY <1>4
    <3>. QED
      BY <1>4, <2>2, <3>1, OpenMore
  <2>5. Open(s \o <<verify>>, name, 7, 10)
    BY <1>4, <2>4
  <2>. QED
    BY <2>1, <2>3, <2>4, <2>5
<1>9. CASE ~HasContracts
  <2>. DEFINE s == <<prune>>
              t == <<register, verify>>
  <2>1. Open(s, name, 6, 6) /\ Of(s) = {prune} /\ Open(t, name, 8, 10) /\ Of(t) = {register, verify}
    BY <1>5, <1>7
  <2>2. PbSteps = s \o Maybe(HasServer, t) \o last
    BY <1>3, <1>9 DEF Maybe
  <2>. HIDE DEF s, t
  <2>3. /\ Closed(PbSteps, name, 6, 10)
        /\ Of(PbSteps) = Of(s) \union (IF HasServer THEN Of(t) ELSE {}) \union {<<"commit">>}
    BY <1>1, <2>1, <2>2, MaybeThenCommit
  <2>4. Closed(PbSteps, name, 5, 10)
    BY <2>3, ClosedWider
  <2>. QED
    BY <2>1, <2>3, <2>4 DEF buf, prune, discover, register, stubs, verify
<1>10. CASE HasContracts
  <2>. DEFINE s == <<buf, prune>>
              t == <<discover, register, stubs, verify>>
  <2>1. /\ Open(s, name, 5, 6) /\ Of(s) = {buf, prune}
        /\ Open(t, name, 7, 10) /\ Of(t) = {discover, register, stubs, verify}
    BY <1>6, <1>8
  <2>2. PbSteps = s \o Maybe(HasServer, t) \o last
    BY <1>3, <1>10 DEF Maybe
  <2>. HIDE DEF s, t
  <2>3. /\ Closed(PbSteps, name, 5, 10)
        /\ Of(PbSteps) = Of(s) \union (IF HasServer THEN Of(t) ELSE {}) \union {<<"commit">>}
    <3>1. /\ Open(s, name, 5, 6) /\ Open(t, name, 7, 10) /\ Takes(name, "commit")
          /\ 5 <= 6 /\ 6 < 7 /\ 7 <= 10
      BY <1>1, <2>1
    <3>. QED
      BY ONLY <2>2, <3>1, MaybeThenCommit
  <2>. QED
    BY <2>1, <2>3 DEF buf, prune, discover, register, stubs, verify
<1>. QED
  BY <1>9, <1>10

LEMMA Rewriting ==
  ASSUME NEW name, Takes(name, "external")
  PROVE  /\ Open(RewriteServer, name, 13, 13)
         /\ Of(RewriteServer) \subseteq {<<"external">>}
<1>. DEFINE x == <<"external">>
<1>1. x[1] = "external" /\ RewriteServer = IF ServesGRPC THEN <<x>> ELSE <<>>
  BY DEF RewriteServer
<1>. HIDE DEF x
<1>2. Open(<<x>>, name, 13, 13) /\ Of(<<x>>) = {x}
  <2>1. Rank(x[1]) = 13 /\ 13 \in Nat /\ x[1] # "commit" /\ Takes(name, x[1])
    BY <1>1, Ranks
  <2>2. Open(<<x>>, name, Rank(x[1]), Rank(x[1])) /\ Of(<<x>>) = {x}
    BY <2>1, OpenOne
  <2>. QED
    BY <2>1, <2>2
<1>3. CASE ServesGRPC
  BY <1>1, <1>2, <1>3 DEF x
<1>4. CASE ~ServesGRPC
  BY <1>1, <1>4, OpenNothing
<1>. QED
  BY <1>3, <1>4

(* Likewise those of the bindings that are left when the manifest is empty. *)
LEMMA StaleList ==
  LET todo == RewriteServer \o <<<<"clients">>, <<"tidy">>>> \o Verified
  IN /\ Closed(todo, "generate", 13, 19)
     /\ Kinds(todo) \subseteq {"external", "clients", "tidy", "compile", "commit"}
<1>. DEFINE x == <<"clients">>
            y == <<"tidy">>
            s == <<x, y>>
            r == RewriteServer \o s
<1>1. x[1] = "clients" /\ y[1] = "tidy"
  OBVIOUS
<1>2. \A k \in BindingKinds \union {"commit"} : Takes("generate", k)
  BY DEF Takes
<1>3. /\ "external" \in BindingKinds /\ "clients" \in BindingKinds /\ "tidy" \in BindingKinds
      /\ "compile" \in BindingKinds
  BY DEF BindingKinds
<1>4. Open(s, "generate", 15, 18) /\ Of(s) = {x, y}
  <2>. HIDE DEF x, y
  <2>1. Open(s, "generate", Rank(x[1]), Rank(y[1])) /\ Of(s) = {x, y}
    BY <1>1, <1>2, <1>3, OpenTwo, Ranks
  <2>. QED
    BY <1>1, <2>1, Ranks
<1>. HIDE DEF s
<1>5. Open(r, "generate", 13, 18) /\ Of(r) = Of(RewriteServer) \union Of(s)
  <2>1. Open(RewriteServer, "generate", 13, 13)
    BY <1>2, <1>3, Rewriting
  <2>2. 13 < 15 /\ 13 <= 15 /\ 13 <= 18
    OBVIOUS
  <2>. QED
    BY <1>4, <2>1, <2>2, OpenConcat
<1>6. /\ Closed(r \o Verified, "generate", 13, 19)
      /\ Of(r \o Verified) = Of(r) \union {<<"compile">>, <<"commit">>}
  <2>. HIDE DEF r
  <2>. QED
    BY <1>2, <1>3, <1>5, VerifiedLast
<1>7. Of(r \o Verified) \subseteq {<<"external">>, x, y, <<"compile">>, <<"commit">>}
  BY <1>2, <1>3, <1>4, <1>5, <1>6, Rewriting
<1>8. Kinds(r \o Verified) \subseteq {"external", "clients", "tidy", "compile", "commit"}
  <2>1. \A z \in {<<"external">>, x, y, <<"compile">>, <<"commit">>} :
          z[1] \in {"external", "clients", "tidy", "compile", "commit"}
    OBVIOUS
  <2>. DEFINE todo == r \o Verified
  <2>2. Of(todo) \subseteq {<<"external">>, x, y, <<"compile">>, <<"commit">>}
    BY <1>7
  <2>. HIDE DEF todo, x, y
  <2>3. Kinds(todo) \subseteq {"external", "clients", "tidy", "compile", "commit"}
    BY <2>1, <2>2, KindsOf
  <2>. QED
    BY <2>3 DEF todo
<1>. QED
  BY <1>6, <1>8 DEF s

LEMMA BindingsList ==
  ASSUME NEW bound, NEW ss, NEW wanted
  PROVE  LET todo == <<<<"require", bound>>>> \o RewriteServer
                       \o <<<<"implement", ss>>, <<"clients">>, <<"manifest">>>>
                       \o TidyIf(wanted) \o <<<<"commit">>>>
         IN /\ Closed(todo, "generate", 12, 18)
            /\ Kinds(todo) \subseteq {"require", "external", "implement", "clients", "manifest",
                                      "tidy", "commit"}
<1>. DEFINE w == <<"require", bound>>
            x == <<"implement", ss>>
            y == <<"clients">>
            z == <<"manifest">>
            a == <<w>> \o RewriteServer
            s == <<x, y, z>>
            b == a \o s
            c == b \o TidyIf(wanted)
            todo == c \o <<<<"commit">>>>
            all == {w, <<"external">>, x, y, z, <<"tidy">>, <<"commit">>}
<1>1. w[1] = "require" /\ x[1] = "implement" /\ y[1] = "clients" /\ z[1] = "manifest"
  OBVIOUS
<1>2. \A k \in BindingKinds \union {"commit"} : Takes("generate", k)
  BY DEF Takes
<1>3. {"require", "external", "implement", "clients", "manifest", "tidy"} \subseteq BindingKinds
  BY DEF BindingKinds
<1>4. Open(s, "generate", 14, 17) /\ Of(s) = {x, y, z}
  <2>. HIDE DEF x, y, z
  <2>1. Open(s, "generate", Rank(x[1]), Rank(z[1])) /\ Of(s) = {x, y, z}
    BY <1>1, <1>2, <1>3, OpenThree, Ranks
  <2>. QED
    BY <1>1, <2>1, Ranks
<1>5. Open(<<w>>, "generate", 12, 12) /\ Of(<<w>>) = {w}
  <2>. HIDE DEF w
  <2>1. Open(<<w>>, "generate", Rank(w[1]), Rank(w[1])) /\ Of(<<w>>) = {w}
    BY <1>1, <1>2, <1>3, OpenOne, Ranks
  <2>. QED
    BY <1>1, <2>1, Ranks
<1>6. \A u \in all : u[1] \in {"require", "external", "implement", "clients", "manifest",
                               "tidy", "commit"}
  OBVIOUS
<1>. HIDE DEF s
<1>7. Open(a, "generate", 12, 13) /\ Of(a) \subseteq {w, <<"external">>}
  <2>. DEFINE t == <<w>>
  <2>1. Open(RewriteServer, "generate", 13, 13) /\ Of(RewriteServer) \subseteq {<<"external">>}
    BY <1>2, <1>3, Rewriting
  <2>2. Open(t, "generate", 12, 12) /\ Of(t) = {w} /\ 12 < 13 /\ 12 <= 13
    BY <1>5
  <2>. HIDE DEF t
  <2>3. /\ Open(t \o RewriteServer, "generate", 12, 13)
        /\ Of(t \o RewriteServer) = Of(t) \union Of(RewriteServer)
    BY <2>1, <2>2, OpenConcat
  <2>. QED
    BY <2>1, <2>2, <2>3 DEF t
<1>. HIDE DEF a
<1>8. Open(b, "generate", 12, 17) /\ Of(b) = Of(a) \union Of(s)
  <2>1. 13 < 14 /\ 12 <= 14 /\ 13 <= 17
    OBVIOUS
  <2>. QED
    BY <1>4, <1>7, <2>1, OpenConcat
<1>. HIDE DEF b
<1>9. Open(c, "generate", 12, 18) /\ Of(c) \subseteq Of(b) \union {<<"tidy">>}
  <2>1. 12 <= 17 /\ 17 < 18 /\ Takes("generate", "tidy")
    BY <1>2, <1>3
  <2>. QED
    BY <1>8, <2>1, TidyLast
<1>. HIDE DEF c
<1>10. Closed(todo, "generate", 12, 18) /\ Of(todo) = Of(c) \union {<<"commit">>}
  <2>1. 12 <= 18 /\ Takes("generate", "commit")
    BY <1>2
  <2>. QED
    BY <1>9, <2>1, Closing
<1>. HIDE DEF todo
<1>11. Of(todo) \subseteq all
  BY <1>4, <1>7, <1>8, <1>9, <1>10
<1>. HIDE DEF all
<1>12. Kinds(todo) \subseteq {"require", "external", "implement", "clients", "manifest",
                              "tidy", "commit"}
  BY <1>6, <1>11, KindsOf
<1>. QED
  BY <1>10, <1>12 DEF todo, c, b, a, s

-------------------------------------------------------------------------------
(* What manifests the commands work on.                                    *)

ServerBinding == [handler : Handler, methods : SUBSET Method]
ClientBinding == [service : Service, methods : SUBSET Method]

(* What makes a manifest one of the type, and what one consists of.        *)
LEMMA InManifests ==
  ASSUME NEW ss \in SUBSET Service, NEW servers \in [ss -> ServerBinding],
         NEW cs \in SUBSET Client, NEW clients \in [cs -> ClientBinding]
  PROVE  [servers |-> servers, clients |-> clients] \in Manifests
BY DEF Manifests, ServerBinding, ClientBinding

LEMMA OfManifests ==
  ASSUME NEW m \in Manifests
  PROVE  /\ m = [servers |-> m.servers, clients |-> m.clients]
         /\ DOMAIN m.servers \in SUBSET Service /\ m.servers \in [DOMAIN m.servers -> ServerBinding]
         /\ DOMAIN m.clients \in SUBSET Client /\ m.clients \in [DOMAIN m.clients -> ClientBinding]
<1>1. /\ m = [servers |-> m.servers, clients |-> m.clients]
      /\ m.servers \in UNION {[ss -> ServerBinding] : ss \in SUBSET Service}
      /\ m.clients \in UNION {[cs -> ClientBinding] : cs \in SUBSET Client}
  BY DEF Manifests, ServerBinding, ClientBinding
<1>2. DOMAIN m.servers \in SUBSET Service /\ m.servers \in [DOMAIN m.servers -> ServerBinding]
  BY <1>1
<1>3. DOMAIN m.clients \in SUBSET Client /\ m.clients \in [DOMAIN m.clients -> ClientBinding]
  BY <1>1
<1>. QED
  BY <1>1, <1>2, <1>3

LEMMA NoBindingsGood ==
  ASSUME NEW grpc
  PROVE  GoodManifest(NoBindings, grpc)
<1>. DEFINE none == <<>>
<1>1. none \in [{} -> ServerBinding] /\ none \in [{} -> ClientBinding] /\ DOMAIN none = {}
  OBVIOUS
<1>. HIDE DEF none
<1>2. [servers |-> none, clients |-> none] \in Manifests
  BY <1>1, InManifests
<1>3. NoBindings = [servers |-> none, clients |-> none] /\ NoBindings.servers = none
      /\ NoBindings.servers = <<>>
  BY DEF NoBindings, none
<1>. QED
  BY <1>1, <1>2, <1>3 DEF GoodManifest, ValidManifest

(* What load returns, and every change the commands make to it, is good.   *)
LEMMA LoadedGood ==
  ASSUME SafetyInv, ManifestReadable
  PROVE  GoodManifest(LoadManifest, ServesGRPC)
<1>1. CASE tree[Manifest] = Absent
  BY <1>1, NoBindingsGood DEF LoadManifest
<1>2. CASE tree[Manifest] # Absent
  <2>1. Loadable(tree[Manifest], ServesGRPC) /\ tree[Manifest] # Torn /\ LoadManifest = tree[Manifest]
    BY <1>2 DEF SafetyInv, ManifestInv, ManifestReadable, LoadManifest
  <2>. QED
    BY <1>2, <2>1 DEF Loadable
<1>. QED
  BY <1>1, <1>2

LEMMA ResolvedGood ==
  ASSUME NEW m, NEW grpc, GoodManifest(m, grpc), published \in [Service -> SUBSET Method]
  PROVE  GoodManifest(Resolved(m), grpc)
<1>1. /\ DOMAIN m.servers \in SUBSET Service /\ m.servers \in [DOMAIN m.servers -> ServerBinding]
      /\ DOMAIN m.clients \in SUBSET Client /\ m.clients \in [DOMAIN m.clients -> ClientBinding]
  BY OfManifests DEF GoodManifest
<1>. DEFINE servers == [s \in DOMAIN m.servers |-> [m.servers[s] EXCEPT !.methods = published[s]]]
            clients == [c \in DOMAIN m.clients |->
                          [m.clients[c] EXCEPT !.methods = published[m.clients[c].service]]]
<1>2. servers \in [DOMAIN m.servers -> ServerBinding]
  BY <1>1 DEF ServerBinding
<1>3. clients \in [DOMAIN m.clients -> ClientBinding]
  BY <1>1 DEF ClientBinding
<1>4. DOMAIN servers = DOMAIN m.servers
      /\ \A s \in DOMAIN m.servers : servers[s].handler = m.servers[s].handler
  BY <1>1 DEF ServerBinding
<1>5. m.servers = <<>> => servers = <<>>
  OBVIOUS
<1>6. Resolved(m) = [servers |-> servers, clients |-> clients]
  BY DEF Resolved
<1>. HIDE DEF servers, clients
<1>7. Resolved(m).servers = servers /\ Resolved(m) \in Manifests
  BY <1>1, <1>2, <1>3, <1>6, InManifests
<1>. QED
  BY <1>4, <1>5, <1>7 DEF GoodManifest, ValidManifest

LEMMA ServerBoundGood ==
  ASSUME NEW m, NEW grpc, GoodManifest(m, grpc), grpc,
         NEW s \in Service, NEW h \in Handler, NEW ms \in SUBSET Method
  PROVE  LET next == [m EXCEPT !.servers = Bound(@, s, [handler |-> h, methods |-> ms])]
         IN /\ ValidManifest(next) => GoodManifest(next, grpc)
            /\ next.servers[s] = [handler |-> h, methods |-> ms]
<1>. DEFINE servers == Bound(m.servers, s, [handler |-> h, methods |-> ms])
            next == [m EXCEPT !.servers = Bound(@, s, [handler |-> h, methods |-> ms])]
<1>1. /\ m = [servers |-> m.servers, clients |-> m.clients]
      /\ DOMAIN m.servers \in SUBSET Service /\ m.servers \in [DOMAIN m.servers -> ServerBinding]
      /\ DOMAIN m.clients \in SUBSET Client /\ m.clients \in [DOMAIN m.clients -> ClientBinding]
  BY OfManifests DEF GoodManifest
<1>2. /\ DOMAIN m.servers \union {s} \in SUBSET Service
      /\ servers \in [DOMAIN m.servers \union {s} -> ServerBinding]
      /\ servers[s] = [handler |-> h, methods |-> ms]
  BY <1>1 DEF Bound, ServerBinding
<1>3. next = [servers |-> servers, clients |-> m.clients]
  BY <1>1
<1>. HIDE DEF servers, next
<1>4. next \in Manifests /\ next.servers = servers
  BY <1>1, <1>2, <1>3, InManifests
<1>5. ValidManifest(next) => GoodManifest(next, grpc)
  BY <1>4 DEF GoodManifest
<1>. QED
  BY <1>2, <1>4, <1>5 DEF next

LEMMA ServerUnboundGood ==
  ASSUME NEW m, NEW grpc, GoodManifest(m, grpc), grpc, NEW s
  PROVE  GoodManifest([m EXCEPT !.servers = Unbound(@, s)], grpc)
<1>. DEFINE servers == Unbound(m.servers, s)
            next == [m EXCEPT !.servers = Unbound(@, s)]
<1>1. /\ m = [servers |-> m.servers, clients |-> m.clients]
      /\ DOMAIN m.servers \in SUBSET Service /\ m.servers \in [DOMAIN m.servers -> ServerBinding]
      /\ DOMAIN m.clients \in SUBSET Client /\ m.clients \in [DOMAIN m.clients -> ClientBinding]
  BY OfManifests DEF GoodManifest
<1>2. /\ DOMAIN m.servers \ {s} \in SUBSET Service
      /\ servers \in [DOMAIN m.servers \ {s} -> ServerBinding]
      /\ \A t \in DOMAIN servers : t \in DOMAIN m.servers /\ servers[t] = m.servers[t]
  BY <1>1 DEF Unbound, ServerBinding
<1>3. next = [servers |-> servers, clients |-> m.clients]
  BY <1>1
<1>. HIDE DEF servers, next
<1>4. next \in Manifests /\ next.servers = servers
  BY <1>1, <1>2, <1>3, InManifests
<1>5. GoodManifest(next, grpc)
  BY <1>2, <1>4 DEF GoodManifest, ValidManifest
<1>. QED
  BY <1>5 DEF next

LEMMA ClientsGood ==
  ASSUME NEW m, NEW grpc, GoodManifest(m, grpc),
         NEW cs \in SUBSET Client, NEW clients \in [cs -> ClientBinding]
  PROVE  GoodManifest([m EXCEPT !.clients = clients], grpc)
<1>. DEFINE next == [m EXCEPT !.clients = clients]
<1>1. /\ m = [servers |-> m.servers, clients |-> m.clients]
      /\ DOMAIN m.servers \in SUBSET Service /\ m.servers \in [DOMAIN m.servers -> ServerBinding]
  BY OfManifests DEF GoodManifest
<1>2. next = [servers |-> m.servers, clients |-> clients]
  BY <1>1
<1>. HIDE DEF next
<1>3. next \in Manifests /\ next.servers = m.servers
  BY <1>1, <1>2, InManifests
<1>4. GoodManifest(next, grpc)
  BY <1>3 DEF GoodManifest, ValidManifest
<1>. QED
  BY <1>4 DEF next

-------------------------------------------------------------------------------
(* The steps of `jgo generate`.                                            *)

(* `jgo generate` has a snapshot of all its steps write.                   *)
LEMMA HeldByGenerate ==
  ASSUME NEW x, NEW m,
         x[1] \in Generators \union HTTPKinds \union PbKinds
                    \union {"require", "external", "implement", "clients", "manifest", "tidy",
                            "compile", "commit"}
  PROVE  Held(x, GeneratorState, "generate", m)
<1>1. /\ HTTPOutputs \subseteq GeneratorState /\ Generated \subseteq GeneratorState
      /\ ServiceFile \subseteq GeneratorState /\ ModuleFiles \subseteq GeneratorState
      /\ {RegisterGen, External, ClientsGen, Manifest} \subseteq GeneratorState
  BY DEF GeneratorState, HTTPOutputs, ModuleFiles
<1>. QED
  BY <1>1 DEF Held, Generators, HTTPKinds, PbKinds

(* Which generators are still to run.                                      *)
LEMMA GeneratorsAhead ==
  ASSUME SafetyInv, NEW step, IsNext(step), step[1] \in Generators
  PROVE  \A k \in Kinds(Tail(steps)) :
           k = "commit" \/ (k \in Generators /\ Rank(k) \in Nat /\ Rank(step[1]) < Rank(k))
<1>1. Plan(steps, command.name, Len(snapshots)) /\ steps # <<>> /\ Head(steps) = step
  BY DEF IsNext, SafetyInv, PlanInv
<1>2. Kinds(steps) \subseteq Generators \union {"commit"}
  BY <1>1, PlanGenerator
<1>3. Kinds(Tail(steps)) \subseteq Kinds(steps)
  BY <1>1, StubsFirst
<1>4. step[1] # "commit"
  BY DEF Generators
<1>5. \A k \in Kinds(Tail(steps)) : k = "commit" \/ Precedes(step[1], k)
  BY <1>4, AtStep
<1>. QED
  BY <1>2, <1>3, <1>5, Ranks DEF Precedes, Generators

LEMMA GenerateHTTPKeeps ==
  ASSUME FileInv, SafetyInv, GenerateHTTP, UNCHANGED published
  PROVE  SafetyInv'
<1>. DEFINE step == <<"http">>
<1>1. Enter(step, command.manifest, HTTPOutputs, HTTPSteps) /\ step[1] = "http" /\ IsNext(step)
  BY DEF GenerateHTTP, Enter
<1>. HIDE DEF step
<1>2. /\ Closed(HTTPSteps, "generate", 1, 3)
      /\ Of(HTTPSteps) = {<<"api">>, <<"routes">>, <<"sync">>, <<"commit">>}
  BY HTTPList
<1>3. \A x \in {<<"api">>, <<"routes">>, <<"sync">>, <<"commit">>} :
        x[1] \in {"api", "routes", "sync", "commit"}
  OBVIOUS
<1>4. Kinds(HTTPSteps) \subseteq {"api", "routes", "sync", "commit"}
  BY <1>2, <1>3, KindsOf
<1>5. /\ Kinds(HTTPSteps) \intersect Generators = {}
      /\ Kinds(HTTPSteps) \intersect BindingKinds = {}
  BY <1>4 DEF Generators, BindingKinds
<1>6. \A x \in Of(HTTPSteps) : Held(x, GeneratorState, "generate", command.manifest)
  BY <1>2, <1>3, HeldByGenerate DEF HTTPKinds
<1>7. Target \notin HTTPOutputs
  BY Places DEF HTTPOutputs
<1>8. step[1] \in Generators
  BY <1>1 DEF Generators
<1>9. \A k \in Kinds(Tail(steps)) : k = "commit" \/ (Rank(k) \in Nat /\ 3 < Rank(k))
  BY <1>1, <1>8, GeneratorsAhead, Ranks DEF Generators
<1>. QED
  BY <1>1, <1>2, <1>5, <1>6, <1>7, <1>8, <1>9, EnterKeeps

LEMMA GeneratePBKeeps ==
  ASSUME FileInv, SafetyInv, GeneratePB, UNCHANGED published
  PROVE  SafetyInv'
<1>. DEFINE step == <<"pb">>
            all == {<<"buf">>, <<"prune">>, <<"discover">>, <<"rpc-stubs">>, <<"verify">>,
                    <<"commit">>, <<"register">>}
<1>1. Enter(step, {}, PbOutputs, PbSteps) /\ step[1] = "pb" /\ IsNext(step)
  BY DEF GeneratePB, Enter
<1>2. \A x \in all : x[1] \in PbKinds \union {"commit"}
  BY DEF PbKinds
<1>. HIDE DEF step
<1>3. Closed(PbSteps, "generate", 5, 10) /\ Of(PbSteps) \subseteq all
  BY PbList
<1>. HIDE DEF all
<1>4. Kinds(PbSteps) \subseteq PbKinds \union {"commit"}
  BY <1>2, <1>3, KindsOf
<1>5. /\ Kinds(PbSteps) \intersect Generators = {}
      /\ Kinds(PbSteps) \intersect BindingKinds = {}
  BY <1>4 DEF Generators, BindingKinds, PbKinds
<1>6. \A x \in Of(PbSteps) : Held(x, GeneratorState, "generate", {})
  BY <1>2, <1>3, HeldByGenerate
<1>7. Target \notin PbOutputs
  BY Places DEF PbOutputs
<1>8. step[1] \in Generators
  BY <1>1 DEF Generators
<1>9. \A k \in Kinds(Tail(steps)) : k = "commit" \/ (Rank(k) \in Nat /\ 10 < Rank(k))
  BY <1>1, <1>8, GeneratorsAhead, Ranks DEF Generators
<1>. QED
  BY <1>1, <1>3, <1>5, <1>6, <1>7, <1>8, <1>9, EnterKeeps

LEMMA GenerateBindingsKeeps ==
  ASSUME FileInv, SafetyInv, GenerateBindings
  PROVE  SafetyInv'
<1>. DEFINE step == <<"rpc">>
            m == LoadManifest
            next == Resolved(m)
            stale == RewriteServer \o <<<<"clients">>, <<"tidy">>>> \o Verified
            staleFiles == ModuleFiles \union OutputFiles
            todo == <<<<"require", BoundServices(m)>>>> \o RewriteServer
                      \o <<<<"implement", DOMAIN m.servers>>, <<"clients">>, <<"manifest">>>>
                      \o TidyIf(~WorkspaceBound(m)) \o <<<<"commit">>>>
            files == ModuleFiles \union {Manifest} \union OutputFiles
                       \union HandlerFiles(next, DOMAIN m.servers)
            ahead == {"require", "external", "implement", "clients", "manifest", "tidy",
                      "compile", "commit"}
<1>1. /\ step[1] = "rpc" /\ UNCHANGED published /\ ManifestReadable
      /\ \/ Enter(step, m, staleFiles, stale)
         \/ Do(step, TRUE, Nothing, FALSE)
         \/ Enter(step, next, files, todo)
  BY DEF GenerateBindings
<1>2. GoodManifest(m, ServesGRPC) /\ GoodManifest(next, ServesGRPC)
  BY <1>1, LoadedGood, ResolvedGood DEF SafetyInv, ManifestInv
<1>3. Closed(stale, "generate", 13, 19) /\ Kinds(stale) \subseteq ahead
  BY StaleList
<1>4. Closed(todo, "generate", 12, 18) /\ Kinds(todo) \subseteq ahead
  <2>1. /\ Closed(todo, "generate", 12, 18)
        /\ Kinds(todo) \subseteq {"require", "external", "implement", "clients", "manifest",
                                  "tidy", "commit"}
    BY BindingsList
  <2>. QED
    BY <2>1
<1>5. Target \notin staleFiles
  <2>1. Target \notin ModuleFiles /\ Target \notin OutputFiles
    BY Places DEF ModuleFiles, OutputFiles
  <2>. QED
    BY <2>1
<1>6. Target \notin files
  <2>1. Target \notin ModuleFiles /\ Target \notin OutputFiles /\ Target # Manifest
    BY Places DEF ModuleFiles, OutputFiles
  <2>2. \A p \in HandlerFiles(next, DOMAIN m.servers) : p[1] \in {"handler", "stub"}
    BY Places DEF HandlerFiles
  <2>3. Target \notin HandlerFiles(next, DOMAIN m.servers)
    BY <2>2, Places
  <2>. QED
    BY <2>1, <2>3
<1>. HIDE DEF step, stale, todo, staleFiles, files, m, next
<1>7. ASSUME NEW s, Kinds(s) \subseteq ahead
      PROVE  /\ Kinds(s) \intersect Generators = {} /\ "prune" \notin Kinds(s)
             /\ \A n : \A x \in Of(s) : Held(x, GeneratorState, "generate", n)
  <2>1. \A x \in Of(s) : x[1] \in ahead
    BY <1>7, KindsOf
  <2>. QED
    BY <1>7, <2>1, HeldByGenerate DEF Generators
<1>8. ASSUME IsNext(step)
      PROVE  Kinds(Tail(steps)) \subseteq {"commit"}
  <2>1. step[1] \in Generators
    BY <1>1 DEF Generators
  <2>. QED
    BY <1>1, <1>8, <2>1, GeneratorsAhead, Ranks DEF Generators
<1>9. step[1] \in Generators /\ step[1] # "commit"
  BY <1>1 DEF Generators
<1>10. CASE Enter(step, m, staleFiles, stale)
  <2>1. IsNext(step)
    BY <1>10 DEF Enter
  <2>2. /\ Kinds(stale) \intersect Generators = {} /\ "prune" \notin Kinds(stale)
        /\ \A x \in Of(stale) : Held(x, GeneratorState, "generate", m)
    BY <1>3, <1>7
  <2>3. /\ Kinds(Tail(steps)) \subseteq {"commit"}
        /\ \A k \in Kinds(Tail(steps)) : k = "commit" \/ (Rank(k) \in Nat /\ 19 < Rank(k))
    BY <1>8, <2>1
  <2>. QED
    BY <1>1, <1>2, <1>3, <1>5, <1>9, <1>10, <2>2, <2>3, EnterKeeps
<1>11. CASE Enter(step, next, files, todo)
  <2>1. IsNext(step)
    BY <1>11 DEF Enter
  <2>2. /\ Kinds(todo) \intersect Generators = {} /\ "prune" \notin Kinds(todo)
        /\ \A x \in Of(todo) : Held(x, GeneratorState, "generate", next)
    BY <1>4, <1>7
  <2>3. /\ Kinds(Tail(steps)) \subseteq {"commit"}
        /\ \A k \in Kinds(Tail(steps)) : k = "commit" \/ (Rank(k) \in Nat /\ 18 < Rank(k))
    BY <1>8, <2>1
  <2>. QED
    BY <1>1, <1>2, <1>4, <1>6, <1>9, <1>11, <2>2, <2>3, EnterKeeps
<1>12. CASE Do(step, TRUE, Nothing, FALSE)
  <2>1. IsNext(step)
    BY <1>12 DEF Do
  <2>2. command.name # "new"
    BY <1>1, <2>1, AtStep DEF Takes, HTTPKinds, PbKinds, BindingKinds, Generators
  <2>. QED
    BY <1>1, <1>9, <1>12, <2>2, WriteNothingKeeps
<1>. QED
  BY <1>1, <1>10, <1>11, <1>12

LEMMA NestedKeeps == FileInv /\ SafetyInv /\ NestedGenerator => SafetyInv'
<1>. SUFFICES ASSUME FileInv, SafetyInv, NestedGenerator
              PROVE  SafetyInv'
  OBVIOUS
<1>1. \A k \in {"http", "pb", "rpc"} : <<k>>[1] = k
  OBVIOUS
<1>2. CASE GenerateHTTP /\ UNCHANGED published
  BY <1>2, GenerateHTTPKeeps
<1>3. CASE GeneratePB /\ UNCHANGED published
  BY <1>3, GeneratePBKeeps
<1>4. CASE GenerateBindings
  BY <1>4, GenerateBindingsKeeps
<1>5. ASSUME NEW k \in {"http", "pb", "rpc"}, MayFail(<<k>>), UNCHANGED published
      PROVE  SafetyInv'
  <2>1. <<k>>[1] # "commit"
    BY <1>1, <1>5
  <2>. QED
    BY <1>5, <2>1, MayFailKeeps
<1>6. CASE PrintFails /\ UNCHANGED published
  BY <1>6, MayFailKeeps DEF PrintFails
<1>. QED
  BY <1>2, <1>3, <1>4, <1>5, <1>6 DEF NestedGenerator, RefuseBindings

-------------------------------------------------------------------------------
(* How the commands start.                                                 *)

(* A command starts with a plan that ends with its commit.                 *)
LEMMA StartClosed ==
  ASSUME FileInv, SafetyInv, NEW name, NEW manifest, NEW todo, NEW ps, NEW lo, NEW hi, NEW of,
         Start(name, manifest, <<Saved(ps)>>, todo), UNCHANGED published,
         Closed(todo, name, lo, hi), Of(todo) \subseteq of,
         name \notin {"new", "generate"}, tree[Target] = "project", Target \notin ps,
         \A x \in of : Held(x, ps, name, manifest),
         \A o \in Operation : <<"http-stub", o>> \in of => tree[HttpStub(o)] = Absent,
         \/ \A x \in of : x[1] \notin BindingKinds
         \/ /\ \A x \in of : x[1] \notin Generators \union {"prune"}
            /\ GoodManifest(manifest, ServesGRPC)
  PROVE  SafetyInv'
<1>1. Len(<<Saved(ps)>>) = 1
  OBVIOUS
<1>2. Kinds(todo) \subseteq {x[1] : x \in of}
  BY KindsOf
<1>3. Plan(todo, name, 1)
  BY <1>2, ClosedPlan
<1>4. Kinds(todo) \intersect BindingKinds # {} => GoodManifest(manifest, ServesGRPC)
  BY <1>2
<1>. DEFINE taken == <<Saved(ps)>>
<1>5. Start(name, manifest, taken, todo) /\ Len(taken) = 1 /\ taken = <<Saved(ps)>>
  BY <1>1
<1>. HIDE DEF taken
<1>6. Plan(todo, name, Len(taken))
  BY <1>3, <1>5
<1>7. /\ \A o \in Operation : <<"http-stub", o>> \in Of(todo) => tree[HttpStub(o)] = Absent
      /\ \A x \in Of(todo) : Held(x, ps, name, manifest)
  OBVIOUS
<1>. QED
  BY <1>4, <1>5, <1>6, <1>7, StartKeeps

LEMMA StartNewKeeps == FileInv /\ SafetyInv /\ New /\ UNCHANGED published => SafetyInv'
<1>. SUFFICES ASSUME FileInv, SafetyInv, New, UNCHANGED published
              PROVE  SafetyInv'
  OBVIOUS
<1>. DEFINE x == <<"clear">>
            y == <<"publish">>
            s == <<y>> \o <<<<"commit">>>>
            wanted == tree[Target] = "empty"
            todo == Maybe(wanted, <<x>>) \o s
            taken == <<Saved({Target})>>
<1>1. Start("new", Nothing, taken, todo) /\ tree[Target] # "project"
  <2>1. <<y, <<"commit">>>> = s
    BY Two
  <2>2. Start("new", Nothing, taken, Maybe(wanted, <<x>>) \o <<y, <<"commit">>>>)
    BY DEF New, Maybe
  <2>3. tree[Target] # "project"
    BY ContentAssumption DEF New, Vacant
  <2>. QED
    BY <2>1, <2>2, <2>3
<1>2. Len(taken) = 1 /\ taken = <<Saved({Target})>>
  OBVIOUS
<1>3. x[1] = "clear" /\ y[1] = "publish"
  OBVIOUS
<1>4. /\ Takes("new", "clear") /\ Takes("new", "publish") /\ Takes("new", "commit")
      /\ Rank("clear") = 0 /\ Rank("publish") = 1
  BY Ranks DEF Takes
<1>. HIDE DEF taken, wanted
<1>5. Open(<<x>>, "new", 0, 0) /\ Of(<<x>>) = {x} /\ Open(<<y>>, "new", 1, 1) /\ Of(<<y>>) = {y}
  <2>. HIDE DEF x, y
  <2>1. Open(<<x>>, "new", 0, 0) /\ Of(<<x>>) = {x}
    BY <1>3, <1>4, OpenRank
  <2>2. Open(<<y>>, "new", 1, 1) /\ Of(<<y>>) = {y}
    BY <1>3, <1>4, OpenRank
  <2>. QED
    BY <2>1, <2>2
<1>6. Closed(s, "new", 1, 1) /\ Of(s) = {y} \union {<<"commit">>}
  <2>. DEFINE t == <<y>>
  <2>1. Open(t, "new", 1, 1) /\ Of(t) = {y} /\ 1 <= 1
    BY <1>5
  <2>. HIDE DEF t
  <2>2. /\ Closed(t \o <<<<"commit">>>>, "new", 1, 1)
        /\ Of(t \o <<<<"commit">>>>) = Of(t) \union {<<"commit">>}
    BY <1>4, <2>1, Closing
  <2>. QED
    BY <2>1, <2>2 DEF t
<1>. HIDE DEF s
<1>7. Open(Maybe(wanted, <<x>>), "new", 0, 0) /\ Of(Maybe(wanted, <<x>>)) \subseteq {x}
  BY <1>5, OpenNothing DEF Maybe
<1>8. /\ Closed(todo, "new", 0, 1)
      /\ Of(todo) = Of(Maybe(wanted, <<x>>)) \union Of(s)
  <2>. DEFINE t == Maybe(wanted, <<x>>)
  <2>1. Open(t, "new", 0, 0) /\ 0 < 1 /\ 0 <= 1
    BY <1>7
  <2>. HIDE DEF t
  <2>2. Closed(t \o s, "new", 0, 1) /\ Of(t \o s) = Of(t) \union Of(s)
    BY <1>6, <2>1, ClosedConcat
  <2>. QED
    BY <2>2 DEF t
<1>. HIDE DEF todo
<1>9. Of(todo) \subseteq {x, y, <<"commit">>}
  BY <1>6, <1>7, <1>8
<1>10. \A z \in Of(todo) : z[1] \in {"clear", "publish", "commit"}
  BY <1>9
<1>11. Kinds(todo) \subseteq {"clear", "publish", "commit"}
  BY <1>10, KindsOf
<1>12. Kinds(todo) \intersect BindingKinds = {}
  BY <1>11 DEF BindingKinds
<1>13. Plan(todo, "new", Len(taken))
  BY <1>2, <1>8, <1>12, ClosedPlan
<1>14. \A z \in Of(todo) : Held(z, {Target}, "new", Nothing)
  BY <1>10 DEF Held, HTTPKinds
<1>15. \A o \in Operation : <<"http-stub", o>> \notin Of(todo)
  <2>1. \A o : <<"http-stub", o>>[1] = "http-stub"
    OBVIOUS
  <2>. QED
    BY <1>10, <2>1
<1>. QED
  BY <1>1, <1>2, <1>12, <1>13, <1>14, <1>15, StartKeeps

LEMMA RunGeneratorsKeeps ==
  FileInv /\ SafetyInv /\ RunGenerators /\ UNCHANGED published => SafetyInv'
<1>. SUFFICES ASSUME FileInv, SafetyInv, RunGenerators, UNCHANGED published
              PROVE  SafetyInv'
  OBVIOUS
<1>. DEFINE g == "generate"
            x == <<"http">>
            y == <<"pb">>
            z == <<"rpc">>
            a == Maybe(HasWeb, <<x>>)
            b == a \o Maybe(HasGRPC, <<y>>)
            c == b \o Maybe(HasServer, <<z>>)
            todo == c \o <<<<"commit">>>>
            taken == <<Saved(GeneratorState)>>
            all == {x, y, z, <<"commit">>}
<1>1. Start(g, NoBindings, taken, todo) /\ tree[Target] = "project"
  BY DEF RunGenerators, Maybe
<1>2. Len(taken) = 1 /\ taken = <<Saved(GeneratorState)>>
  OBVIOUS
<1>3. /\ x[1] = "http" /\ y[1] = "pb" /\ z[1] = "rpc"
      /\ \A u \in all : u[1] \in Generators \union {"commit"}
  BY DEF Generators
<1>4. /\ Takes(g, "http") /\ Takes(g, "pb") /\ Takes(g, "rpc") /\ Takes(g, "commit")
      /\ Rank("http") = 0 /\ Rank("pb") = 4 /\ Rank("rpc") = 11
  BY Ranks DEF Takes, Generators
<1>. HIDE DEF taken
<1>5. /\ Open(<<x>>, g, 0, 0) /\ Of(<<x>>) = {x} /\ Open(<<y>>, g, 4, 4) /\ Of(<<y>>) = {y}
      /\ Open(<<z>>, g, 11, 11) /\ Of(<<z>>) = {z}
  <2>. HIDE DEF x, y, z
  <2>1. Open(<<x>>, g, 0, 0) /\ Of(<<x>>) = {x}
    BY <1>3, <1>4, OpenRank
  <2>2. Open(<<y>>, g, 4, 4) /\ Of(<<y>>) = {y}
    BY <1>3, <1>4, OpenRank
  <2>3. Open(<<z>>, g, 11, 11) /\ Of(<<z>>) = {z}
    BY <1>3, <1>4, OpenRank
  <2>. QED
    BY <2>1, <2>2, <2>3
<1>. HIDE DEF x, y, z, g
<1>6. Open(a, g, 0, 0) /\ Of(a) \subseteq {x}
  BY <1>5, OpenNothing DEF Maybe
<1>. HIDE DEF a
<1>7. Open(b, g, 0, 4) /\ Of(b) \subseteq {x, y}
  <2>. DEFINE t == <<y>>
              w == HasGRPC
  <2>1. Open(t, g, 4, 4) /\ Of(t) = {y} /\ 0 <= 0 /\ 0 < 4 /\ 4 <= 4 /\ b = a \o Maybe(w, t)
    BY <1>5
  <2>. HIDE DEF t, b, w
  <2>2. Open(b, g, 0, 4) /\ Of(b) = Of(a) \union (IF w THEN Of(t) ELSE {})
    BY <1>6, <2>1, MaybeMore
  <2>. QED
    BY <1>6, <2>1, <2>2
<1>. HIDE DEF b
<1>8. Open(c, g, 0, 11) /\ Of(c) \subseteq {x, y, z}
  <2>. DEFINE t == <<z>>
              w == HasServer
  <2>1. Open(t, g, 11, 11) /\ Of(t) = {z} /\ 0 <= 4 /\ 4 < 11 /\ 11 <= 11 /\ c = b \o Maybe(w, t)
    BY <1>5
  <2>. HIDE DEF t, c, w
  <2>2. Open(c, g, 0, 11) /\ Of(c) = Of(b) \union (IF w THEN Of(t) ELSE {})
    BY <1>7, <2>1, MaybeMore
  <2>. QED
    BY <1>7, <2>1, <2>2
<1>. HIDE DEF c
<1>9. Closed(todo, g, 0, 11) /\ Of(todo) \subseteq all
  <2>1. /\ Closed(c \o <<<<"commit">>>>, g, 0, 11)
        /\ Of(c \o <<<<"commit">>>>) = Of(c) \union {<<"commit">>}
    BY <1>4, <1>8, Closing
  <2>. QED
    BY <1>8, <2>1
<1>. HIDE DEF todo
<1>10. \A u \in Of(todo) : u[1] \in Generators \union {"commit"}
  BY <1>3, <1>9
<1>. HIDE DEF all
<1>11. Kinds(todo) \subseteq Generators \union {"commit"}
  BY <1>10, KindsOf
<1>12. Kinds(todo) \intersect BindingKinds = {}
  BY <1>11 DEF BindingKinds, Generators
<1>13. Plan(todo, g, Len(taken))
  BY <1>2, <1>9, <1>11, <1>12, ClosedPlan
<1>14. \A u \in Of(todo) : Held(u, GeneratorState, g, NoBindings)
  BY <1>10, HeldByGenerate DEF g
<1>15. \A o \in Operation : <<"http-stub", o>> \notin Of(todo)
  <2>1. \A o : <<"http-stub", o>>[1] = "http-stub"
    OBVIOUS
  <2>. QED
    BY <1>10, <2>1 DEF Generators
<1>16. Target \notin GeneratorState
  <2>1. ServiceFile \subseteq Owned
    BY DEF Owned
  <2>. QED
    BY <2>1, Places DEF GeneratorState
<1>. QED
  BY <1>1, <1>2, <1>12, <1>13, <1>14, <1>15, <1>16, StartKeeps DEF g

LEMMA APIGenerateKeeps ==
  FileInv /\ SafetyInv /\ APIGenerate /\ UNCHANGED published => SafetyInv'
<1>. SUFFICES ASSUME FileInv, SafetyInv, APIGenerate, UNCHANGED published
              PROVE  SafetyInv'
  OBVIOUS
<1>. DEFINE of == {<<"api">>, <<"routes">>, <<"sync">>, <<"commit">>}
<1>1. \A x \in of : x[1] \in {"api", "routes", "sync", "commit"}
  OBVIOUS
<1>2. Closed(HTTPSteps, "api-generate", 1, 3) /\ Of(HTTPSteps) \subseteq of
  BY HTTPList
<1>. HIDE DEF of
<1>3. /\ Start("api-generate", Nothing, <<Saved(HTTPOutputs)>>, HTTPSteps)
      /\ tree[Target] = "project" /\ Target \notin HTTPOutputs
  BY Places DEF APIGenerate, HTTPOutputs
<1>4. \A x \in of : Held(x, HTTPOutputs, "api-generate", Nothing)
  BY <1>1 DEF Held
<1>5. \A o \in Operation : <<"http-stub", o>> \notin of
  <2>1. \A o : <<"http-stub", o>>[1] = "http-stub"
    OBVIOUS
  <2>. QED
    BY <1>1, <2>1
<1>6. \A x \in of : x[1] \notin BindingKinds
  BY <1>1 DEF BindingKinds
<1>. QED
  BY <1>2, <1>3, <1>4, <1>5, <1>6, StartClosed

LEMMA PBGenerateKeeps ==
  FileInv /\ SafetyInv /\ PBGenerate /\ UNCHANGED published => SafetyInv'
<1>. SUFFICES ASSUME FileInv, SafetyInv, PBGenerate, UNCHANGED published
              PROVE  SafetyInv'
  OBVIOUS
<1>. DEFINE of == {<<"buf">>, <<"prune">>, <<"discover">>, <<"rpc-stubs">>, <<"verify">>, <<"commit">>}
                    \union (IF HasServer THEN {<<"register">>} ELSE {})
<1>1. /\ \A x \in of : x[1] \in PbKinds \union {"commit"}
      /\ \A x \in of : x[1] = "register" => HasServer
  BY DEF PbKinds
<1>2. Closed(PbSteps, "pb-generate", 5, 10) /\ Of(PbSteps) \subseteq of
  BY PbList
<1>. HIDE DEF of
<1>3. /\ Start("pb-generate", {}, <<Saved(PbOutputs)>>, PbSteps)
      /\ tree[Target] = "project" /\ Target \notin PbOutputs
  BY Places DEF PBGenerate, PbOutputs
<1>4. \A x \in of : Held(x, PbOutputs, "pb-generate", {})
  <2>1. Generated \subseteq PbOutputs /\ (HasServer => RegisterGen \in PbOutputs)
    BY DEF PbOutputs
  <2>. QED
    BY <1>1, <2>1 DEF Held, PbKinds, HTTPKinds
<1>5. \A o \in Operation : <<"http-stub", o>> \notin of
  <2>1. \A o : <<"http-stub", o>>[1] = "http-stub"
    OBVIOUS
  <2>. QED
    BY <1>1, <2>1 DEF PbKinds
<1>6. \A x \in of : x[1] \notin BindingKinds
  BY <1>1 DEF BindingKinds, PbKinds
<1>. QED
  BY <1>2, <1>3, <1>4, <1>5, <1>6, StartClosed

LEMMA AddOperationKeeps ==
  ASSUME FileInv, SafetyInv, NEW o \in Operation, AddOperation(o), UNCHANGED published
  PROVE  SafetyInv'
<1>. DEFINE n == "api-add"
            x == <<"http-stub", o>>
            y == <<"contract">>
            s == <<x, y>>
            todo == s \o <<<<"commit">>>>
            of == {x, y, <<"commit">>}
            ps == {HttpStub(o)}
<1>1. Start(n, o, <<Saved(ps)>>, todo)
  <2>1. <<x, y, <<"commit">>>> = todo
    <3>. DEFINE z == <<"commit">>
    <3>1. todo = <<x, y>> \o <<z>>
      OBVIOUS
    <3>. HIDE DEF x, y, z, todo
    <3>2. <<x, y, z>> = todo
      BY <3>1, Three
    <3>. QED
      BY <3>2 DEF z
  <2>2. Start(n, o, <<Saved(ps)>>, <<x, y, <<"commit">>>>)
    BY DEF AddOperation
  <2>. QED
    BY <2>1, <2>2
<1>2. /\ x[1] = "http-stub" /\ x[2] = o /\ y[1] = "contract"
      /\ \A z \in of : z[1] \in {"http-stub", "contract", "commit"}
      /\ \A z \in of : z[1] = "http-stub" => z = x
  OBVIOUS
<1>3. \A q : <<"http-stub", q>>[1] = "http-stub" /\ <<"http-stub", q>>[2] = q
  OBVIOUS
<1>4. tree[Target] = "project" /\ tree[HttpStub(o)] = Absent /\ Target \notin ps
  BY Places DEF AddOperation, Unimplemented
<1>5. /\ Takes(n, "http-stub") /\ Takes(n, "contract") /\ Takes(n, "commit")
      /\ Rank("http-stub") = 0 /\ Rank("contract") = 1
  BY Ranks DEF Takes
<1>6. Open(s, n, 0, 1) /\ Of(s) = {x, y}
  <2>. HIDE DEF x, y, n
  <2>1. Open(s, n, Rank(x[1]), Rank(y[1])) /\ Of(s) = {x, y}
    BY <1>2, <1>5, OpenTwo
  <2>. QED
    BY <1>2, <1>5, <2>1
<1>. HIDE DEF s
<1>7. Closed(todo, n, 0, 1) /\ Of(todo) = {x, y} \union {<<"commit">>}
  BY <1>5, <1>6, Closing
<1>. HIDE DEF todo
<1>8. Of(todo) \subseteq of
  BY <1>7
<1>9. \A z \in of : Held(z, ps, n, o)
  BY <1>2 DEF Held, HTTPKinds
<1>10. \A q \in Operation : <<"http-stub", q>> \in of => tree[HttpStub(q)] = Absent
  <2>1. \A q \in Operation : <<"http-stub", q>> \in of => q = o
    BY <1>2, <1>3
  <2>. QED
    BY <1>4, <2>1
<1>11. \A z \in of : z[1] \notin BindingKinds
  BY <1>2 DEF BindingKinds
<1>12. n \notin {"new", "generate"}
  OBVIOUS
<1>. HIDE DEF of, n, ps, x, y
<1>. QED
  BY <1>1, <1>4, <1>7, <1>8, <1>9, <1>10, <1>11, <1>12, StartClosed

LEMMA AddToProtoKeeps ==
  ASSUME FileInv, SafetyInv, NEW f, AddService(f) \/ AddMethod(f), UNCHANGED published
  PROVE  SafetyInv'
<1>. DEFINE x == <<"proto", f>>
            todo == <<x>>
            taken == <<>>
<1>1. tree[Target] = "project" /\ taken = <<>> /\ Len(taken) = 0
  BY DEF AddService, AddMethod
<1>2. PICK name \in {"pb-service-add", "pb-method-add"}, manifest \in {"service", "rpc"} :
        Start(name, manifest, taken, todo)
  BY DEF AddService, AddMethod
<1>3. x[1] = "proto"
  OBVIOUS
<1>. HIDE DEF taken, x
<1>4. todo \in Seq({x}) /\ Len(todo) = 1 /\ todo[1] = x
  OBVIOUS
<1>. HIDE DEF todo
<1>5. Len(todo) \in Nat /\ \A i \in 1..Len(todo) : i = 1 /\ todo[i] = x
  BY <1>4
<1>6. Kinds(todo) \subseteq {"proto"} /\ Of(todo) \subseteq {x}
  BY <1>3, <1>5 DEF Kinds, Of
<1>7. Takes(name, "proto") /\ name \notin {"new", "generate"}
  BY DEF Takes
<1>8. Plan(todo, name, 0)
  <2>1. CommitsMatch(todo, name, 0)
    BY <1>3, <1>5 DEF CommitsMatch
  <2>2. \A i, j \in 1..Len(todo) : ~(i < j)
    BY <1>5
  <2>3. Kinds(todo) \intersect BindingKinds = {}
    BY <1>6 DEF BindingKinds
  <2>. QED
    BY <1>3, <1>4, <1>5, <1>7, <2>1, <2>2, <2>3 DEF Plan
<1>9. Kinds(todo) \intersect BindingKinds = {}
  BY <1>6 DEF BindingKinds
<1>10. \A z \in Of(todo) : Held(z, {}, name, manifest)
  BY <1>3, <1>6 DEF Held, HTTPKinds
<1>11. \A o \in Operation : <<"http-stub", o>> \notin Of(todo)
  <2>1. \A o : <<"http-stub", o>>[1] = "http-stub"
    OBVIOUS
  <2>. QED
    BY <1>3, <1>6, <2>1
<1>. QED
  BY <1>1, <1>2, <1>7, <1>8, <1>9, <1>10, <1>11, StartKeeps

LEMMA BindList ==
  ASSUME NEW s, NEW wanted, NEW name, NEW lo \in Nat, NEW mid \in Nat,
         name \in {"server-bind", "server-unbind", "client-bind", "client-unbind"},
         Open(s, name, lo, mid), lo <= mid, mid < 18
  PROVE  LET todo == s \o TidyIf(wanted) \o Verified
         IN /\ Closed(todo, name, lo, 19)
            /\ Of(todo) \subseteq Of(s) \union {<<"tidy">>, <<"compile">>, <<"commit">>}
<1>. DEFINE t == s \o TidyIf(wanted)
<1>1. Takes(name, "tidy") /\ Takes(name, "compile") /\ Takes(name, "commit")
  BY DEF Takes, BindingKinds
<1>2. Open(t, name, lo, 18) /\ Of(t) \subseteq Of(s) \union {<<"tidy">>}
  BY <1>1, TidyLast
<1>. HIDE DEF t
<1>3. lo <= 18 /\ 18 < 19
  OBVIOUS
<1>4. Closed(t \o Verified, name, lo, 19) /\ Of(t \o Verified) = Of(t) \union {<<"compile">>, <<"commit">>}
  BY <1>1, <1>2, <1>3, VerifiedLast
<1>. QED
  BY <1>2, <1>4 DEF t

(* A bind or unbind command whose steps do what is its own.                *)
LEMMA StartBindKeeps ==
  ASSUME FileInv, SafetyInv, NEW name, NEW next, NEW ps, NEW s, NEW wanted,
         NEW lo \in Nat, NEW mid \in Nat,
         Start(name, next, <<Saved(ps)>>, s \o TidyIf(wanted) \o Verified), UNCHANGED published,
         name \in {"server-bind", "server-unbind", "client-bind", "client-unbind"},
         Open(s, name, lo, mid), lo <= mid, mid < 18,
         tree[Target] = "project", Target \notin ps, ModuleFiles \subseteq ps,
         GoodManifest(next, ServesGRPC),
         \A x \in Of(s) : x[1] \in BindingKinds /\ Held(x, ps, name, next)
  PROVE  SafetyInv'
<1>. DEFINE todo == s \o TidyIf(wanted) \o Verified
            of == Of(s) \union {<<"tidy">>, <<"compile">>, <<"commit">>}
<1>1. Closed(todo, name, lo, 19) /\ Of(todo) \subseteq of
  BY BindList
<1>2. Start(name, next, <<Saved(ps)>>, todo)
  OBVIOUS
<1>. HIDE DEF todo
<1>3. \A x \in {<<"tidy">>, <<"compile">>, <<"commit">>} :
        x[1] \in {"tidy", "compile", "commit"}
  OBVIOUS
<1>4. \A x \in of : x[1] \in BindingKinds \union {"commit"} /\ Held(x, ps, name, next)
  <2>1. \A x \in {<<"tidy">>, <<"compile">>, <<"commit">>} :
          x[1] \in BindingKinds \union {"commit"} /\ Held(x, ps, name, next)
    BY <1>3 DEF Held, BindingKinds, HTTPKinds
  <2>. QED
    BY <2>1
<1>. HIDE DEF of
<1>5. \A o \in Operation : <<"http-stub", o>> \notin of
  <2>1. \A o : <<"http-stub", o>>[1] = "http-stub"
    OBVIOUS
  <2>. QED
    BY <1>4, <2>1 DEF BindingKinds
<1>6. \A x \in of : x[1] \notin Generators \union {"prune"}
  BY <1>4 DEF BindingKinds, Generators
<1>. QED
  BY <1>1, <1>2, <1>4, <1>5, <1>6, StartClosed

(* Where a server is bound, its handler and its methods are looked at.     *)
LEMMA ServerBindList ==
  ASSUME NEW a, NEW b, NEW c, NEW d, NEW e,
         a[1] = "require", b[1] = "external", c[1] = "handler", d[1] = "stubs", e[1] = "manifest"
  PROVE  /\ Open(<<a, b, c, d, e>>, "server-bind", 12, 17)
         /\ Of(<<a, b, c, d, e>>) = {a, b, c, d, e}
<1>. DEFINE s == <<a, b, c, d, e>>
            name == "server-bind"
<1>1. /\ s \in Seq({a, b, c, d, e}) /\ Len(s) = 5
      /\ s[1] = a /\ s[2] = b /\ s[3] = c /\ s[4] = d /\ s[5] = e
  OBVIOUS
<1>. HIDE DEF s
<1>2. \A i \in 1..Len(s) : i \in {1, 2, 3, 4, 5}
  BY <1>1
<1>3. {1, 2, 3, 4, 5} \subseteq 1..Len(s)
  BY <1>1
<1>4. /\ Rank(s[1][1]) = 12 /\ Rank(s[2][1]) = 13 /\ Rank(s[3][1]) = 14
      /\ Rank(s[4][1]) = 14 /\ Rank(s[5][1]) = 17
  BY <1>1, Ranks
<1>5. \A i \in 1..Len(s) :
        s[i][1] \in {"require", "external", "handler", "stubs", "manifest"}
  BY <1>1, <1>2
<1>6. \A i \in 1..Len(s) : Takes(name, s[i][1]) /\ s[i][1] # "commit"
  BY <1>5 DEF Takes, BindingKinds
<1>7. \A i \in 1..Len(s) : Rank(s[i][1]) \in 12..17
  BY <1>2, <1>4
<1>8. ASSUME NEW i \in 1..Len(s), NEW j \in 1..Len(s), i < j
      PROVE  Precedes(s[i][1], s[j][1])
  <2>1. i \in {1, 2, 3, 4, 5} /\ j \in {1, 2, 3, 4, 5}
    BY <1>2
  <2>. QED
    BY <1>4, <1>8, <2>1 DEF Precedes
<1>9. Part(s, name, 12, 17)
  BY <1>1, <1>6, <1>7, <1>8 DEF Part
<1>10. Open(s, name, 12, 17)
  BY <1>6, <1>9 DEF Open, Kinds
<1>11. Of(s) = {a, b, c, d, e}
  BY <1>1, <1>2, <1>3 DEF Of
<1>. QED
  BY <1>10, <1>11 DEF s

LEMMA BindServerKeeps ==
  ASSUME FileInv, SafetyInv, NEW s \in Service, NEW h \in Handler, BindServer(s, h)
  PROVE  SafetyInv'
<1>. DEFINE m == LoadManifest
            next == [m EXCEPT !.servers = Bound(@, s, [handler |-> h, methods |-> published[s]])]
            files == ModuleFiles \union {Manifest, External} \union HandlerFiles(next, {s})
            a == <<"require", {s}>>
            b == <<"external">>
            c == <<"handler", s>>
            d == <<"stubs", s>>
            e == <<"manifest">>
            w == s \in Versioned
<1>1. /\ CanBind /\ ServesGRPC /\ ValidManifest(next) /\ UNCHANGED published
      /\ Start("server-bind", next, <<Saved(files)>>, <<a, b, c, d, e>> \o TidyIf(w) \o Verified)
  BY DEF BindServer
<1>2. /\ a[1] = "require" /\ b[1] = "external" /\ c[1] = "handler" /\ d[1] = "stubs"
      /\ e[1] = "manifest" /\ c[2] = s /\ d[2] = s
  OBVIOUS
<1>. DEFINE list == <<a, b, c, d, e>>
<1>3. Open(list, "server-bind", 12, 17) /\ Of(list) = {a, b, c, d, e}
  <2>. HIDE DEF a, b, c, d, e
  <2>. QED
    BY <1>2, ServerBindList
<1>4. GoodManifest(next, ServesGRPC)
  <2>1. GoodManifest(m, ServesGRPC) /\ published[s] \in SUBSET Method
    BY <1>1, LoadedGood DEF CanBind, SafetyInv, ManifestInv
  <2>. DEFINE ms == published[s]
              bound == [m EXCEPT !.servers = Bound(@, s, [handler |-> h, methods |-> ms])]
  <2>2. ms \in SUBSET Method
    BY <2>1
  <2>3. next = bound
    OBVIOUS
  <2>. HIDE DEF m, ms, next
  <2>4. ValidManifest(bound) => GoodManifest(bound, ServesGRPC)
    BY <1>1, <2>1, <2>2, ServerBoundGood
  <2>. HIDE DEF bound
  <2>. QED
    BY <1>1, <2>3, <2>4
<1>5. /\ ModuleFiles \subseteq files /\ Manifest \in files /\ External \in files
      /\ HandlerFiles(next, {s}) \subseteq files
  OBVIOUS
<1>6. Target \notin files
  <2>1. \A p \in HandlerFiles(next, {s}) : p[1] \in {"handler", "stub"}
    BY Places DEF HandlerFiles
  <2>2. Target \notin HandlerFiles(next, {s})
    BY <2>1, Places
  <2>. QED
    BY <2>2, Places DEF ModuleFiles
<1>7. tree[Target] = "project"
  BY <1>1 DEF CanBind
<1>. HIDE DEF files, next, w, a, b, c, d, e
<1>8. \A x \in {a, b, c, d, e} : x[1] \in BindingKinds /\ Held(x, files, "server-bind", next)
  BY <1>2, <1>5 DEF Held, BindingKinds, HTTPKinds
<1>. HIDE DEF list
<1>9. Start("server-bind", next, <<Saved(files)>>, list \o TidyIf(w) \o Verified)
  BY <1>1 DEF list
<1>10. /\ \A x \in Of(list) : x[1] \in BindingKinds /\ Held(x, files, "server-bind", next)
       /\ 12 <= 17 /\ 17 < 18
  BY <1>3, <1>8
<1>. DEFINE n == "server-bind"
<1>11. n \in {"server-bind", "server-unbind", "client-bind", "client-unbind"}
  OBVIOUS
<1>. HIDE DEF m, n
<1>. QED
  BY <1>1, <1>3, <1>4, <1>5, <1>6, <1>7, <1>9, <1>10, <1>11, StartBindKeeps DEF n

LEMMA UnbindServerKeeps ==
  ASSUME FileInv, SafetyInv, NEW s \in Service, UnbindServer(s)
  PROVE  SafetyInv'
<1>. DEFINE m == LoadManifest
            next == [m EXCEPT !.servers = Unbound(@, s)]
            files == ModuleFiles \union {Manifest, External}
            a == <<"external">>
            b == <<"manifest">>
            list == <<a, b>>
            w == s \in Versioned
            n == "server-unbind"
<1>1. /\ CanBind /\ ServesGRPC /\ UNCHANGED published
      /\ Start(n, next, <<Saved(files)>>, list \o TidyIf(w) \o Verified)
  BY DEF UnbindServer
<1>2. a[1] = "external" /\ b[1] = "manifest"
  OBVIOUS
<1>3. Open(list, n, 13, 17) /\ Of(list) = {a, b}
  <2>1. Takes(n, "external") /\ Takes(n, "manifest")
    BY DEF Takes, BindingKinds
  <2>. HIDE DEF a, b, n
  <2>2. Open(list, n, Rank(a[1]), Rank(b[1])) /\ Of(list) = {a, b}
    BY <1>2, <2>1, OpenTwo, Ranks
  <2>. QED
    BY <1>2, <2>2, Ranks
<1>4. GoodManifest(next, ServesGRPC)
  <2>1. GoodManifest(m, ServesGRPC)
    BY <1>1, LoadedGood DEF CanBind
  <2>. HIDE DEF m
  <2>. QED
    BY <1>1, <2>1, ServerUnboundGood
<1>5. ModuleFiles \subseteq files /\ Manifest \in files /\ External \in files
  OBVIOUS
<1>6. Target \notin files /\ tree[Target] = "project"
  BY <1>1, Places DEF ModuleFiles, CanBind
<1>. HIDE DEF files, next, w, a, b
<1>7. \A x \in {a, b} : x[1] \in BindingKinds /\ Held(x, files, n, next)
  BY <1>2, <1>5 DEF Held, BindingKinds, HTTPKinds
<1>8. n \in {"server-bind", "server-unbind", "client-bind", "client-unbind"}
  OBVIOUS
<1>. HIDE DEF list, n, m
<1>9. /\ \A x \in Of(list) : x[1] \in BindingKinds /\ Held(x, files, n, next)
      /\ 13 <= 17 /\ 17 < 18
  BY <1>3, <1>7
<1>. QED
  BY <1>1, <1>3, <1>4, <1>5, <1>6, <1>8, <1>9, StartBindKeeps

LEMMA BindClientKeeps ==
  ASSUME FileInv, SafetyInv, NEW c \in Client, NEW s \in Service, BindClient(c, s)
  PROVE  SafetyInv'
<1>. DEFINE m == LoadManifest
            replaced == c \in DOMAIN m.clients
            clients == Bound(m.clients, c, [service |-> s, methods |-> published[s]])
            next == [m EXCEPT !.clients = clients]
            files == ModuleFiles \union {Manifest, LocalConfig, ClientsGen}
            x == <<"require", {s}>>
            y == <<"clients">>
            z == <<"add-config", c>>
            u == <<"manifest">>
            w == s \in Versioned
            wanted == ~replaced
            a == <<x, y>>
            b == a \o Maybe(wanted, <<z>>)
            list == b \o <<u>>
            n == "client-bind"
<1>1. /\ CanBind /\ UNCHANGED published
      /\ Start(n, next, <<Saved(files)>>, list \o TidyIf(w) \o Verified)
  <2>1. Maybe(wanted, <<z>>) = IF replaced THEN <<>> ELSE <<z>>
    BY DEF Maybe
  <2>. HIDE DEF n, files, x, y, z, u, w
  <2>2. /\ CanBind /\ UNCHANGED published
        /\ Start(n, next, <<Saved(files)>>,
                 <<x, y>> \o (IF replaced THEN <<>> ELSE <<z>>) \o <<u>> \o TidyIf(w) \o Verified)
    BY DEF BindClient, n, files, x, y, z, u, w
  <2>. QED
    BY <2>1, <2>2
<1>2. x[1] = "require" /\ y[1] = "clients" /\ z[1] = "add-config" /\ u[1] = "manifest"
  OBVIOUS
<1>3. /\ Takes(n, "require") /\ Takes(n, "clients") /\ Takes(n, "add-config") /\ Takes(n, "manifest")
      /\ Rank("require") = 12 /\ Rank("clients") = 15 /\ Rank("add-config") = 16
      /\ Rank("manifest") = 17
  BY Ranks DEF Takes, BindingKinds
<1>4. n \in {"server-bind", "server-unbind", "client-bind", "client-unbind"}
  OBVIOUS
<1>5. GoodManifest(next, ServesGRPC)
  <2>1. GoodManifest(m, ServesGRPC) /\ published[s] \in SUBSET Method
    BY <1>1, LoadedGood DEF CanBind, SafetyInv, ManifestInv
  <2>. HIDE DEF m
  <2>2. DOMAIN m.clients \in SUBSET Client /\ m.clients \in [DOMAIN m.clients -> ClientBinding]
    BY <2>1, OfManifests DEF GoodManifest
  <2>3. /\ DOMAIN m.clients \union {c} \in SUBSET Client
        /\ clients \in [DOMAIN m.clients \union {c} -> ClientBinding]
    BY <2>1, <2>2 DEF Bound, ClientBinding
  <2>. HIDE DEF clients
  <2>. QED
    BY <2>1, <2>3, ClientsGood
<1>6. ModuleFiles \subseteq files /\ {Manifest, LocalConfig, ClientsGen} \subseteq files
  OBVIOUS
<1>7. Target \notin files /\ tree[Target] = "project"
  BY <1>1, Places DEF ModuleFiles, CanBind
<1>. HIDE DEF files, next, w, x, y, z, u, n, wanted
<1>8. Open(a, n, 12, 15) /\ Of(a) = {x, y}
  <2>1. Open(a, n, Rank(x[1]), Rank(y[1])) /\ Of(a) = {x, y}
    BY <1>2, <1>3, OpenTwo
  <2>. QED
    BY <1>2, <1>3, <2>1
<1>. HIDE DEF a
<1>9. Open(b, n, 12, 16) /\ Of(b) \subseteq {x, y, z}
  <2>. DEFINE t == <<z>>
  <2>1. Open(t, n, 16, 16) /\ Of(t) = {z}
    BY <1>2, <1>3, OpenRank
  <2>2. 12 <= 15 /\ 15 < 16 /\ 16 <= 16 /\ b = a \o Maybe(wanted, t)
    OBVIOUS
  <2>. HIDE DEF t, b
  <2>3. Open(b, n, 12, 16) /\ Of(b) = Of(a) \union (IF wanted THEN Of(t) ELSE {})
    BY <1>8, <2>1, <2>2, MaybeMore
  <2>. QED
    BY <1>8, <2>1, <2>3
<1>. HIDE DEF b
<1>10. Open(list, n, 12, 17) /\ Of(list) \subseteq {x, y, z, u}
  <2>. DEFINE t == <<u>>
  <2>1. Open(t, n, 17, 17) /\ Of(t) = {u}
    BY <1>2, <1>3, OpenRank
  <2>2. 16 < 17 /\ 12 <= 17 /\ 16 <= 17 /\ list = b \o t
    OBVIOUS
  <2>. HIDE DEF t, list
  <2>3. Open(list, n, 12, 17) /\ Of(list) = Of(b) \union Of(t)
    BY <1>9, <2>1, <2>2, OpenConcat
  <2>. QED
    BY <1>9, <2>1, <2>3
<1>. HIDE DEF list
<1>11. \A v \in {x, y, z, u} : v[1] \in BindingKinds /\ Held(v, files, n, next)
  BY <1>2, <1>6 DEF Held, BindingKinds, HTTPKinds
<1>. HIDE DEF m
<1>12. /\ \A v \in Of(list) : v[1] \in BindingKinds /\ Held(v, files, n, next)
       /\ 12 <= 17 /\ 17 < 18
  BY <1>10, <1>11
<1>. QED
  BY <1>1, <1>4, <1>5, <1>6, <1>7, <1>10, <1>12, StartBindKeeps

LEMMA UnbindClientKeeps ==
  ASSUME FileInv, SafetyInv, NEW c \in Client, UnbindClient(c)
  PROVE  SafetyInv'
<1>. DEFINE m == LoadManifest
            clients == Unbound(m.clients, c)
            next == [m EXCEPT !.clients = clients]
            files == ModuleFiles \union {Manifest, LocalConfig, ClientsGen}
            x == <<"clients">>
            y == <<"remove-config", c>>
            z == <<"manifest">>
            w == m.clients[c].service \in Versioned /\ ~WorkspaceBound(next)
            list == <<x, y, z>>
            n == "client-unbind"
<1>1. /\ CanBind /\ UNCHANGED published
      /\ Start(n, next, <<Saved(files)>>, list \o TidyIf(w) \o Verified)
  BY DEF UnbindClient
<1>2. x[1] = "clients" /\ y[1] = "remove-config" /\ z[1] = "manifest"
  OBVIOUS
<1>3. /\ Takes(n, "clients") /\ Takes(n, "remove-config") /\ Takes(n, "manifest")
      /\ Rank("clients") = 15 /\ Rank("remove-config") = 16 /\ Rank("manifest") = 17
  BY Ranks DEF Takes, BindingKinds
<1>4. n \in {"server-bind", "server-unbind", "client-bind", "client-unbind"}
  OBVIOUS
<1>5. GoodManifest(next, ServesGRPC)
  <2>1. GoodManifest(m, ServesGRPC)
    BY <1>1, LoadedGood DEF CanBind
  <2>. HIDE DEF m
  <2>2. DOMAIN m.clients \in SUBSET Client /\ m.clients \in [DOMAIN m.clients -> ClientBinding]
    BY <2>1, OfManifests DEF GoodManifest
  <2>3. /\ DOMAIN m.clients \ {c} \in SUBSET Client
        /\ clients \in [DOMAIN m.clients \ {c} -> ClientBinding]
    BY <2>2 DEF Unbound
  <2>. HIDE DEF clients
  <2>. QED
    BY <2>1, <2>3, ClientsGood
<1>6. ModuleFiles \subseteq files /\ {Manifest, LocalConfig, ClientsGen} \subseteq files
  OBVIOUS
<1>7. Target \notin files /\ tree[Target] = "project"
  BY <1>1, Places DEF ModuleFiles, CanBind
<1>. HIDE DEF files, next, w, x, y, z, n
<1>8. Open(list, n, 15, 17) /\ Of(list) = {x, y, z}
  <2>1. Open(list, n, Rank(x[1]), Rank(z[1])) /\ Of(list) = {x, y, z}
    BY <1>2, <1>3, OpenThree
  <2>. QED
    BY <1>2, <1>3, <2>1
<1>. HIDE DEF list, m
<1>9. \A v \in {x, y, z} : v[1] \in BindingKinds /\ Held(v, files, n, next)
  BY <1>2, <1>6 DEF Held, BindingKinds, HTTPKinds
<1>10. /\ \A v \in Of(list) : v[1] \in BindingKinds /\ Held(v, files, n, next)
       /\ 15 <= 17 /\ 17 < 18
  BY <1>8, <1>9
<1>. QED
  BY <1>1, <1>4, <1>5, <1>6, <1>7, <1>8, <1>10, StartBindKeeps

-------------------------------------------------------------------------------
(* Every step keeps the invariant.                                         *)

(* A command starts.                                                       *)
LEMMA CommandKeeps == FileInv /\ SafetyInv /\ Command => SafetyInv'
<1>1. ASSUME FileInv, SafetyInv, UNCHANGED published,
             \/ New \/ RunGenerators \/ APIGenerate \/ PBGenerate
             \/ \E o \in Operation : AddOperation(o)
             \/ \E f \in ProtoFile : AddService(f) \/ AddMethod(f)
      PROVE  SafetyInv'
  BY <1>1, StartNewKeeps, RunGeneratorsKeeps, APIGenerateKeeps, PBGenerateKeeps,
     AddOperationKeeps, AddToProtoKeeps
<1>2. ASSUME FileInv, SafetyInv,
             \E s \in Service : UnbindServer(s) \/ \E h \in Handler : BindServer(s, h)
      PROVE  SafetyInv'
  BY <1>2, UnbindServerKeeps, BindServerKeeps
<1>3. ASSUME FileInv, SafetyInv,
             \E c \in Client : UnbindClient(c) \/ \E s \in Service : BindClient(c, s)
      PROVE  SafetyInv'
  BY <1>3, UnbindClientKeeps, BindClientKeeps
<1>. QED
  BY <1>1, <1>2, <1>3 DEF Command

LEMMA StepKeeps == FileInv /\ SafetyInv /\ Step => SafetyInv'
BY BindingStepKeeps, NestedKeeps, ClearTargetKeeps, PublishProjectKeeps, ContractStepKeeps,
   CommitKeeps, RestoreKeeps, EndKeeps DEF Step

LEMMA EnvironmentKeeps == FileInv /\ SafetyInv /\ Environment => SafetyInv'
BY EditKeeps, OccupyKeeps, PublishKeeps DEF Environment

LEMMA StandstillKeeps == SafetyInv /\ UNCHANGED vars => SafetyInv'
<1>. SUFFICES ASSUME SafetyInv, UNCHANGED vars
              PROVE  SafetyInv'
  OBVIOUS
<1>1. UNCHANGED <<tree, snapshots, status, before, exposed, spoiled, kind, command, steps, published>>
  BY DEF vars, fileVars, toolVars
<1>2. PlanInv' /\ TargetInv' /\ UserInv'
  BY <1>1 DEF SafetyInv, PlanInv, TargetInv, Running, UserInv
<1>3. Covered' = Covered /\ Leftovers' = Leftovers /\ ServesGRPC' = ServesGRPC
  BY <1>1 DEF Covered, Leftovers, ServesGRPC, HasGRPC, HasServer
<1>4. ManifestInv' /\ CoverInv'
  BY <1>1, <1>3 DEF SafetyInv, ManifestInv, CoverInv
<1>. QED
  BY <1>1, <1>2, <1>4 DEF SafetyInv

LEMMA InitSafe == Init => FileInv /\ SafetyInv
<1>. SUFFICES ASSUME Init
              PROVE  FileInv /\ SafetyInv
  OBVIOUS
<1>1. FileInv
  BY InitInv DEF Init
<1>2. PICK found \in {Absent, "empty"} :
        tree = [p \in Path |-> IF p = Target THEN found ELSE Absent]
  BY DEF Init
<1>3. /\ snapshots = <<>> /\ status = "ok" /\ exposed = {} /\ before = tree /\ steps = <<>>
      /\ kind \in Kind /\ command = [name |-> "none", manifest |-> Nothing]
      /\ published = [s \in Service |-> IF s \in Versioned THEN Method ELSE {}]
  BY DEF Init, FileInit
<1>4. \A p \in Path \ {Target} : tree[p] = Absent
  BY <1>2
<1>5. Kinds(steps) = {} /\ Len(steps) = 0 /\ Len(snapshots) = 0
  BY <1>3, OpenNothing
<1>6. PlanInv /\ TargetInv
  BY <1>3, <1>4 DEF PlanInv, TargetInv, Running
<1>7. ManifestInv
  <2>1. tree[Manifest] = Absent
    BY <1>4, Places
  <2>. QED
    BY <1>3, <1>5, <2>1 DEF ManifestInv, Loadable
<1>8. UserInv
  <2>1. \A p \in Owned : before[p] = Absent
    BY <1>3, <1>4, Places
  <2>. QED
    BY <1>5, <2>1 DEF UserInv
<1>9. CoverInv
  BY <1>3, <1>5 DEF CoverInv
<1>10. command = [name |-> command.name, manifest |-> command.manifest]
  BY <1>3
<1>. QED
  BY <1>1, <1>3, <1>6, <1>7, <1>8, <1>9, <1>10 DEF SafetyInv

(* Every step of the project keeps it: the plan of a command lets only     *)
(* those steps follow that its snapshots hold, over manifests that can be  *)
(* loaded, and nothing the developer wrote is in a step's way.             *)
THEOREM SafetyInvariant == Spec => [](FileInv /\ SafetyInv)
<1>1. ASSUME FileInv, SafetyInv, [Next]_vars
      PROVE  FileInv' /\ SafetyInv'
  <2>1. FileInv'
    <3>1. [FileNext]_fileVars
      BY <1>1, CommandIsFile, StepIsFile, EnvironmentIsFile DEF Next, vars
    <3>. QED
      BY <1>1, <3>1, FileStep
  <2>2. Next => SafetyInv'
    BY <1>1, CommandKeeps, StepKeeps, EnvironmentKeeps DEF Next
  <2>. QED
    BY <1>1, <2>1, <2>2, StandstillKeeps
<1>. QED
  BY <1>1, InitSafe, PTL DEF Spec

(* Whatever the files hold, however the commands follow each other and     *)
(* wherever one of them fails or dies, the tree stays of its type.         *)
THEOREM ProjectTypes == Spec => []TypeOK
<1>1. FileInv /\ SafetyInv => TypeOK
  <2>. SUFFICES ASSUME FileInv, SafetyInv
                PROVE  TypeOK
    OBVIOUS
  <2>1. AtRest => steps = <<>> /\ snapshots = <<>>
    BY DEF AtRest, SafetyInv, PlanInv, FileInv, Orderly
  <2>2. \/ tree[Manifest] \in {Absent, Torn}
        \/ tree[Manifest] \in Manifests /\ ValidManifest(tree[Manifest])
    BY DEF SafetyInv, ManifestInv, Loadable, GoodManifest
  <2>. QED
    BY <2>1, <2>2 DEF TypeOK, SafetyInv, TargetInv
<1>. QED
  BY <1>1, SafetyInvariant, PTL

(* A command that fails leaves nothing but the stubs of `jgo pb generate`   *)
(* and what its rollback did not put back: because it failed in its turn,  *)
(* or because a file was cut short before the header it is known by ended. *)
THEOREM FailureLeavesNothing == Spec => []AllOrNothing
<1>1. FailureUndone /\ SafetyInv => AllOrNothing
  BY DEF FailureUndone, SafetyInv, CoverInv, Leftovers, AllOrNothing, LeftoverStub
<1>. QED
  BY <1>1, SafetyInvariant, ProjectCommandsUndone, PTL

(* No command changes the developer's code.                                *)
THEOREM DeveloperCodeKept == Spec => []UserCodeKept
<1>1. SafetyInv => UserCodeKept
  BY DEF SafetyInv, UserInv, Owned, UserCodeKept
<1>. QED
  BY <1>1, SafetyInvariant, PTL

===============================================================================
