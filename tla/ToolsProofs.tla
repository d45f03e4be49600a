----------------------------- MODULE ToolsProofs -----------------------------
(***************************************************************************)
(* Proofs about the parts of community-ap-tools: the analysis of YAMLs,    *)
(* the dashboard of a hosted room, and the teams of the review tool; about *)
(* the folder of releases that apwm refreshes; and about the releases of   *)
(* worlds, the bases they run on and the options pages of their games:     *)
(* what the functions of apwm and of the lobby give, for every input.      *)
(***************************************************************************)
EXTENDS CommunityTools, Algorithms, FiniteSetTheorems, WellFoundedInduction, TLAPS

-----------------------------------------------------------------------------
(* The analysis of YAMLs                                                   *)

(* The key lives longer than a job may wait: INFLIGHT_TTL_SECS is an hour, *)
(* a job's deadline half an hour.                                          *)
AnalysisConstants ==
  TTL \in Nat /\ Deadline \in Nat /\ Deadline < TTL /\ IsFiniteSet(Pollers) /\ MaxJobs \in Nat

Analysis == [y : Yamls, age : Nat, running : BOOLEAN]
ForceState == [at : {"none", "release", "acquire", "submit"}, y : Yamls \cup {Nil}]
PollState == [at : {"rest", "next", "submit"}, todo : SUBSET Yamls, y : Yamls \cup {Nil}]

AnalysisTypeOK ==
  /\ key \in [Yamls -> 0..TTL]
  /\ job \in [Y!Ids -> Analysis \cup {Nil}]
  /\ poll \in [Pollers -> PollState]
  /\ \A p \in Pollers : poll[p].at = "submit" => poll[p].y \in Yamls
  /\ freed \in [Yamls -> Nat]
  /\ force \in ForceState
  /\ force.at \in {"release", "acquire", "submit"} => force.y \in Yamls

(* What there may be of a YAML's jobs: the live ones, and those that are   *)
(* about to be queued.                                                     *)
Submitting(p, y) == poll[p].at = "submit" /\ poll[p].y = y
Forcing(y) == force.at = "submit" /\ force.y = y
Holders(y) ==
  {<<"job", i>> : i \in {k \in Y!Ids : Y!Live(k) /\ job[k].y = y}}
    \cup {<<"poll", p>> : p \in {q \in Pollers : Submitting(q, y)}}
    \cup {<<"force", f>> : f \in {g \in {0} : Forcing(y)}}

(* Who has no key shares the YAML with nobody that was not let in, and a   *)
(* job that may run is at least as old as the key that is there: when the  *)
(* key expires, so does the job.                                           *)
Budget(y) == freed[y] + (IF key[y] = 0 THEN 0 ELSE 1)
Counted == \A y \in Yamls : Cardinality(Holders(y)) <= Budget(y)
NoneYounger ==
  \A i \in Y!Ids : Y!Live(i) =>
    job[i].age < TTL /\ (key[job[i].y] = 0 \/ key[job[i].y] + job[i].age >= TTL)
NewKeys ==
  \A y \in Yamls : (Forcing(y) \/ \E p \in Pollers : Submitting(p, y)) => key[y] \in {0, TTL}

AnalysisInv == AnalysisTypeOK /\ Counted /\ NoneYounger /\ NewKeys

-----------------------------------------------------------------------------
LEMMA IdsFinite == AnalysisConstants => IsFiniteSet(Y!Ids)
BY FS_Interval DEF AnalysisConstants, Y!Ids

LEMMA HoldersFinite ==
  ASSUME AnalysisConstants, NEW y
  PROVE  IsFiniteSet(Holders(y)) /\ IsFiniteSet(Holders(y)')
<1> DEFINE Jobs == {"job"} \X Y!Ids
           Polls == {"poll"} \X Pollers
           Forced == {"force"} \X {0}
<1>1. IsFiniteSet(Jobs)
  BY IdsFinite, FS_Singleton, FS_Product
<1>2. IsFiniteSet(Polls)
  BY FS_Singleton, FS_Product DEF AnalysisConstants
<1>3. IsFiniteSet(Forced)
  BY FS_Singleton, FS_Product
<1>4. IsFiniteSet(Jobs \cup Polls \cup Forced)
  BY <1>1, <1>2, <1>3, FS_Union
<1>5. Holders(y) \subseteq Jobs \cup Polls \cup Forced
  BY DEF Holders
<1>6. Holders(y)' \subseteq Jobs \cup Polls \cup Forced
  BY DEF Holders
<1> HIDE DEF Jobs, Polls, Forced
<1> QED BY <1>4, <1>5, <1>6, FS_Subset

(* How many there are after one came or went                               *)
LEMMA FewerOf ==
  ASSUME NEW G, NEW H, IsFiniteSet(G), IsFiniteSet(H), NEW x, NEW z
  PROVE  /\ Cardinality(G) \in Nat /\ Cardinality(H) \in Nat
         /\ H \subseteq G => Cardinality(H) <= Cardinality(G)
         /\ H \subseteq G \cup {z} => Cardinality(H) <= Cardinality(G) + 1
         /\ (x \in G /\ H \subseteq G \ {x}) => Cardinality(H) + 1 <= Cardinality(G)
         /\ (x \in G /\ H \subseteq (G \ {x}) \cup {z}) => Cardinality(H) <= Cardinality(G)
         /\ H = {} => Cardinality(H) = 0
<1>1. Cardinality(G) \in Nat /\ Cardinality(H) \in Nat
  BY FS_CardinalityType
<1>2. H \subseteq G => Cardinality(H) <= Cardinality(G)
  BY FS_Subset
<1>3. IsFiniteSet(G \cup {z}) /\ Cardinality(G \cup {z}) <= Cardinality(G) + 1
  <2>1. IsFiniteSet(G \cup {z}) /\ Cardinality(G \cup {z}) = IF z \in G THEN Cardinality(G) ELSE Cardinality(G) + 1
    BY FS_AddElement
  <2> QED BY <1>1, <2>1
<1>4. H \subseteq G \cup {z} => Cardinality(H) <= Cardinality(G) + 1
  <2> HAVE H \subseteq G \cup {z}
  <2>1. Cardinality(H) <= Cardinality(G \cup {z}) /\ Cardinality(G \cup {z}) \in Nat
    BY <1>3, FS_Subset, FS_CardinalityType
  <2> QED BY <1>1, <1>3, <2>1
<1>5. ASSUME x \in G
      PROVE  /\ IsFiniteSet(G \ {x}) /\ Cardinality(G \ {x}) = Cardinality(G) - 1 /\ Cardinality(G \ {x}) \in Nat
  <2>1. IsFiniteSet(G \ {x}) /\ Cardinality(G \ {x}) = IF x \in G THEN Cardinality(G) - 1 ELSE Cardinality(G)
    BY FS_RemoveElement
  <2> QED BY <1>5, <2>1, FS_CardinalityType
<1>6. (x \in G /\ H \subseteq G \ {x}) => Cardinality(H) + 1 <= Cardinality(G)
  <2> HAVE x \in G /\ H \subseteq G \ {x}
  <2>1. Cardinality(H) <= Cardinality(G \ {x})
    BY <1>5, FS_Subset
  <2> QED BY <1>1, <1>5, <2>1
<1>7. (x \in G /\ H \subseteq (G \ {x}) \cup {z}) => Cardinality(H) <= Cardinality(G)
  <2> HAVE x \in G /\ H \subseteq (G \ {x}) \cup {z}
  <2> DEFINE E == G \ {x}
  <2>1. IsFiniteSet(E) /\ Cardinality(E) = Cardinality(G) - 1
    BY <1>5
  <2>2. IsFiniteSet(E \cup {z}) /\ Cardinality(E \cup {z}) = IF z \in E THEN Cardinality(E) ELSE Cardinality(E) + 1
    BY <2>1, FS_AddElement
  <2>3. Cardinality(H) <= Cardinality(E \cup {z})
    BY <2>2, FS_Subset
  <2> HIDE DEF E
  <2> QED BY <1>1, <2>1, <2>2, <2>3
<1>8. H = {} => Cardinality(H) = 0
  BY FS_EmptySet
<1> QED BY <1>1, <1>2, <1>4, <1>6, <1>7, <1>8

(* Who is a holder                                                         *)
LEMMA HolderOf ==
  ASSUME NEW y
  PROVE  /\ \A i : <<"job", i>> \in Holders(y) <=> i \in Y!Ids /\ Y!Live(i) /\ job[i].y = y
         /\ \A p : <<"poll", p>> \in Holders(y) <=> p \in Pollers /\ Submitting(p, y)
         /\ \A f : <<"force", f>> \in Holders(y) <=> f = 0 /\ Forcing(y)
         /\ \A x \in Holders(y) : \/ \E i \in Y!Ids : x = <<"job", i>> /\ Y!Live(i) /\ job[i].y = y
                                  \/ \E p \in Pollers : x = <<"poll", p>> /\ Submitting(p, y)
                                  \/ x = <<"force", 0>> /\ Forcing(y)
BY DEF Holders

LEMMA HolderNext ==
  ASSUME NEW y
  PROVE  \A x \in Holders(y)' : \/ \E i \in Y!Ids : x = <<"job", i>> /\ Y!Live(i)' /\ job'[i].y = y
                                \/ \E p \in Pollers : x = <<"poll", p>> /\ poll'[p].at = "submit" /\ poll'[p].y = y
                                \/ x = <<"force", 0>> /\ force'.at = "submit" /\ force'.y = y
BY DEF Holders, Submitting, Forcing

(* A step lets one more in where it makes room for one.                    *)
LEMMA CountedStill ==
  ASSUME AnalysisConstants, AnalysisTypeOK, AnalysisTypeOK', Counted, NEW y \in Yamls, NEW x, NEW z,
         \A v \in Yamls \ {y} : key'[v] = key[v] /\ freed'[v] = freed[v] /\ Holders(v)' \subseteq Holders(v),
         \/ Holders(y)' \subseteq Holders(y) /\ Budget(y)' >= Budget(y)
         \/ Holders(y)' \subseteq Holders(y) \cup {z} /\ Budget(y)' >= Budget(y) + 1
         \/ x \in Holders(y) /\ Holders(y)' \subseteq (Holders(y) \ {x}) \cup {z} /\ Budget(y)' >= Budget(y)
         \/ x \in Holders(y) /\ Holders(y)' \subseteq Holders(y) \ {x} /\ Budget(y)' + 1 >= Budget(y)
  PROVE  Counted'
<1> SUFFICES ASSUME NEW v \in Yamls PROVE Cardinality(Holders(v)') <= Budget(v)'
  BY DEF Counted
<1>1. IsFiniteSet(Holders(v)) /\ IsFiniteSet(Holders(v)')
  BY HoldersFinite
<1>2. Budget(v) \in Nat /\ Budget(v)' \in Nat /\ Cardinality(Holders(v)) <= Budget(v)
  BY DEF Budget, AnalysisTypeOK, AnalysisConstants, Counted
<1>3. CASE v # y
  <2>1. Holders(v)' \subseteq Holders(v) /\ Budget(v)' = Budget(v)
    BY <1>3 DEF Budget
  <2>2. Cardinality(Holders(v)') <= Cardinality(Holders(v)) /\ Cardinality(Holders(v)') \in Nat /\ Cardinality(Holders(v)) \in Nat
    BY <1>1, <2>1, FewerOf
  <2> QED BY <1>2, <2>1, <2>2
<1>4. CASE v = y
  <2> DEFINE G == Holders(v)
             H == Holders(v)'
  <2>1. /\ Cardinality(G) \in Nat /\ Cardinality(H) \in Nat
        /\ H \subseteq G => Cardinality(H) <= Cardinality(G)
        /\ H \subseteq G \cup {z} => Cardinality(H) <= Cardinality(G) + 1
        /\ (x \in G /\ H \subseteq G \ {x}) => Cardinality(H) + 1 <= Cardinality(G)
        /\ (x \in G /\ H \subseteq (G \ {x}) \cup {z}) => Cardinality(H) <= Cardinality(G)
    BY <1>1, FewerOf
  <2>2. \/ H \subseteq G /\ Budget(v)' >= Budget(v)
        \/ H \subseteq G \cup {z} /\ Budget(v)' >= Budget(v) + 1
        \/ x \in G /\ H \subseteq (G \ {x}) \cup {z} /\ Budget(v)' >= Budget(v)
        \/ x \in G /\ H \subseteq G \ {x} /\ Budget(v)' + 1 >= Budget(v)
    BY <1>4, Zenon
  <2>3. Cardinality(G) <= Budget(v)
    BY <1>2
  <2> HIDE DEF G, H
  <2>4. Cardinality(H) <= Budget(v)'
    BY <1>2, <2>1, <2>2, <2>3
  <2> QED BY <2>4 DEF H
<1> QED BY <1>3, <1>4

(* A job that comes to nothing, a request or a poller that goes: what is   *)
(* left of those that share a YAML                                         *)
Fewer(y) ==
  /\ \A i \in Y!Ids : (Y!Live(i)' /\ job'[i].y = y) => Y!Live(i) /\ job[i].y = y
  /\ \A p \in Pollers : (poll'[p].at = "submit" /\ poll'[p].y = y) => Submitting(p, y)
  /\ (force'.at = "submit" /\ force'.y = y) => Forcing(y)

LEMMA FewerHolders == ASSUME NEW y, Fewer(y) PROVE Holders(y)' \subseteq Holders(y)
BY HolderOf, HolderNext DEF Fewer

(* A step in which no key changes, no job comes to life and nobody gets to *)
(* submit                                                                  *)
LEMMA Calmer ==
  ASSUME AnalysisConstants, AnalysisInv, AnalysisTypeOK', UNCHANGED <<key, freed>>,
         \A i \in Y!Ids : Y!Live(i)' => Y!Live(i) /\ job'[i].y = job[i].y /\ job'[i].age = job[i].age,
         \A p \in Pollers : poll'[p].at = "submit" => poll[p].at = "submit" /\ poll'[p].y = poll[p].y,
         force'.at = "submit" => force.at = "submit" /\ force'.y = force.y
  PROVE  AnalysisInv'
<1> USE DEF AnalysisInv
<1>1. \A y \in Yamls : Holders(y)' \subseteq Holders(y) /\ Budget(y)' = Budget(y)
  BY FewerHolders DEF Fewer, Submitting, Forcing, Budget
<1>2. Counted'
  <2> SUFFICES ASSUME NEW y \in Yamls PROVE Cardinality(Holders(y)') <= Budget(y)'
    BY DEF Counted
  <2>1. Budget(y)' >= Budget(y)
    BY <1>1 DEF Budget, AnalysisTypeOK, AnalysisConstants
  <2>2. Counted'
    BY <1>1, <2>1, CountedStill
  <2> QED BY <2>2 DEF Counted
<1>3. NoneYounger'
  BY DEF NoneYounger
<1>4. NewKeys'
  BY DEF NewKeys, Submitting, Forcing
<1> QED BY <1>2, <1>3, <1>4

LEMMA AnalysisInit ==
  ASSUME AnalysisConstants, Y!Init
  PROVE  AnalysisInv
<1> USE DEF AnalysisConstants, Y!Init
<1>1. Y!Resting \in PollState /\ Y!Resting.at = "rest"
  BY DEF Y!Resting, PollState
<1>2. AnalysisTypeOK
  BY <1>1 DEF AnalysisTypeOK, ForceState, Y!NoRequest
<1>3. (\A i \in Y!Ids : ~Y!Live(i)) /\ (\A p \in Pollers : poll[p].at = "rest") /\ force.at = "none"
  BY <1>1 DEF Y!Live, Y!NoRequest
<1>4. NoneYounger /\ NewKeys
  BY <1>3 DEF NoneYounger, NewKeys, Submitting, Forcing
<1>5. ASSUME NEW y \in Yamls PROVE Cardinality(Holders(y)) <= Budget(y)
  <2>1. Holders(y) = {}
    BY <1>3, HolderOf DEF Submitting, Forcing
  <2> QED BY <2>1, FS_EmptySet DEF Budget
<1> QED BY <1>2, <1>4, <1>5 DEF AnalysisInv, Counted

(* What the pieces of a step do to the types                               *)
LEMMA PollTypes ==
  /\ Y!Resting \in PollState
  /\ Y!Resting.at = "rest"
  /\ \A t \in PollState : \A s \in SUBSET Yamls : [t EXCEPT !.todo = s] \in PollState
  /\ \A t \in PollState : \A s \in SUBSET Yamls : [t EXCEPT !.todo = s].at = t.at
  /\ \A t \in PollState : [t EXCEPT !.at = "next", !.y = Nil] \in PollState
  /\ \A t \in PollState : [t EXCEPT !.at = "next", !.y = Nil].at = "next"
  /\ \A s \in SUBSET Yamls : \A y \in Yamls \cup {Nil} : \A at \in {"rest", "next", "submit"} :
       [at |-> at, todo |-> s, y |-> y] \in PollState
BY DEF Y!Resting, PollState

LEMMA JobTypes ==
  /\ \A y \in Yamls : [y |-> y, age |-> 0, running |-> FALSE] \in Analysis
  /\ \A j \in Analysis : \A b \in BOOLEAN : [j EXCEPT !.running = b] \in Analysis
  /\ \A j \in Analysis : \A b \in BOOLEAN : [j EXCEPT !.running = b].y = j.y
  /\ \A j \in Analysis : \A b \in BOOLEAN : [j EXCEPT !.running = b].age = j.age
  /\ \A j \in Analysis : \A b \in BOOLEAN : [j EXCEPT !.running = b].running = b
  /\ \A j \in Analysis : \A n \in Nat : [j EXCEPT !.age = n] \in Analysis
  /\ \A j \in Analysis : \A n \in Nat : [j EXCEPT !.age = n].y = j.y
  /\ \A j \in Analysis : \A n \in Nat : [j EXCEPT !.age = n].age = n
  /\ \A j \in Analysis : \A n \in Nat : [j EXCEPT !.age = n].running = j.running
BY DEF Analysis

(* Whoever finds no key is let in.                                         *)
LEMMA AcquireKeeps ==
  ASSUME AnalysisConstants, AnalysisInv, AnalysisTypeOK', UNCHANGED <<job, freed>>,
         NEW y \in Yamls, NEW z, key[y] = 0, Y!Acquire(y), Holders(y)' \subseteq Holders(y) \cup {z},
         \A v \in Yamls \ {y} : Fewer(v)
  PROVE  AnalysisInv'
<1> USE DEF AnalysisInv
<1>1. key'[y] = TTL /\ \A v \in Yamls \ {y} : key'[v] = key[v]
  BY DEF Y!Acquire, AnalysisTypeOK
<1>2. Budget(y)' >= Budget(y) + 1
  BY <1>1 DEF Budget, AnalysisTypeOK, AnalysisConstants
<1>3. Counted'
  <2>1. \A v \in Yamls \ {y} : key'[v] = key[v] /\ freed'[v] = freed[v] /\ Holders(v)' \subseteq Holders(v)
    BY <1>1, FewerHolders
  <2> QED BY <1>2, <2>1, CountedStill
<1>4. NoneYounger'
  <2> SUFFICES ASSUME NEW i \in Y!Ids, Y!Live(i)'
               PROVE  job[i].age < TTL /\ (key'[job[i].y] = 0 \/ key'[job[i].y] + job[i].age >= TTL)
    BY DEF NoneYounger
  <2>1. Y!Live(i)
    BY DEF Y!Live, Y!Claimable
  <2>2. job[i].y \in Yamls /\ job[i].age \in Nat
    BY <2>1 DEF Y!Live, AnalysisTypeOK, Analysis
  <2> QED BY <1>1, <2>1, <2>2 DEF NoneYounger, AnalysisConstants
<1>5. NewKeys'
  BY <1>1 DEF NewKeys, Fewer, Submitting, Forcing
<1> QED BY <1>3, <1>4, <1>5

(* Whoever has a YAML goes, and the key with it: perhaps that of another.  *)
LEMMA ReleaseKeeps ==
  ASSUME AnalysisConstants, AnalysisInv, AnalysisTypeOK', freed' = freed,
         NEW y \in Yamls, NEW x \in Holders(y), Y!ReleaseInflightKey(y), Holders(y)' \subseteq Holders(y) \ {x},
         \A v \in Yamls : Fewer(v),
         \A i \in Y!Ids : Y!Live(i)' => Y!Live(i) /\ job'[i].y = job[i].y /\ job'[i].age = job[i].age
  PROVE  AnalysisInv'
<1> USE DEF AnalysisInv
<1>1. key'[y] = 0 /\ \A v \in Yamls \ {y} : key'[v] = key[v]
  BY DEF Y!ReleaseInflightKey, AnalysisTypeOK
<1>2. Budget(y)' + 1 >= Budget(y)
  BY <1>1 DEF Budget, AnalysisTypeOK, AnalysisConstants
<1>3. Counted'
  <2>1. \A v \in Yamls \ {y} : key'[v] = key[v] /\ freed'[v] = freed[v] /\ Holders(v)' \subseteq Holders(v)
    BY <1>1, FewerHolders
  <2> QED BY <1>2, <2>1, CountedStill
<1>4. NoneYounger'
  <2> SUFFICES ASSUME NEW i \in Y!Ids, Y!Live(i)'
               PROVE  job'[i].age < TTL /\ (key'[job'[i].y] = 0 \/ key'[job'[i].y] + job'[i].age >= TTL)
    BY DEF NoneYounger
  <2>1. Y!Live(i) /\ job'[i].y = job[i].y /\ job'[i].age = job[i].age
    OBVIOUS
  <2>2. job[i].y \in Yamls
    BY <2>1 DEF Y!Live, AnalysisTypeOK, Analysis
  <2> QED BY <1>1, <2>1, <2>2 DEF NoneYounger
<1>5. NewKeys'
  BY <1>1 DEF NewKeys, Fewer, Submitting, Forcing
<1> QED BY <1>3, <1>4, <1>5

(* enqueue_job_in, by a poller or a request x that has the YAML            *)
LEMMA EnqueueKeeps ==
  ASSUME AnalysisConstants, AnalysisInv, AnalysisTypeOK', NEW y \in Yamls, NEW x \in Holders(y), Y!EnqueueJobIn(y),
         \A i : x # <<"job", i>>,
         \A p \in Pollers : poll'[p].at = "submit" =>
           poll[p].at = "submit" /\ poll'[p].y = poll[p].y /\ x # <<"poll", p>>,
         force'.at = "submit" => force.at = "submit" /\ force'.y = force.y /\ x # <<"force", 0>>
  PROVE  AnalysisInv'
<1> USE DEF AnalysisInv
<1>1. CASE UNCHANGED <<key, job, freed>>
  BY <1>1, Calmer DEF Y!Live, Y!Claimable
<1>2. CASE Y!ReleaseInflightKey(y) /\ UNCHANGED <<job, freed>>
  <2>1. \A i \in Y!Ids : Y!Live(i)' <=> Y!Live(i)
    BY <1>2 DEF Y!Live, Y!Claimable
  <2>2. \A v \in Yamls : Fewer(v)
    BY <1>2, <2>1 DEF Fewer, Submitting, Forcing
  <2>3. Holders(y)' \subseteq Holders(y) \ {x}
    BY <1>2, <2>1, HolderOf, HolderNext DEF Submitting, Forcing
  <2> QED BY <1>2, <2>1, <2>2, <2>3, ReleaseKeeps
<1>3. CASE Y!Enqueue(y) /\ (UNCHANGED <<key, freed>> \/ Y!GiveUpKey(y))
  <2>0. PICK i \in Y!Free : job' = [job EXCEPT ![i] = [y |-> y, age |-> 0, running |-> FALSE]]
    BY <1>3 DEF Y!Enqueue
  <2>1. /\ i \in Y!Ids /\ job[i] = Nil /\ ~Y!Live(i)
        /\ job'[i].y = y /\ job'[i].age = 0 /\ \A k \in Y!Ids \ {i} : job'[k] = job[k]
    BY <2>0 DEF Y!Free, Y!Live, AnalysisTypeOK
  <2>2. \A k \in Y!Ids \ {i} : Y!Live(k)' <=> Y!Live(k)
    BY <2>1 DEF Y!Live, Y!Claimable
  <2>3. /\ \A v \in Yamls \ {y} : key'[v] = key[v] /\ freed'[v] = freed[v]
        /\ key'[y] \in {key[y], 0} /\ Budget(y)' >= Budget(y)
    <3>1. CASE UNCHANGED <<key, freed>>
      BY <3>1 DEF Budget, AnalysisTypeOK, AnalysisConstants
    <3>2. CASE Y!GiveUpKey(y)
      BY <3>2 DEF Budget, AnalysisTypeOK, AnalysisConstants, Y!GiveUpKey, Y!ReleaseInflightKey, Y!Locked
    <3> QED BY <1>3, <3>1, <3>2
  <2>4. Holders(y)' \subseteq (Holders(y) \ {x}) \cup {<<"job", i>>}
    BY <2>1, <2>2, HolderOf, HolderNext DEF Submitting, Forcing
  <2>5. \A v \in Yamls \ {y} : Fewer(v)
    BY <2>1, <2>2 DEF Fewer, Submitting, Forcing
  <2>6. Counted'
    <3>1. \A v \in Yamls \ {y} : key'[v] = key[v] /\ freed'[v] = freed[v] /\ Holders(v)' \subseteq Holders(v)
      BY <2>3, <2>5, FewerHolders
    <3> QED BY <2>3, <2>4, <3>1, CountedStill
  <2>7. key[y] \in {0, TTL}
    BY HolderOf DEF NewKeys
  <2>8. NoneYounger'
    <3> SUFFICES ASSUME NEW k \in Y!Ids, Y!Live(k)'
                 PROVE  job'[k].age < TTL /\ (key'[job'[k].y] = 0 \/ key'[job'[k].y] + job'[k].age >= TTL)
      BY DEF NoneYounger
    <3>1. CASE k = i
      BY <2>1, <2>3, <2>7, <3>1 DEF AnalysisConstants
    <3>2. CASE k # i
      <4>1. Y!Live(k) /\ job'[k] = job[k] /\ job[k].y \in Yamls
        BY <2>1, <2>2, <3>2 DEF Y!Live, AnalysisTypeOK, Analysis
      <4> QED BY <2>3, <4>1 DEF NoneYounger
    <3> QED BY <3>1, <3>2
  <2>9. NewKeys'
    BY <2>3, <2>5, <2>7 DEF NewKeys, Fewer, Submitting, Forcing
  <2> QED BY <2>6, <2>8, <2>9
<1> QED BY <1>1, <1>2, <1>3 DEF Y!EnqueueJobIn

LEMMA TakeKeyKeeps ==
  ASSUME AnalysisConstants, AnalysisInv, NEW p \in Pollers, Y!TakeKey(p)
  PROVE  AnalysisInv'
<1> USE DEF AnalysisInv, AnalysisConstants
<1> DEFINE R(y) == poll[p].todo \ {y}
<1>0. PICK y \in poll[p].todo :
           \/ /\ poll' = [poll EXCEPT ![p] = IF R(y) = {} THEN Y!Resting ELSE [@ EXCEPT !.todo = R(y)]]
              /\ UNCHANGED key \/ (~Y!Locked(y) /\ Y!Acquire(y))
           \/ /\ ~Y!Locked(y) /\ Y!Acquire(y)
              /\ poll' = [poll EXCEPT ![p] = [at |-> "submit", todo |-> R(y), y |-> y]]
  BY DEF Y!TakeKey
<1>1. /\ poll[p] \in PollState /\ y \in Yamls /\ R(y) \in SUBSET Yamls /\ poll[p].at = "next"
      /\ UNCHANGED <<job, force, freed>>
  BY <1>0 DEF Y!TakeKey, AnalysisTypeOK, PollState
<1>2. \A i \in Y!Ids : Y!Live(i)' <=> Y!Live(i)
  BY <1>1 DEF Y!Live, Y!Claimable
<1>3. CASE /\ poll' = [poll EXCEPT ![p] = IF R(y) = {} THEN Y!Resting ELSE [@ EXCEPT !.todo = R(y)]]
           /\ UNCHANGED key \/ (~Y!Locked(y) /\ Y!Acquire(y))
  <2>1. /\ poll' \in [Pollers -> PollState] /\ poll'[p].at # "submit"
        /\ \A q \in Pollers \ {p} : poll'[q] = poll[q]
    BY <1>1, <1>3, PollTypes DEF AnalysisTypeOK
  <2>2. CASE UNCHANGED key
    <3>1. AnalysisTypeOK'
      BY <1>1, <2>1, <2>2 DEF AnalysisTypeOK
    <3> QED BY <1>1, <1>2, <2>1, <2>2, <3>1, Calmer
  <2>3. CASE ~Y!Locked(y) /\ Y!Acquire(y)
    <3>1. AnalysisTypeOK' /\ key[y] = 0
      BY <1>1, <2>1, <2>3 DEF AnalysisTypeOK, Y!Acquire, Y!Locked
    <3>2. \A v \in Yamls : Fewer(v)
      BY <1>1, <1>2, <2>1 DEF Fewer, Submitting, Forcing
    <3>3. Holders(y)' \subseteq Holders(y) \cup {p}
      BY <1>1, <3>2, FewerHolders
    <3> QED BY <1>1, <2>3, <3>1, <3>2, <3>3, AcquireKeeps
  <2> QED BY <1>3, <2>2, <2>3
<1>4. CASE /\ ~Y!Locked(y) /\ Y!Acquire(y)
           /\ poll' = [poll EXCEPT ![p] = [at |-> "submit", todo |-> R(y), y |-> y]]
  <2>1. /\ poll' \in [Pollers -> PollState] /\ poll'[p].at = "submit" /\ poll'[p].y = y
        /\ \A q \in Pollers \ {p} : poll'[q] = poll[q]
    BY <1>1, <1>4, PollTypes DEF AnalysisTypeOK
  <2>2. AnalysisTypeOK' /\ key[y] = 0
    BY <1>1, <1>4, <2>1 DEF AnalysisTypeOK, Y!Acquire, Y!Locked
  <2>3. \A v \in Yamls \ {y} : Fewer(v)
    BY <1>1, <1>2, <2>1 DEF Fewer, Submitting, Forcing
  <2>4. Holders(y)' \subseteq Holders(y) \cup {<<"poll", p>>}
    BY <1>1, <1>2, <2>1, HolderOf, HolderNext DEF Submitting, Forcing
  <2> QED BY <1>1, <1>4, <2>2, <2>3, <2>4, AcquireKeeps
<1> QED BY <1>0, <1>3, <1>4

(* A job, perhaps, and a key, perhaps, are written.                        *)
LEMMA EnqueueTypes ==
  ASSUME AnalysisConstants, AnalysisTypeOK, NEW y \in Yamls, Y!EnqueueJobIn(y)
  PROVE  /\ key' \in [Yamls -> 0..TTL] /\ job' \in [Y!Ids -> Analysis \cup {Nil}] /\ freed' \in [Yamls -> Nat]
<1>1. key' \in [Yamls -> 0..TTL] /\ freed' \in [Yamls -> Nat]
  BY DEF Y!EnqueueJobIn, Y!GiveUpKey, Y!ReleaseInflightKey, AnalysisTypeOK, AnalysisConstants
<1>2. CASE UNCHANGED job
  BY <1>1, <1>2 DEF AnalysisTypeOK
<1>3. CASE Y!Enqueue(y)
  BY <1>1, <1>3, JobTypes DEF Y!Enqueue, Y!Free, AnalysisTypeOK
<1> QED BY <1>1, <1>2, <1>3 DEF Y!EnqueueJobIn

LEMMA SubmitKeeps ==
  ASSUME AnalysisConstants, AnalysisInv, NEW p \in Pollers, Y!Submit(p)
  PROVE  AnalysisInv'
<1> USE DEF AnalysisInv
<1>1. /\ poll[p] \in PollState /\ poll[p].at = "submit" /\ poll[p].y \in Yamls /\ UNCHANGED force
      /\ Y!EnqueueJobIn(poll[p].y)
  BY DEF Y!Submit, AnalysisTypeOK
<1>2. /\ poll' \in [Pollers -> PollState] /\ poll'[p].at # "submit"
      /\ \A q \in Pollers \ {p} : poll'[q] = poll[q]
  BY <1>1, PollTypes DEF Y!Submit, AnalysisTypeOK
<1>3. AnalysisTypeOK'
  BY <1>1, <1>2, EnqueueTypes DEF AnalysisTypeOK
<1>4. <<"poll", p>> \in Holders(poll[p].y)
  BY <1>1, HolderOf DEF Submitting
<1>5. \A q \in Pollers : poll'[q].at = "submit" =>
        poll[q].at = "submit" /\ poll'[q].y = poll[q].y /\ <<"poll", p>> # <<"poll", q>>
  BY <1>2
<1> QED BY <1>1, <1>3, <1>4, <1>5, EnqueueKeeps

(* priority_queue_yaml                                                     *)
LEMMA ForceKeeps ==
  ASSUME AnalysisConstants, AnalysisInv, Y!PriorityQueueYaml \/ Y!ForceStep
  PROVE  AnalysisInv'
<1> USE DEF AnalysisInv
<1>0. Y!NoRequest \in ForceState /\ Y!NoRequest.at = "none"
  BY DEF Y!NoRequest, ForceState
<1>1. CASE Y!PriorityQueueYaml
  <2>1. PICK y \in Yamls : force' = [at |-> "release", y |-> y] /\ UNCHANGED <<key, job, poll, freed>>
    BY <1>1 DEF Y!PriorityQueueYaml
  <2>2. AnalysisTypeOK' /\ force'.at # "submit"
    BY <2>1 DEF AnalysisTypeOK, ForceState
  <2> QED BY <2>1, <2>2, Calmer DEF Y!Live, Y!Claimable
<1>2. CASE Y!ForceRelease
  <2>0. PICK y : y = force.y
    OBVIOUS
  <2>1. /\ y \in Yamls /\ force' \in ForceState /\ force'.at = "acquire" /\ force'.y = y /\ force.at = "release"
        /\ UNCHANGED <<job, poll>>
    BY <1>2, <2>0 DEF Y!ForceRelease, AnalysisTypeOK, ForceState
  <2>2. \A i \in Y!Ids : Y!Live(i)' <=> Y!Live(i)
    BY <2>1 DEF Y!Live, Y!Claimable
  <2>3. CASE UNCHANGED <<key, freed>>
    <3>1. AnalysisTypeOK'
      BY <2>1, <2>3 DEF AnalysisTypeOK
    <3> QED BY <2>1, <2>2, <2>3, <3>1, Calmer
  <2>4. CASE Y!GiveUpKey(y)
    <3>1. AnalysisTypeOK'
      BY <2>1, <2>4 DEF AnalysisTypeOK, Y!GiveUpKey, Y!ReleaseInflightKey, AnalysisConstants
    <3>2. /\ \A v \in Yamls \ {y} : key'[v] = key[v] /\ freed'[v] = freed[v]
          /\ key'[y] = 0 /\ Budget(y)' >= Budget(y)
      BY <2>1, <2>4 DEF AnalysisTypeOK, Y!GiveUpKey, Y!ReleaseInflightKey, Y!Locked, AnalysisConstants, Budget
    <3>3. \A v \in Yamls : Holders(v)' \subseteq Holders(v)
      BY <2>1, <2>2, FewerHolders DEF Fewer, Submitting, Forcing
    <3>4. Counted'
      BY <2>1, <3>1, <3>2, <3>3, CountedStill
    <3>5. NoneYounger'
      <4> SUFFICES ASSUME NEW i \in Y!Ids, Y!Live(i)
                   PROVE  job[i].age < TTL /\ (key'[job[i].y] = 0 \/ key'[job[i].y] + job[i].age >= TTL)
        BY <2>1, <2>2 DEF NoneYounger
      <4>1. job[i].y \in Yamls
        BY DEF Y!Live, AnalysisTypeOK, Analysis
      <4> QED BY <3>2, <4>1 DEF NoneYounger
    <3>6. NewKeys'
      BY <2>1, <3>2 DEF NewKeys, Submitting, Forcing
    <3> QED BY <3>1, <3>4, <3>5, <3>6
  <2> QED BY <1>2, <2>0, <2>3, <2>4 DEF Y!ForceRelease
<1>3. CASE Y!ForceAcquire
  <2>0. PICK y : y = force.y
    OBVIOUS
  <2>1. /\ y \in Yamls /\ force.at = "acquire" /\ UNCHANGED <<job, poll, freed>>
        /\ \/ force' = Y!NoRequest /\ UNCHANGED key
           \/ /\ ~Y!Locked(y) /\ Y!Acquire(y)
              /\ force' = Y!NoRequest \/ force' = [force EXCEPT !.at = "submit"]
    BY <1>3, <2>0 DEF Y!ForceAcquire, AnalysisTypeOK
  <2>2. \A i \in Y!Ids : Y!Live(i)' <=> Y!Live(i)
    BY <2>1 DEF Y!Live, Y!Claimable
  <2>3. CASE force' = Y!NoRequest /\ UNCHANGED key
    <3>1. AnalysisTypeOK'
      BY <1>0, <2>1, <2>3 DEF AnalysisTypeOK
    <3> QED BY <1>0, <2>1, <2>2, <2>3, <3>1, Calmer
  <2>4. CASE /\ ~Y!Locked(y) /\ Y!Acquire(y)
             /\ force' = Y!NoRequest \/ force' = [force EXCEPT !.at = "submit"]
    <3>1. /\ force' \in ForceState /\ (force'.at = "submit" => force'.y = y)
          /\ force'.at \in {"none", "submit"}
      BY <1>0, <2>0, <2>1, <2>4 DEF AnalysisTypeOK, ForceState
    <3>2. AnalysisTypeOK' /\ key[y] = 0
      BY <2>1, <2>4, <3>1 DEF AnalysisTypeOK, Y!Acquire, Y!Locked, AnalysisConstants
    <3>3. \A v \in Yamls \ {y} : Fewer(v)
      BY <2>1, <2>2, <3>1 DEF Fewer, Submitting, Forcing
    <3>4. Holders(y)' \subseteq Holders(y) \cup {<<"force", 0>>}
      BY <2>1, <2>2, <3>1, HolderOf, HolderNext DEF Submitting, Forcing
    <3> QED BY <2>1, <2>4, <3>2, <3>3, <3>4, AcquireKeeps
  <2> QED BY <2>1, <2>3, <2>4
<1>4. CASE Y!ForceSubmit
  <2>0. PICK y : y = force.y
    OBVIOUS
  <2>1. y \in Yamls /\ force.at = "submit" /\ force' = Y!NoRequest /\ UNCHANGED poll /\ Y!EnqueueJobIn(y)
    BY <1>4, <2>0 DEF Y!ForceSubmit, AnalysisTypeOK
  <2>2. AnalysisTypeOK'
    BY <1>0, <2>1, EnqueueTypes DEF AnalysisTypeOK
  <2>3. <<"force", 0>> \in Holders(y)
    BY <2>0, <2>1, HolderOf DEF Forcing
  <2> QED BY <1>0, <2>1, <2>2, <2>3, EnqueueKeeps
<1> QED BY <1>1, <1>2, <1>3, <1>4 DEF Y!ForceStep

(* A job that runs or waits goes on, or ends.                              *)
LEMMA JobKeeps ==
  ASSUME AnalysisConstants, AnalysisInv, NEW i \in Y!Ids,
         Y!JobStep(i) \/ Y!CallbackFails(i) \/ Y!CallbackDrops(i) \/ Y!ReclaimJob(i)
  PROVE  AnalysisInv'
<1> USE DEF AnalysisConstants, AnalysisInv
<1>0. job[i] # Nil /\ job[i] \in Analysis /\ job[i].y \in Yamls
  BY DEF Y!JobStep, Y!Claim, Y!Claimable, Y!Expire, Y!SetYamlAnalysisStatus, Y!CallbackFails,
         Y!CallbackDrops, Y!ReclaimJob, AnalysisTypeOK, Analysis
<1>1. CASE Y!Claim(i) \/ Y!ReclaimJob(i)
  <2>0. PICK b \in BOOLEAN : /\ job' = [job EXCEPT ![i] = [job[i] EXCEPT !.running = b]]
                             /\ (b => Y!Claimable(i)) /\ (~b => job[i].running)
                             /\ UNCHANGED <<key, poll, force, freed>>
    BY <1>0, <1>1 DEF Y!Claim, Y!ReclaimJob, AnalysisTypeOK
  <2>1. job'[i].y = job[i].y /\ job'[i].age = job[i].age /\ job'[i] \in Analysis
        /\ job'[i].running = b /\ \A k \in Y!Ids \ {i} : job'[k] = job[k]
    BY <1>0, <2>0, JobTypes DEF AnalysisTypeOK
  <2>2. AnalysisTypeOK'
    BY <2>0, <2>1 DEF AnalysisTypeOK
  <2>3. Y!Live(i)' => Y!Live(i)
    BY <2>0, <2>1, <1>0 DEF Y!Live, Y!Claimable
  <2>4. \A k \in Y!Ids \ {i} : Y!Live(k)' => Y!Live(k)
    BY <2>1 DEF Y!Live, Y!Claimable
  <2> QED BY <2>0, <2>1, <2>2, <2>3, <2>4, Calmer
<1>2. CASE Y!Expire(i) \/ Y!SetYamlAnalysisStatus(i) \/ Y!CallbackDrops(i)
  <2>1. job' = [job EXCEPT ![i] = Nil] /\ UNCHANGED <<key, poll, force, freed>>
    BY <1>2 DEF Y!Expire, Y!SetYamlAnalysisStatus, Y!CallbackDrops
  <2>2. AnalysisTypeOK'
    BY <2>1 DEF AnalysisTypeOK
  <2>3. \A k \in Y!Ids : Y!Live(k)' => Y!Live(k) /\ job'[k] = job[k]
    BY <2>1 DEF Y!Live, Y!Claimable, AnalysisTypeOK
  <2> QED BY <2>1, <2>2, <2>3, Calmer
<1>3. CASE Y!CallbackFails(i)
  <2>0. PICK y : y = job[i].y
    OBVIOUS
  <2>1. job' = [job EXCEPT ![i] = Nil] /\ Y!ReleaseInflightKey(y) /\ UNCHANGED <<poll, force, freed>>
    BY <1>3, <2>0 DEF Y!CallbackFails
  <2>2. AnalysisTypeOK'
    BY <1>0, <2>0, <2>1 DEF AnalysisTypeOK, Y!ReleaseInflightKey
  <2>3. \A k \in Y!Ids : Y!Live(k)' => Y!Live(k) /\ k # i /\ job'[k] = job[k]
    BY <2>1 DEF Y!Live, Y!Claimable, AnalysisTypeOK
  <2>4. <<"job", i>> \in Holders(y)
    BY <1>0, <1>3, <2>0, HolderOf DEF Y!CallbackFails, Y!Live
  <2>5. \A v \in Yamls : Fewer(v)
    BY <2>1, <2>3 DEF Fewer, Submitting, Forcing
  <2>6. Holders(y)' \subseteq Holders(y) \ {<<"job", i>>}
    <3>1. Holders(y)' \subseteq Holders(y) /\ <<"job", i>> \notin Holders(y)'
      BY <1>0, <2>0, <2>3, <2>5, FewerHolders, HolderNext
    <3> QED BY <3>1
  <2> QED BY <1>0, <2>0, <2>1, <2>2, <2>3, <2>4, <2>5, <2>6, ReleaseKeeps
<1> QED BY <1>1, <1>2, <1>3 DEF Y!JobStep

(* Half an hour: a key that expires takes every job with it that was there *)
(* before, and nobody is about to queue one.                               *)
LEMMA TickKeeps ==
  ASSUME AnalysisConstants, AnalysisInv, Y!Tick
  PROVE  AnalysisInv'
<1> USE DEF AnalysisConstants, AnalysisInv
<1>1. UNCHANGED <<poll, force, freed>> /\ (\A p \in Pollers : poll[p].at # "submit") /\ force.at # "submit"
  BY DEF Y!Tick
<1>2. \A y \in Yamls : key'[y] \in 0..TTL /\ key'[y] = IF key[y] = 0 THEN 0 ELSE key[y] - 1
  BY DEF Y!Tick, Y!Older, AnalysisTypeOK
<1>3. \A i \in Y!Ids : /\ job'[i] \in Analysis \cup {Nil}
                       /\ job[i] = Nil => job'[i] = Nil
                       /\ job[i] # Nil => /\ job[i] \in Analysis
                                          /\ job'[i].y = job[i].y /\ job'[i].running = job[i].running
                                          /\ job'[i].age = IF job[i].age < TTL THEN job[i].age + 1 ELSE job[i].age
  <2> SUFFICES ASSUME NEW i \in Y!Ids
               PROVE  /\ job'[i] \in Analysis \cup {Nil}
                      /\ job[i] = Nil => job'[i] = Nil
                      /\ job[i] # Nil => /\ job[i] \in Analysis
                                         /\ job'[i].y = job[i].y /\ job'[i].running = job[i].running
                                         /\ job'[i].age = IF job[i].age < TTL THEN job[i].age + 1 ELSE job[i].age
    OBVIOUS
  <2>1. CASE job[i] = Nil
    BY <2>1 DEF Y!Tick
  <2>2. CASE job[i] # Nil
    <3>1. job[i] \in Analysis
      BY <2>2 DEF AnalysisTypeOK
    <3> DEFINE n == IF job[i].age < TTL THEN job[i].age + 1 ELSE job[i].age
    <3>2. job'[i] = [job[i] EXCEPT !.age = n]
      BY <2>2 DEF Y!Tick
    <3>3. n \in Nat
      BY <3>1 DEF Analysis
    <3> HIDE DEF n
    <3>4. job'[i] \in Analysis /\ job'[i].y = job[i].y /\ job'[i].running = job[i].running /\ job'[i].age = n
      BY <3>1, <3>2, <3>3, JobTypes
    <3> QED BY <2>2, <3>1, <3>4 DEF n
  <2> QED BY <2>1, <2>2
<1>4. AnalysisTypeOK'
  <2>1. job' = [i \in Y!Ids |-> job'[i]] /\ key' = [y \in Yamls |-> key'[y]]
    BY DEF Y!Tick
  <2> QED BY <1>1, <1>2, <1>3, <2>1 DEF AnalysisTypeOK
<1>5. \A i \in Y!Ids : Y!Live(i)' => /\ Y!Live(i) /\ job'[i].y = job[i].y /\ job[i].y \in Yamls
                                     /\ job'[i].age = job[i].age + 1 /\ job'[i].age < TTL
  <2> SUFFICES ASSUME NEW i \in Y!Ids, Y!Live(i)'
               PROVE  /\ Y!Live(i) /\ job'[i].y = job[i].y /\ job[i].y \in Yamls
                      /\ job'[i].age = job[i].age + 1 /\ job'[i].age < TTL
    OBVIOUS
  <2>1. job[i] # Nil /\ job[i].age \in Nat /\ job[i].y \in Yamls /\ job[i].running \in BOOLEAN
    BY <1>3 DEF Y!Live, Analysis
  <2>2. CASE job[i].running
    <3>1. Y!Live(i) /\ job[i].age + 1 # TTL
      BY <2>1, <2>2 DEF Y!Live, Y!Tick
    <3> QED BY <1>3, <2>1, <3>1 DEF NoneYounger
  <2>3. CASE ~job[i].running
    <3>1. job'[i].age <= Deadline
      BY <1>3, <2>1, <2>3 DEF Y!Live, Y!Claimable
    <3>2. job'[i].age = job[i].age + 1
      BY <1>3, <2>1, <3>1
    <3>3. Y!Live(i)
      BY <2>1, <2>3, <3>1, <3>2 DEF Y!Live, Y!Claimable
    <3> QED BY <1>3, <2>1, <3>1, <3>2, <3>3
  <2> QED BY <2>1, <2>2, <2>3
<1>6. NoneYounger'
  <2> SUFFICES ASSUME NEW i \in Y!Ids, Y!Live(i)'
               PROVE  job'[i].age < TTL /\ (key'[job'[i].y] = 0 \/ key'[job'[i].y] + job'[i].age >= TTL)
    BY DEF NoneYounger
  <2>1. job[i].age \in Nat /\ key[job[i].y] \in Nat
    BY <1>3, <1>5 DEF Y!Live, Analysis, AnalysisTypeOK
  <2> QED BY <1>2, <1>5, <2>1 DEF NoneYounger
<1>7. Counted'
  <2> SUFFICES ASSUME NEW y \in Yamls PROVE Cardinality(Holders(y)') <= Budget(y)'
    BY DEF Counted
  <2>1. Holders(y)' \subseteq Holders(y)
    BY <1>1, <1>5, FewerHolders DEF Fewer
  <2>2. IsFiniteSet(Holders(y)) /\ IsFiniteSet(Holders(y)') /\ Cardinality(Holders(y)) <= Budget(y)
    BY HoldersFinite DEF Counted
  <2>3. Cardinality(Holders(y)') <= Cardinality(Holders(y)) /\ Cardinality(Holders(y)) \in Nat /\ Cardinality(Holders(y)') \in Nat
    BY <2>1, <2>2, FewerOf
  <2>4. CASE key'[y] = 0 /\ key[y] # 0
    <3>1. Holders(y)' = {}
      <4> SUFFICES ASSUME NEW x \in Holders(y)' PROVE FALSE
        OBVIOUS
      <4>1. PICK i \in Y!Ids : Y!Live(i)' /\ job'[i].y = y
        BY <1>1, HolderNext
      <4>2. Y!Live(i) /\ job[i].y = y /\ job[i].age + 1 < TTL /\ job[i].age \in Nat
        BY <1>3, <1>5, <4>1 DEF Analysis, Y!Live
      <4>3. key[y] = 1
        BY <1>2, <2>4 DEF AnalysisTypeOK
      <4> QED BY <4>2, <4>3 DEF NoneYounger
    <3>2. Cardinality(Holders(y)') = 0
      BY <2>2, <3>1, FewerOf
    <3> QED BY <1>1, <3>2 DEF Budget, AnalysisTypeOK
  <2>5. CASE ~(key'[y] = 0 /\ key[y] # 0)
    <3>1. Budget(y)' = Budget(y) /\ Budget(y) \in Nat
      BY <1>1, <1>2, <2>5 DEF Budget, AnalysisTypeOK
    <3> QED BY <2>2, <2>3, <3>1
  <2> QED BY <2>4, <2>5
<1>8. NewKeys'
  BY <1>1 DEF NewKeys, Submitting, Forcing
<1> QED BY <1>4, <1>6, <1>7, <1>8

LEMMA AnalysisStep ==
  ASSUME AnalysisConstants, AnalysisInv, [Y!Next]_Y!vars
  PROVE  AnalysisInv'
<1>1. CASE UNCHANGED Y!vars
  <2>1. UNCHANGED <<row, key, job, poll, force, fails, forced, freed>>
    BY <1>1 DEF Y!vars
  <2>2. AnalysisTypeOK'
    BY <2>1 DEF AnalysisInv, AnalysisTypeOK
  <2> QED BY <2>1, <2>2, Calmer DEF Y!Live, Y!Claimable
<1>2. ASSUME NEW p \in Pollers, Y!PollStep(p) PROVE AnalysisInv'
  <2>1. CASE Y!GetUnanalyzedYamls(p)
    <3>1. Y!DbUnanalyzed \in SUBSET Yamls
      BY DEF Y!DbUnanalyzed
    <3>2. poll' \in [Pollers -> PollState] /\ poll'[p].at = "next"
          /\ \A q \in Pollers \ {p} : poll'[q] = poll[q]
      BY <2>1, <3>1, PollTypes DEF Y!GetUnanalyzedYamls, AnalysisInv, AnalysisTypeOK
    <3>3. AnalysisTypeOK'
      BY <2>1, <3>2 DEF Y!GetUnanalyzedYamls, AnalysisInv, AnalysisTypeOK
    <3> QED BY <2>1, <3>2, <3>3, Calmer DEF Y!GetUnanalyzedYamls, Y!Live, Y!Claimable
  <2> QED BY <1>2, <2>1, TakeKeyKeeps, SubmitKeeps DEF Y!PollStep
<1> QED BY <1>1, <1>2, ForceKeeps, JobKeeps, TickKeeps DEF Y!Next

(* However the pollers of several processes, forced requests, workers and  *)
(* failures interleave (enqueue_job_in and its lost replies, the key's     *)
(* time to live), a YAML has one job that runs or may run, and one more    *)
(* for each time its key was given up.                                     *)
THEOREM AnalysedOneAtATime ==
  ASSUME AnalysisConstants PROVE Y!Spec => []OneJobAtATime
<1>1. Y!Init => AnalysisInv
  BY AnalysisInit
<1>2. AnalysisInv /\ [Y!Next]_Y!vars => AnalysisInv'
  BY AnalysisStep
<1>3. AnalysisInv => OneJobAtATime
  <2> SUFFICES ASSUME AnalysisInv, NEW y \in Yamls
               PROVE  Cardinality({i \in Y!Ids : Y!Live(i) /\ job[i].y = y}) <= 1 + freed[y]
    BY Zenon DEF OneJobAtATime, Y!OneJobAtATime, Cardinality, Y!Cardinality
  <2> DEFINE Jobs == {i \in Y!Ids : Y!Live(i) /\ job[i].y = y}
             f == [i \in Jobs |-> <<"job", i>>]
             H == Holders(y)
  <2>1. IsFiniteSet(Jobs) /\ IsFiniteSet(H)
    BY IdsFinite, FS_Subset, HoldersFinite
  <2>2. f \in Injection(Jobs, H)
    <3>1. \A i \in Jobs : f[i] \in H
      BY HolderOf
    <3>2. \A i, k \in Jobs : f[i] = f[k] => i = k
      OBVIOUS
    <3> QED BY <3>1, <3>2 DEF Injection, IsInjective
  <2>3. Cardinality(H) <= 1 + freed[y] /\ freed[y] \in Nat
    <3>1. Cardinality(H) \in Nat /\ Cardinality(H) <= Budget(y)
      BY <2>1, FS_CardinalityType DEF AnalysisInv, Counted
    <3> QED BY <3>1 DEF AnalysisInv, AnalysisTypeOK, AnalysisConstants, Budget
  <2> HIDE DEF Jobs, f, H
  <2>4. Cardinality(Jobs) <= Cardinality(H)
    BY <2>1, <2>2, FS_Injection
  <2>5. Cardinality(Jobs) \in Nat /\ Cardinality(H) \in Nat
    BY <2>1, FS_CardinalityType
  <2> QED BY <2>3, <2>4, <2>5 DEF Jobs
<1> QED BY <1>1, <1>2, <1>3, PTL DEF Y!Spec

-----------------------------------------------------------------------------
(* The dashboard of a hosted room                                          *)

DashConstants == TTL \in Nat \ {0} /\ Nil \notin Readers

Said == [on : SUBSET D!Switches, owner : Owners, info : Nat, sure : BOOLEAN]
Asking == [at : {"lock", "fetch"}, info : Nat, owner : Owners, clean : BOOLEAN]
Merging == [at : {"merge"}, clean : BOOLEAN, said : Said]
Resting == [at : {"idle"}]
Answer == [said : Said, clean : BOOLEAN]
Held == [age : Nat, said : Said]
Plain == [at : {"idle", "drop", "notify"}]
Loads == [at : {"load"}, password : Passwords \cup {Nil}]
LobbyRow == [owner : Owners, password : Passwords \cup {Nil}]

DashTypeOK ==
  /\ apx \in SUBSET D!Switches
  /\ lobby \in LobbyRow
  /\ store \in Passwords \cup {Nil}
  /\ apRoom \in Nat \cup {Nil}
  /\ cache \in Held \cup {Nil}
  /\ lock \in Readers \cup {Nil}
  /\ reader \in [Readers -> Asking \cup Merging \cup Resting]
  /\ writer \in [Writers -> Plain \cup Loads]
  /\ answer \in Answer \cup {Nil}
  /\ overlap \in BOOLEAN

(* Who puts an answer together has the lock.                               *)
LockHeld == \A r \in Readers : reader[r].at \in {"fetch", "merge"} => lock = r

(* A request is clean only while nothing is changing; and what is said of  *)
(* the switches is so, wherever it has got to, while no change has still   *)
(* to drop it.                                                             *)
NoWriterAt(s) == \A w \in Writers : writer[w].at # s
CleanIsQuiet ==
  /\ \A r \in Readers : reader[r].at # "idle" /\ reader[r].clean => D!Quiet
  /\ answer # Nil /\ answer.clean => D!Quiet
TrueNow(said) == said.sure => said.on = apx
SaidIsTrue ==
  NoWriterAt("drop") =>
    /\ cache # Nil => TrueNow(cache.said)
    /\ \A r \in Readers : reader[r].at = "merge" => TrueNow(reader[r].said)
    /\ answer # Nil /\ answer.clean => TrueNow(answer.said)

(* The ages of what is known of the AP tracker                             *)
InfoIsRecent ==
  /\ cache # Nil /\ cache.age < TTL => cache.said.info < TTL + cache.age
  /\ \A r \in Readers : reader[r].at \in {"lock", "fetch"} => reader[r].info < TTL
  /\ \A r \in Readers : reader[r].at = "merge" => reader[r].said.info < TTL
  /\ answer # Nil => answer.said.info < 2 * TTL

(* Unless the last load overlapped another one or failed, loads under way  *)
(* have the lobby's password, and when there is none apx has it.           *)
LoadsAgree ==
  (~overlap /\ NoWriterAt("notify")) =>
    /\ \A w \in Writers : writer[w].at = "load" => writer[w].password = lobby.password
    /\ NoWriterAt("load") => store = lobby.password

DashInv ==
  DashTypeOK /\ LockHeld /\ CleanIsQuiet /\ SaidIsTrue /\ InfoIsRecent /\ LoadsAgree

LEMMA DashQuiet ==
  ASSUME DashTypeOK PROVE D!Quiet <=> \A w \in Writers : writer[w].at = "idle"
BY DEF DashTypeOK, D!Quiet, D!Idle, Plain, Loads

LEMMA DashIdle ==
  ASSUME DashTypeOK PROVE \A r \in Readers : reader[r] = D!Idle <=> reader[r].at = "idle"
BY DEF DashTypeOK, D!Idle, Asking, Merging, Resting

LEMMA DashInit ==
  ASSUME DashConstants, D!Init PROVE DashInv
<1> USE DEF D!Init, DashConstants
<1>1. D!Idle \in Resting /\ D!Idle \in Plain /\ D!Idle.at = "idle"
  BY DEF D!Idle, Resting, Plain
<1>2. DashTypeOK
  BY <1>1 DEF DashTypeOK, LobbyRow
<1>3. LockHeld /\ CleanIsQuiet /\ SaidIsTrue /\ InfoIsRecent
  BY <1>1 DEF LockHeld, CleanIsQuiet, SaidIsTrue, InfoIsRecent
<1>4. LoadsAgree
  BY <1>1 DEF LoadsAgree
<1> QED BY <1>2, <1>3, <1>4 DEF DashInv

(* What a step of one reader leaves to be shown                            *)
LEMMA ReaderMoves ==
  ASSUME DashInv, NEW r \in Readers, NEW s \in Asking \cup Merging \cup Resting, D!Show(r, s),
         UNCHANGED <<apx, lobby, store, writer, overlap>>,
         s.at \in {"fetch", "merge"} => lock' = r,
         lock # r => lock' = lock \/ lock = Nil,
         s.at # "idle" /\ s.clean => D!Quiet,
         NoWriterAt("drop") /\ s.at = "merge" => TrueNow(s.said),
         s.at \in {"lock", "fetch"} => s.info < TTL,
         s.at = "merge" => s.said.info < TTL,
         apRoom' \in Nat \cup {Nil}, lock' \in Readers \cup {Nil},
         cache' \in Held \cup {Nil}, answer' \in Answer \cup {Nil},
         answer' # Nil /\ answer'.clean => D!Quiet,
         NoWriterAt("drop") /\ cache' # Nil => TrueNow(cache'.said),
         NoWriterAt("drop") /\ answer' # Nil /\ answer'.clean => TrueNow(answer'.said),
         cache' # Nil /\ cache'.age < TTL => cache'.said.info < TTL + cache'.age,
         answer' # Nil => answer'.said.info < 2 * TTL,
         Nil \notin Readers
  PROVE  DashInv'
<1> USE DEF DashInv
<1>1. reader'[r] = s /\ \A q \in Readers \ {r} : reader'[q] = reader[q]
  BY DEF D!Show, DashTypeOK
<1>2. DashTypeOK'
  BY DEF D!Show, DashTypeOK
<1>3. (D!Quiet' <=> D!Quiet) /\ (NoWriterAt("drop")' <=> NoWriterAt("drop"))
  BY DEF D!Quiet, NoWriterAt
<1>4. LockHeld'
  BY <1>1 DEF LockHeld
<1>5. CleanIsQuiet'
  BY <1>1, <1>3 DEF CleanIsQuiet
<1>6. SaidIsTrue'
  BY <1>1, <1>3 DEF SaidIsTrue, TrueNow
<1>7. InfoIsRecent'
  BY <1>1 DEF InfoIsRecent
<1>8. LoadsAgree'
  BY DEF LoadsAgree, NoWriterAt
<1> QED BY <1>2, <1>4, <1>5, <1>6, <1>7, <1>8

LEMMA ReaderStep ==
  ASSUME DashConstants, DashInv, NEW r \in Readers,
         D!GetTrackerInfo(r) \/ D!Cached(r) \/ D!Miss(r) \/ D!FetchRoomState(r) \/ D!MergeSlots(r)
  PROVE  DashInv'
<1> USE DEF DashConstants
<1>0. /\ reader[r] \in Asking \cup Merging \cup Resting
      /\ cache \in Held \cup {Nil} /\ answer \in Answer \cup {Nil}
      /\ D!Idle \in Resting /\ D!Idle.at = "idle"
  BY DEF DashInv, DashTypeOK, D!Idle, Resting
<1>1. CASE D!GetTrackerInfo(r)
  <2> DEFINE s == [at |-> "lock", info |-> apRoom', owner |-> lobby.owner, clean |-> D!Quiet]
  <2>1. apRoom' \in Nat /\ apRoom' < TTL
    BY <1>1 DEF D!GetTrackerInfo, D!FromRequestApRoom, DashInv, DashTypeOK
  <2>2. D!Quiet \in BOOLEAN /\ lobby.owner \in Owners
    BY DEF D!Quiet, DashInv, DashTypeOK, LobbyRow
  <2>3. s \in Asking /\ s.at = "lock" /\ s.info = apRoom' /\ s.clean = D!Quiet
    BY <2>1, <2>2 DEF Asking
  <2>4. D!Show(r, s) /\ UNCHANGED <<apx, lobby, store, cache, lock, writer, answer, overlap>>
    BY <1>1 DEF D!GetTrackerInfo
  <2> HIDE DEF s
  <2> QED BY <2>1, <2>3, <2>4, <1>0, ReaderMoves
        DEF DashInv, DashTypeOK, CleanIsQuiet, SaidIsTrue, InfoIsRecent
<1>2. CASE D!Cached(r)
  <2>1. /\ cache \in Held /\ cache # Nil /\ cache.age < TTL /\ cache.age \in Nat /\ cache.said \in Said
        /\ cache.said.info \in Nat
    BY <1>0, <1>2 DEF D!Cached, Held, Said
  <2>2. reader[r].at = "lock" /\ reader[r].clean \in BOOLEAN
    BY <1>0, <1>2 DEF D!Cached, Asking, Merging, Resting
  <2>3. answer' \in Answer /\ answer'.said = cache.said /\ answer'.clean = reader[r].clean
    BY <1>2, <2>1, <2>2 DEF D!Cached, Answer
  <2>4. D!Show(r, D!Idle) /\ UNCHANGED <<apx, lobby, store, apRoom, cache, lock, writer, overlap>>
    BY <1>2 DEF D!Cached
  <2>5. answer'.said.info < 2 * TTL
    BY <2>1, <2>3 DEF DashInv, InfoIsRecent
  <2> QED BY <2>1, <2>2, <2>3, <2>4, <2>5, <1>0, ReaderMoves
        DEF DashInv, DashTypeOK, CleanIsQuiet, SaidIsTrue, InfoIsRecent
<1>3. CASE D!Miss(r) /\ lock' # r
  <2>1. D!Show(r, D!Idle) /\ UNCHANGED <<apx, lobby, store, apRoom, cache, lock, writer, answer, overlap>>
    BY <1>3 DEF D!Miss
  <2> QED BY <2>1, <1>0, ReaderMoves
        DEF DashInv, DashTypeOK, CleanIsQuiet, SaidIsTrue, InfoIsRecent
<1>6. CASE D!Miss(r) /\ lock' = r
  <2> DEFINE s == [reader[r] EXCEPT !.at = "fetch"]
  <2>1. reader[r].at = "lock" /\ reader[r] \in Asking /\ lock = Nil
    BY <1>0, <1>6 DEF D!Miss, Asking, Merging, Resting
  <2>2. s \in Asking /\ s.at = "fetch" /\ s.clean = reader[r].clean /\ s.info = reader[r].info
    BY <2>1 DEF Asking
  <2>3. D!Show(r, s) /\ lock' = r /\ UNCHANGED <<apx, lobby, store, apRoom, cache, writer, answer, overlap>>
    BY <1>6 DEF D!Miss
  <2> HIDE DEF s
  <2> QED BY <2>1, <2>2, <2>3, <1>0, ReaderMoves
        DEF DashInv, DashTypeOK, CleanIsQuiet, SaidIsTrue, InfoIsRecent
<1>4. CASE D!FetchRoomState(r)
  <2>1. reader[r].at = "fetch" /\ reader[r] \in Asking /\ lock = r
    BY <1>0, <1>4 DEF D!FetchRoomState, Asking, Merging, Resting, DashInv, LockHeld
  <2>2. PICK on \in SUBSET D!Switches, sure \in BOOLEAN :
          /\ D!Show(r, [at |-> "merge", clean |-> reader[r].clean,
                        said |-> [on |-> on, owner |-> reader[r].owner, info |-> reader[r].info,
                                  sure |-> sure]])
          /\ sure => on = apx
    <3>1. apx \in SUBSET D!Switches /\ {} \in SUBSET D!Switches BY DEF DashInv, DashTypeOK
    <3> QED BY <1>4, <3>1 DEF D!FetchRoomState
  <2> DEFINE a == [on |-> on, owner |-> reader[r].owner, info |-> reader[r].info, sure |-> sure]
             s == [at |-> "merge", clean |-> reader[r].clean, said |-> a]
  <2>3. a \in Said /\ a.on = on /\ a.sure = sure /\ a.info = reader[r].info
    BY <2>1 DEF Said, Asking
  <2>4. TrueNow(a)
    BY <2>2, <2>3 DEF TrueNow
  <2>5. D!Show(r, s)
    BY <2>2
  <2> HIDE DEF a
  <2>6. s \in Merging /\ s.at = "merge" /\ s.clean = reader[r].clean /\ s.said = a
    BY <2>1, <2>3 DEF Merging, Asking
  <2>7. UNCHANGED <<apx, lobby, store, apRoom, cache, lock, writer, answer, overlap>>
    BY <1>4 DEF D!FetchRoomState
  <2> HIDE DEF s
  <2> QED BY <2>1, <2>3, <2>4, <2>5, <2>6, <2>7, <1>0, ReaderMoves
        DEF DashInv, DashTypeOK, CleanIsQuiet, SaidIsTrue, InfoIsRecent
<1>5. CASE D!MergeSlots(r)
  <2>1. /\ reader[r].at = "merge" /\ reader[r] \in Merging /\ lock = r /\ reader[r].said \in Said
        /\ reader[r].clean \in BOOLEAN /\ reader[r].said.info \in Nat
    BY <1>0, <1>5 DEF D!MergeSlots, Asking, Merging, Resting, DashInv, LockHeld, Said
  <2>2. cache' \in Held /\ cache'.age = 0 /\ cache'.said = reader[r].said
    BY <1>5, <2>1 DEF D!MergeSlots, Held
  <2>3. answer' \in Answer /\ answer'.said = reader[r].said /\ answer'.clean = reader[r].clean
    BY <1>5, <2>1 DEF D!MergeSlots, Answer
  <2>4. D!Show(r, D!Idle) /\ lock' = Nil /\ UNCHANGED <<apx, lobby, store, apRoom, writer, overlap>>
    BY <1>5 DEF D!MergeSlots
  <2>5. reader[r].said.info < TTL
    BY <2>1 DEF DashInv, InfoIsRecent
  <2> QED BY <2>1, <2>2, <2>3, <2>4, <2>5, <1>0, ReaderMoves
        DEF DashInv, DashTypeOK, CleanIsQuiet, SaidIsTrue, InfoIsRecent
<1> QED BY <1>1, <1>2, <1>3, <1>4, <1>5, <1>6

(* The records a writer is in, and the marks a change leaves on readers    *)
LEMMA WriterTypes ==
  /\ [at |-> "drop"] \in Plain /\ [at |-> "notify"] \in Plain /\ D!Idle \in Plain
  /\ D!Idle.at = "idle"
  /\ \A p \in Passwords \cup {Nil} : [at |-> "load", password |-> p] \in Loads
BY DEF Plain, Loads, D!Idle

LEMMA Unclean ==
  /\ \A s \in Asking : [s EXCEPT !.clean = FALSE] \in Asking
  /\ \A s \in Asking : [s EXCEPT !.clean = FALSE].at = s.at
  /\ \A s \in Asking : [s EXCEPT !.clean = FALSE].clean = FALSE
  /\ \A s \in Asking : [s EXCEPT !.clean = FALSE].info = s.info
  /\ \A s \in Merging : [s EXCEPT !.clean = FALSE] \in Merging
  /\ \A s \in Merging : [s EXCEPT !.clean = FALSE].at = s.at
  /\ \A s \in Merging : [s EXCEPT !.clean = FALSE].clean = FALSE
  /\ \A s \in Merging : [s EXCEPT !.clean = FALSE].said = s.said
  /\ \A s \in Merging : s.at = "merge"
  /\ \A s \in Asking : s.at \in {"lock", "fetch"}
  /\ \A s \in Resting : s.at = "idle"
BY DEF Asking, Merging, Resting

LEMMA Unsure ==
  /\ \A a \in Said : [a EXCEPT !.sure = FALSE] \in Said
  /\ \A a \in Said : [a EXCEPT !.sure = FALSE].sure = FALSE
  /\ \A a \in Said : [a EXCEPT !.sure = FALSE].info = a.info
  /\ \A a \in Said : [a EXCEPT !.info = D!Older(a.info)].sure = a.sure
  /\ \A a \in Said : [a EXCEPT !.info = D!Older(a.info)].on = a.on
  /\ \A a \in Said : [a EXCEPT !.info = D!Older(a.info)].info = D!Older(a.info)
BY DEF Said

(* A change that begins: nothing is quiet, clean or given out after it, so *)
(* what is left to show is that it does not disturb the passwords.         *)
LEMMA ChangeBegins ==
  ASSUME DashConstants, DashInv, NEW w \in Writers, D!Begin(w), NEW pc \in {"drop", "notify"},
         D!Go(w, [at |-> pc]), apx' \in SUBSET D!Switches, lobby' \in LobbyRow,
         pc = "drop" => lobby' = lobby, pc = "notify" => apx' = apx, UNCHANGED <<store, apRoom, cache, lock, overlap>>
  PROVE  DashInv'
<1> USE DEF DashInv, DashConstants
<1>1. writer'[w].at = pc /\ \A v \in Writers \ {w} : writer'[v] = writer[v]
  BY DEF D!Go, DashTypeOK
<1>2. writer' \in [Writers -> Plain \cup Loads]
  BY WriterTypes DEF D!Go, DashTypeOK
<1>3. \A r \in Readers :
        /\ reader'[r] \in Asking \cup Merging \cup Resting
        /\ reader'[r].at = reader[r].at
        /\ reader'[r].at # "idle" => ~reader'[r].clean
        /\ reader'[r].at \in {"lock", "fetch"} => reader'[r].info = reader[r].info
        /\ reader'[r].at = "merge" => reader'[r].said = reader[r].said
  <2> TAKE r \in Readers
  <2>1. reader[r] \in Asking \cup Merging \cup Resting
    BY DEF DashTypeOK
  <2>2. CASE reader[r] = D!Idle
    <3>1. reader'[r] = reader[r] /\ reader[r].at = "idle"
      BY <2>2 DEF D!Begin, D!Idle
    <3> QED BY <3>1, <2>1
  <2>3. CASE reader[r] # D!Idle
    <3>1. reader'[r] = [reader[r] EXCEPT !.clean = FALSE]
      BY <2>3 DEF D!Begin
    <3>2. reader[r] \in Asking \cup Merging
      BY <2>1, <2>3 DEF Resting, D!Idle
    <3> QED BY <3>1, <3>2, Unclean
  <2> QED BY <2>2, <2>3
<1>4. DashTypeOK'
  <2>1. reader' = [r \in Readers |-> reader'[r]]
    BY DEF D!Begin
  <2>2. reader' \in [Readers -> Asking \cup Merging \cup Resting]
    BY <2>1, <1>3
  <2> QED BY <1>2, <2>2 DEF DashTypeOK, D!Begin
<1>5. ~D!Quiet'
  BY <1>1 DEF D!Quiet, D!Idle
<1>6. answer' = Nil
  BY DEF D!Begin
<1>7. LockHeld' /\ CleanIsQuiet' /\ InfoIsRecent'
  BY <1>3, <1>5, <1>6 DEF LockHeld, CleanIsQuiet, InfoIsRecent
<1>9. SaidIsTrue'
  <2>1. CASE pc = "drop"
    BY <1>1, <2>1 DEF SaidIsTrue, NoWriterAt
  <2>2. CASE pc = "notify"
    <3>1. D!Idle.at = "idle" /\ writer[w] = D!Idle
      BY WriterTypes DEF D!Begin
    <3>2. NoWriterAt("drop")' => NoWriterAt("drop")
      BY <1>1, <3>1 DEF NoWriterAt
    <3> QED BY <1>3, <1>6, <2>2, <3>2 DEF SaidIsTrue, TrueNow
  <2> QED BY <2>1, <2>2
<1>8. LoadsAgree'
  BY <1>1, DashQuiet DEF LoadsAgree, NoWriterAt, D!Begin, D!Idle
<1> QED BY <1>4, <1>7, <1>8, <1>9

(* The steps of a change that is under way and goes on                     *)
LEMMA ChangeGoesOn ==
  ASSUME DashConstants, DashInv, NEW w \in Writers,
         D!NotifyProxyPasswordRefresh(w) \/ D!NotifyFails(w) \/ D!LoadPasswordsIntoStore(w)
  PROVE  DashInv'
<1> USE DEF DashInv, DashConstants
<1>1. /\ writer[w].at \in {"notify", "load"} /\ writer[w] \in Plain \cup Loads
      /\ UNCHANGED <<apx, lobby, apRoom, cache, lock, reader, answer>>
  BY DEF D!NotifyProxyPasswordRefresh, D!NotifyFails, D!LoadPasswordsIntoStore, DashTypeOK
<1>2. /\ writer'[w].at \in {"load", "drop"}
      /\ \A v \in Writers \ {w} : writer'[v] = writer[v]
      /\ writer' \in [Writers -> Plain \cup Loads]
      /\ store' \in Passwords \cup {Nil}
      /\ overlap' \in BOOLEAN
  <2>1. lobby.password \in Passwords \cup {Nil}
    BY DEF DashTypeOK, LobbyRow
  <2>2. CASE D!NotifyProxyPasswordRefresh(w)
    BY <2>1, <2>2, WriterTypes DEF D!NotifyProxyPasswordRefresh, D!Go, D!Loading, DashTypeOK
  <2>3. CASE D!NotifyFails(w)
    BY <2>3, WriterTypes DEF D!NotifyFails, D!Go, DashTypeOK
  <2>4. CASE D!LoadPasswordsIntoStore(w)
    <3>1. writer[w] \in Loads /\ writer[w].password \in Passwords \cup {Nil}
      BY <1>1, <2>4 DEF D!LoadPasswordsIntoStore, Plain, Loads
    <3> QED BY <3>1, <2>4, WriterTypes DEF D!LoadPasswordsIntoStore, D!Go, DashTypeOK
  <2> QED BY <2>2, <2>3, <2>4
<1>3. DashTypeOK'
  BY <1>1, <1>2 DEF DashTypeOK
<1>4. ~D!Quiet /\ ~D!Quiet'
  BY <1>1, <1>2 DEF D!Quiet, D!Idle
<1>5. LockHeld' /\ CleanIsQuiet' /\ SaidIsTrue' /\ InfoIsRecent'
  <2>1. NoWriterAt("drop")' => NoWriterAt("drop")
    BY <1>1, <1>2 DEF NoWriterAt
  <2> QED BY <1>1, <1>4, <2>1 DEF LockHeld, CleanIsQuiet, SaidIsTrue, TrueNow, InfoIsRecent
<1>6. LoadsAgree'
  <2>1. CASE D!NotifyProxyPasswordRefresh(w)
    <3>1. writer'[w].at = "load" /\ writer'[w].password = lobby.password
      BY <2>1 DEF D!NotifyProxyPasswordRefresh, D!Go, DashTypeOK
    <3>2. ~overlap' => \A v \in Writers \ {w} : writer[v].at # "load"
      BY <2>1 DEF D!NotifyProxyPasswordRefresh, D!Loading
    <3> QED BY <3>1, <3>2, <1>1, <1>2 DEF LoadsAgree, NoWriterAt
  <2>2. CASE D!NotifyFails(w)
    BY <2>2 DEF D!NotifyFails, LoadsAgree
  <2>3. CASE D!LoadPasswordsIntoStore(w)
    <3>1. writer'[w].at = "drop" /\ store' = writer[w].password /\ writer[w].at = "load" /\ overlap' = overlap
      BY <2>3 DEF D!LoadPasswordsIntoStore, D!Go, DashTypeOK
    <3> QED BY <3>1, <1>1, <1>2 DEF LoadsAgree, NoWriterAt
  <2> QED BY <2>1, <2>2, <2>3
<1> QED BY <1>3, <1>5, <1>6

(* A change at the lobby that ends before apx is told of it                *)
LEMMA ChangeUntold ==
  ASSUME DashConstants, DashInv, NEW w \in Writers, D!LobbyAnswerLost(w)
  PROVE  DashInv'
<1> USE DEF DashInv, DashConstants
<1>1. /\ writer[w].at = "notify" /\ D!Go(w, D!Idle) /\ overlap' = TRUE
      /\ UNCHANGED <<apx, lobby, store, apRoom, cache, lock, reader, answer>>
  BY DEF D!LobbyAnswerLost
<1>2. /\ writer'[w].at = "idle"
      /\ \A v \in Writers \ {w} : writer'[v] = writer[v]
      /\ writer' \in [Writers -> Plain \cup Loads]
  BY <1>1, WriterTypes DEF D!Go, DashTypeOK
<1>3. ~D!Quiet /\ (NoWriterAt("drop")' <=> NoWriterAt("drop"))
  BY <1>1, <1>2, DashQuiet DEF NoWriterAt
<1>4. DashTypeOK'
  BY <1>1, <1>2 DEF DashTypeOK
<1>5. LockHeld' /\ CleanIsQuiet' /\ SaidIsTrue' /\ InfoIsRecent' /\ LoadsAgree'
  BY <1>1, <1>3 DEF LockHeld, CleanIsQuiet, SaidIsTrue, TrueNow, InfoIsRecent, LoadsAgree
<1> QED BY <1>4, <1>5

(* A change ends: either nothing is in the cache any more, or nothing that *)
(* is there or on its way there is sure.                                   *)
LEMMA ChangeEnds ==
  ASSUME DashConstants, DashInv, NEW w \in Writers, D!AnswerLost(w) \/ D!Drop(w)
  PROVE  DashInv'
<1> USE DEF DashInv, DashConstants
<1>1. /\ writer[w].at = "drop" /\ D!Go(w, D!Idle)
      /\ UNCHANGED <<apx, lobby, store, apRoom, lock, answer, overlap>>
  BY DEF D!AnswerLost, D!Drop
<1>2. /\ writer'[w].at = "idle"
      /\ \A v \in Writers \ {w} : writer'[v] = writer[v]
      /\ writer' \in [Writers -> Plain \cup Loads]
  BY <1>1, WriterTypes DEF D!Go, DashTypeOK
<1>3. ~D!Quiet
  BY <1>1, DashQuiet
<1>4. \A r \in Readers :
        /\ reader'[r] \in Asking \cup Merging \cup Resting
        /\ reader'[r].at = reader[r].at
        /\ reader'[r].at # "idle" => ~reader'[r].clean
        /\ reader'[r].at \in {"lock", "fetch"} => reader'[r].info = reader[r].info
        /\ reader'[r].at = "merge" => reader'[r].said.info = reader[r].said.info /\ ~reader'[r].said.sure
  <2> TAKE r \in Readers
  <2>1. reader[r] \in Asking \cup Merging \cup Resting /\ (reader[r].at # "idle" => ~reader[r].clean)
    BY <1>3 DEF DashTypeOK, CleanIsQuiet
  <2>2. CASE D!AnswerLost(w) /\ reader[r].at = "merge"
    <3>1. reader[r] \in Merging /\ reader[r].said \in Said
      BY <2>1, <2>2, Unclean DEF Merging
    <3>2. reader'[r] = [reader[r] EXCEPT !.said = [reader[r].said EXCEPT !.sure = FALSE]]
      BY <2>2, <3>1 DEF D!AnswerLost, Merging
    <3>3. [reader[r].said EXCEPT !.sure = FALSE] \in Said
      BY <3>1, Unsure
    <3>4. reader'[r] \in Merging /\ reader'[r].clean = reader[r].clean
          /\ reader'[r].said = [reader[r].said EXCEPT !.sure = FALSE] /\ reader'[r].at = "merge"
      BY <3>1, <3>2, <3>3 DEF Merging
    <3> QED BY <3>1, <3>4, <2>1, <2>2, Unsure
  <2>3. CASE D!AnswerLost(w) /\ reader[r].at # "merge"
    <3>1. reader'[r] = reader[r]
      BY <2>3 DEF D!AnswerLost
    <3> QED BY <3>1, <2>1, <2>3
  <2>4. CASE D!Drop(w)
    <3>1. reader'[r] = reader[r] /\ lock = Nil
      BY <2>4 DEF D!Drop
    <3>2. reader[r].at # "merge"
      BY <3>1 DEF LockHeld
    <3> QED BY <3>1, <3>2, <2>1
  <2> QED BY <2>2, <2>3, <2>4
<1>5. /\ cache' \in Held \cup {Nil}
      /\ cache' # Nil => /\ ~cache'.said.sure /\ cache # Nil
                          /\ cache'.age = cache.age /\ cache'.said.info = cache.said.info
  <2>1. CASE D!Drop(w) \/ cache = Nil
    BY <2>1 DEF D!Drop, D!AnswerLost
  <2>2. CASE D!AnswerLost(w) /\ cache # Nil
    <3>1. cache \in Held /\ cache.said \in Said
      BY <2>2 DEF DashTypeOK, Held
    <3>2. cache' = [cache EXCEPT !.said = [cache.said EXCEPT !.sure = FALSE]]
      BY <2>2, <3>1 DEF D!AnswerLost, Held
    <3>3. [cache.said EXCEPT !.sure = FALSE] \in Said
      BY <3>1, Unsure
    <3>4. cache' \in Held /\ cache'.age = cache.age /\ cache'.said = [cache.said EXCEPT !.sure = FALSE]
      BY <3>1, <3>2, <3>3 DEF Held
    <3> QED BY <3>1, <3>4, <2>2, Unsure
  <2> QED BY <2>1, <2>2
<1>6. DashTypeOK'
  <2>1. reader' = [r \in Readers |-> reader'[r]]
    BY DEF D!AnswerLost, D!Drop, DashTypeOK
  <2>2. reader' \in [Readers -> Asking \cup Merging \cup Resting]
    BY <2>1, <1>4
  <2> QED BY <1>1, <1>2, <1>5, <2>2 DEF DashTypeOK
<1>7. LockHeld' /\ CleanIsQuiet'
  BY <1>1, <1>3, <1>4 DEF LockHeld, CleanIsQuiet
<1>8. SaidIsTrue'
  BY <1>1, <1>3, <1>4, <1>5 DEF SaidIsTrue, TrueNow, CleanIsQuiet
<1>9. InfoIsRecent'
  BY <1>1, <1>4, <1>5 DEF InfoIsRecent
<1>10. LoadsAgree'
  BY <1>1, <1>2 DEF LoadsAgree, NoWriterAt
<1> QED BY <1>6, <1>7, <1>8, <1>9, <1>10

(* Time passes while no request is under way.                              *)
LEMMA DashTick ==
  ASSUME DashConstants, DashInv, D!Tick
  PROVE  DashInv'
<1> USE DEF DashInv, DashConstants
<1>1. UNCHANGED <<apx, lobby, store, lock, reader, writer, overlap>> /\ answer' = Nil
  BY DEF D!Tick
<1>2. \A n \in Nat : D!Older(n) \in Nat /\ D!Older(n) >= n /\ D!Older(n) <= n + 1
                     /\ (n < TTL => D!Older(n) = n + 1)
  BY DEF D!Older
<1>3. /\ cache' \in Held \cup {Nil}
      /\ cache' # Nil =>
           /\ cache # Nil /\ cache.age \in Nat /\ cache.said.info \in Nat
           /\ cache'.age = D!Older(cache.age) /\ cache'.said.info = D!Older(cache.said.info)
           /\ cache'.said.sure = cache.said.sure /\ cache'.said.on = cache.said.on
  <2>1. CASE cache = Nil
    BY <2>1 DEF D!Tick
  <2>2. CASE cache # Nil
    <3>1. cache \in Held /\ cache.said \in Said /\ cache.age \in Nat /\ cache.said.info \in Nat
      BY <2>2 DEF DashTypeOK, Held, Said
    <3> DEFINE a == [cache.said EXCEPT !.info = D!Older(cache.said.info)]
    <3>2. cache' = [age |-> D!Older(cache.age), said |-> a]
      BY <2>2, <3>1 DEF D!Tick, Said
    <3>3. a \in Said
      BY <3>1, <1>2 DEF Said
    <3>4. a.info = D!Older(cache.said.info) /\ a.sure = cache.said.sure /\ a.on = cache.said.on
      BY <3>1, Unsure
    <3> HIDE DEF a
    <3>5. cache' \in Held /\ cache'.age = D!Older(cache.age) /\ cache'.said = a
      BY <3>1, <3>2, <3>3, <1>2 DEF Held
    <3> QED BY <3>1, <3>4, <3>5, <2>2
  <2> QED BY <2>1, <2>2
<1>4. DashTypeOK'
  BY <1>1, <1>2, <1>3 DEF DashTypeOK, D!Tick
<1>5. (D!Quiet' <=> D!Quiet) /\ (NoWriterAt("drop")' <=> NoWriterAt("drop"))
  BY <1>1 DEF D!Quiet, NoWriterAt
<1>6. LockHeld' /\ CleanIsQuiet'
  BY <1>1, <1>5 DEF LockHeld, CleanIsQuiet
<1>7. SaidIsTrue'
  BY <1>1, <1>3, <1>5 DEF SaidIsTrue, TrueNow
<1>8. InfoIsRecent'
  <2>1. ASSUME cache' # Nil, cache'.age < TTL PROVE cache'.said.info < TTL + cache'.age
    BY <2>1, <1>2, <1>3 DEF InfoIsRecent
  <2> QED BY <2>1, <1>1 DEF InfoIsRecent
<1>9. LoadsAgree'
  BY <1>1 DEF LoadsAgree, NoWriterAt
<1> QED BY <1>4, <1>6, <1>7, <1>8, <1>9

LEMMA DashStep ==
  ASSUME DashConstants, DashInv, [D!Next]_D!vars
  PROVE  DashInv'
<1>1. CASE UNCHANGED D!vars
  BY <1>1 DEF D!vars, DashInv, DashTypeOK, LockHeld, CleanIsQuiet, SaidIsTrue, TrueNow, InfoIsRecent,
              LoadsAgree, NoWriterAt, D!Quiet
<1>2. ASSUME NEW r \in Readers,
             D!GetTrackerInfo(r) \/ D!Cached(r) \/ D!Miss(r) \/ D!FetchRoomState(r) \/ D!MergeSlots(r)
      PROVE  DashInv'
  BY <1>2, ReaderStep
<1>3. ASSUME NEW w \in Writers, D!ProxyToApx(w) PROVE DashInv'
  <2>1. apx' \in SUBSET D!Switches
    BY <1>3 DEF D!ProxyToApx, D!ProxyAddExclusion, D!ProxyRemoveExclusion, D!ProxyAddSlotExclusion,
                D!ProxyRemoveSlotExclusion, D!AddFullFeed, D!RemoveFullFeed, D!Switches, DashInv, DashTypeOK
  <2>2. D!Begin(w) /\ D!Go(w, [at |-> "drop"]) /\ UNCHANGED <<lobby, store, apRoom, cache, lock, overlap>>
    BY <1>3 DEF D!ProxyToApx
  <2> QED BY <2>1, <2>2, ChangeBegins DEF DashInv, DashTypeOK
<1>4. ASSUME NEW w \in Writers, D!SetPassword(w) \/ D!GenAllPasswords(w) \/ D!ChangeYamlOwner(w)
      PROVE  DashInv'
  <2>1. lobby \in LobbyRow
    BY DEF DashInv, DashTypeOK
  <2>2. lobby' \in LobbyRow
    BY <1>4, <2>1 DEF D!SetPassword, D!LobbySetPassword, D!GenAllPasswords, D!LobbyGenAllPasswords,
                      D!ChangeYamlOwner, D!LobbyUpdateOwner, LobbyRow
  <2>3. D!Begin(w) /\ D!Go(w, [at |-> "notify"]) /\ UNCHANGED <<apx, store, apRoom, cache, lock, overlap>>
    BY <1>4 DEF D!SetPassword, D!GenAllPasswords, D!ChangeYamlOwner
  <2> QED BY <2>2, <2>3, ChangeBegins DEF DashInv, DashTypeOK
<1> QED BY <1>1, <1>2, <1>3, <1>4, ChangeGoesOn, ChangeUntold, ChangeEnds, DashTick DEF D!Next

(* ApRoomCache, TrackerInfoCache and notify_proxy_password_refresh: with   *)
(* any number of moderators at once, an answer that no change overlapped   *)
(* shows the switches as they are at apx, no answer is older than both     *)
(* times to live together, and apx has the lobby's password once all       *)
(* changes are through, unless the last load overlapped another or failed, *)
(* or a change since then ended before apx was told.                       *)
THEOREM DashboardStaysTrue ==
  ASSUME DashConstants PROVE D!Spec => []DashboardIsTrue
<1>1. D!Init => DashInv
  BY DashInit
<1>2. DashInv /\ [D!Next]_D!vars => DashInv'
  BY DashStep
<1>3. DashInv => DashboardIsTrue
  BY DashQuiet DEF DashboardIsTrue, DashInv, D!DashboardIsTrue, D!ShowsWhatIs, D!AnswersAreRecent, D!PasswordsAgree,
                   SaidIsTrue, TrueNow, InfoIsRecent, LoadsAgree, NoWriterAt
<1> QED BY <1>1, <1>2, <1>3, PTL DEF D!Spec

-----------------------------------------------------------------------------
(* The teams of the review tool                                            *)

TeamConstants ==
  /\ Roles \subseteq 1..6
  /\ Rooms \cap Presets = {}
  /\ Teams \cap {Nil, "new", "gone"} = {}
  /\ MaxRules \in Nat /\ MaxNotes \in Nat /\ MaxImport \in Int

TeamRequest == [op : T!TeamOps, on : Teams]
PresetRequest == [op : T!PresetOps, on : Presets, left : Int]
RoomRequest == [op : T!RoomOps, on : Rooms]
RoleWrite == [op : {"write_role"}, on : Teams, who : Users, role : Roles]
MemberDrop == [op : {"drop_member"}, on : Teams, who : Users]
Request == {T!Idle} \cup TeamRequest \cup PresetRequest \cup RoomRequest \cup RoleWrite \cup MemberDrop

(* A request under way was checked: the user has had the role for it, and  *)
(* only a super admin is about to make somebody an admin.                  *)
Checked(u, t, has) ==
  /\ t.op \in T!PresetOps => has[u][t.on] >= T!RuleEditor
  /\ t.op \in T!RoomOps => has[u][t.on] >= T!Minimum(t.op)
  /\ t.op = "write_role" /\ t.role = T!Admin => u \in Super

TasksOK ==
  /\ task \in [Users -> Request]
  /\ \A u \in Users : Checked(u, task[u], held)

HeldOK ==
  /\ held \in [Users -> [T!Things -> 0..7]]
  /\ \A u \in Users, x \in T!Things : held[u][x] >= T!RoleOn(u, x)

(* Teams, members, rooms and presets                                       *)
TeamsOK ==
  /\ team \in [Teams -> {"new", "live", "gone"}]
  /\ member \in [Teams -> [Users -> Roles \cup {0}]]
  /\ rooms \subseteq Teams \X Rooms
  /\ preset \in [Presets -> Teams \cup {Nil, "new", "gone"}]
  /\ \A t \in Teams : team[t] # "live" => \A u \in Users : member[t][u] = 0
  /\ \A x \in rooms : team[x[1]] = "live"
  /\ \A p \in Presets : preset[p] \in Teams => team[preset[p]] = "live"

(* Rules, choices of presets, judgements and notes                         *)
RowsOK ==
  /\ rules \subseteq T!PresetRule /\ IsFiniteSet(rules)
  /\ notes \subseteq T!YamlReviewNote /\ IsFiniteSet(notes)
  /\ config \in [Rooms -> Presets \cup {Nil}]
  /\ status \in [Rooms -> Users \cup {Nil}] /\ edited \in [Rooms -> Users \cup {Nil}]
  /\ \A r \in rules : T!Exists(r.preset)
  /\ \A x \in Rooms : config[x] # Nil => T!Exists(config[x])

TeamsInv == TeamsOK /\ RowsOK /\ TasksOK /\ HeldOK /\ T!AuthorsWereEntitled

LEMMA MaxOfRoles ==
  ASSUME NEW S \in SUBSET (0..7), NEW e \in S
  PROVE  T!Max(S) \in S /\ \A y \in S : T!Max(S) >= y
<1>1. \E x \in S : \A y \in S : x >= y
  <2>1. CASE 7 \in S BY <2>1
  <2>2. CASE 7 \notin S /\ 6 \in S BY <2>2
  <2>3. CASE S \subseteq 0..5 /\ 5 \in S BY <2>3
  <2>4. CASE S \subseteq 0..4 /\ 4 \in S BY <2>4
  <2>5. CASE S \subseteq 0..3 /\ 3 \in S BY <2>5
  <2>6. CASE S \subseteq 0..2 /\ 2 \in S BY <2>6
  <2>7. CASE S \subseteq 0..1 /\ 1 \in S BY <2>7
  <2>8. CASE S \subseteq 0..0 BY <2>8
  <2> QED BY <2>1, <2>2, <2>3, <2>4, <2>5, <2>6, <2>7, <2>8
<1> QED BY <1>1 DEF T!Max

LEMMA MemberRange ==
  ASSUME TeamConstants, NEW m \in [Teams -> [Users -> Roles \cup {0}]], NEW t \in Teams, NEW u \in Users
  PROVE  m[t][u] \in 0..6
<1>1. \A r \in Roles : r \in 1..6
  BY DEF TeamConstants
<1>2. m[t][u] \in Roles \cup {0}
  OBVIOUS
<1> QED BY <1>1, <1>2

LEMMA RoomRoleRange ==
  ASSUME TeamConstants, NEW m \in [Teams -> [Users -> Roles \cup {0}]], NEW ts \in SUBSET Teams,
         NEW u \in Users
  PROVE  /\ T!Max({0} \cup {m[t][u] : t \in ts}) \in 0..6
         /\ T!Max({0} \cup {m[t][u] : t \in ts}) # 0 <=> \E t \in ts : m[t][u] # 0
<1> DEFINE S == {0} \cup {m[t][u] : t \in ts}
<1>1. \A t \in ts : m[t][u] \in 0..6
  BY MemberRange
<1>2. \A e \in S : e = 0 \/ \E t \in ts : e = m[t][u]
  OBVIOUS
<1>3. 0 \in S /\ \A t \in ts : m[t][u] \in S
  OBVIOUS
<1> HIDE DEF S
<1>4. \A e \in S : e \in 0..6
  BY <1>1, <1>2
<1>5. T!Max(S) \in S /\ \A y \in S : T!Max(S) >= y
  <2>1. S \in SUBSET (0..7)
    BY <1>4
  <2> QED BY <2>1, <1>3, MaxOfRoles
<1>6. T!Max(S) \in 0..6 /\ (T!Max(S) # 0 <=> \E t \in ts : m[t][u] # 0)
  BY <1>1, <1>2, <1>3, <1>4, <1>5
<1> QED BY <1>6 DEF S

LEMMA RoleRange ==
  ASSUME TeamConstants, TeamsOK, NEW u \in Users, NEW x \in T!Things
  PROVE  T!RoleOn(u, x) \in 0..7
<1>1. T!GetUserRoleForRoom(u, x) \in 0..6
  <2> DEFINE ts == {s \in Teams : <<s, x>> \in rooms}
  <2>1. ts \in SUBSET Teams /\ member \in [Teams -> [Users -> Roles \cup {0}]]
    BY DEF TeamsOK
  <2>2. T!GetUserRoleForRoom(u, x) = T!Max({0} \cup {member[t][u] : t \in ts})
    BY DEF T!GetUserRoleForRoom
  <2> HIDE DEF ts
  <2>3. T!Max({0} \cup {member[t][u] : t \in ts}) \in 0..6
    BY <2>1, RoomRoleRange
  <2> QED BY <2>2, <2>3
<1>2. x \in Presets => T!GetUserRoleForPreset(u, x) \in 0..6
  BY MemberRange DEF T!GetUserRoleForPreset, TeamsOK
<1> QED BY <1>1, <1>2 DEF T!RoleOn, T!Admin, T!Things

LEMMA RoleRangeNext ==
  ASSUME TeamConstants, TeamsOK', NEW u \in Users, NEW x \in T!Things
  PROVE  T!RoleOn(u, x)' \in 0..7
<1>1. T!GetUserRoleForRoom(u, x)' \in 0..6
  <2> DEFINE ts == {s \in Teams : <<s, x>> \in rooms'}
  <2>1. ts \in SUBSET Teams /\ member' \in [Teams -> [Users -> Roles \cup {0}]]
    BY DEF TeamsOK
  <2>2. T!GetUserRoleForRoom(u, x)' = T!Max({0} \cup {member'[t][u] : t \in ts})
    BY DEF T!GetUserRoleForRoom
  <2> HIDE DEF ts
  <2>3. T!Max({0} \cup {member'[t][u] : t \in ts}) \in 0..6
    BY <2>1, RoomRoleRange
  <2> QED BY <2>2, <2>3
<1>2. x \in Presets => T!GetUserRoleForPreset(u, x)' \in 0..6
  BY MemberRange DEF T!GetUserRoleForPreset, TeamsOK
<1> QED BY <1>1, <1>2 DEF T!RoleOn, T!Admin, T!Things

LEMMA HeldGrows ==
  ASSUME TeamConstants, TeamsOK', HeldOK,
         held' = [u \in Users |-> [x \in T!Things |-> T!Max({held[u][x], T!RoleOn(u, x)'})]]
  PROVE  HeldOK' /\ \A u \in Users, x \in T!Things : held'[u][x] >= held[u][x]
<1>1. \A u \in Users, x \in T!Things : T!RoleOn(u, x)' \in 0..7
  BY RoleRangeNext
<1>2. \A u \in Users, x \in T!Things :
        held'[u][x] \in 0..7 /\ held'[u][x] >= held[u][x] /\ held'[u][x] >= T!RoleOn(u, x)'
  <2> TAKE u \in Users, x \in T!Things
  <2>1. held[u][x] \in 0..7 /\ T!RoleOn(u, x)' \in 0..7
    BY <1>1 DEF HeldOK
  <2> DEFINE S == {held[u][x], T!RoleOn(u, x)'}
  <2>2. S \in SUBSET (0..7) /\ held[u][x] \in S /\ T!RoleOn(u, x)' \in S
    BY <2>1
  <2>3. held'[u][x] = T!Max(S)
    OBVIOUS
  <2> HIDE DEF S
  <2>4. T!Max(S) \in S /\ \A y \in S : T!Max(S) >= y
    BY <2>2, MaxOfRoles
  <2> QED BY <2>2, <2>3, <2>4
<1> QED BY <1>2 DEF HeldOK

(* An identifier is found while there is room for a row.                   *)
LEMMA LeastOf ==
  ASSUME NEW S \in SUBSET Nat, S # {}
  PROVE  T!Min(S) \in S
<1>1. \E x \in S : \A y \in S : ~(<<y, x>> \in OpToRel(<, Nat))
  BY NatLessThanWellFounded, WFMin
<1>2. PICK x \in S : \A y \in S : ~(y < x)
  BY <1>1 DEF OpToRel
<1>3. \A y \in S : x <= y
  BY <1>2
<1> QED BY <1>3 DEF T!Min

LEMMA TeamsCardinality == ASSUME NEW S PROVE T!Cardinality(S) = Cardinality(S)
BY DEF T!Cardinality, Cardinality

LEMMA FreeIdFound ==
  ASSUME NEW table, IsFiniteSet(table), NEW max \in Nat, T!Cardinality(table) < max
  PROVE  T!FreeId(table, max) \in 1..max
<1> DEFINE ids == {r.id : r \in table}
           f == [r \in table |-> r.id]
<1>1. f \in Surjection(table, ids)
  BY DEF Surjection
<1>2. IsFiniteSet(ids) /\ Cardinality(ids) <= Cardinality(table)
  BY <1>1, FS_Surjection
<1>3. IsFiniteSet(1..max) /\ Cardinality(1..max) = max
  BY FS_Interval
<1>4. Cardinality(table) < max /\ Cardinality(table) \in Nat /\ Cardinality(ids) \in Nat
  BY <1>2, TeamsCardinality, FS_CardinalityType
<1>5. (1..max) \ ids # {}
  <2> SUFFICES ASSUME (1..max) \ ids = {} PROVE FALSE
    OBVIOUS
  <2>1. (1..max) \in SUBSET ids
    OBVIOUS
  <2>2. Cardinality(1..max) <= Cardinality(ids)
    BY <2>1, <1>2, FS_Subset
  <2> QED BY <2>2, <1>2, <1>3, <1>4
<1>6. T!Min((1..max) \ ids) \in (1..max) \ ids
  BY <1>5, LeastOf
<1> QED BY <1>6 DEF T!FreeId

(* What a request that is running is about                                 *)
LEMMA RequestFacts ==
  ASSUME NEW t \in Request
  PROVE  /\ t.op \in T!TeamOps => t.on \in Teams
         /\ t.op \in T!PresetOps => t \in PresetRequest /\ t.on \in Presets
         /\ t.op \in T!RoomOps => t.on \in Rooms
         /\ t.op = "write_role" => t.on \in Teams /\ t.who \in Users /\ t.role \in Roles
         /\ t.op = "drop_member" => t.on \in Teams /\ t.who \in Users
         /\ t # T!Idle <=> t.op # "idle"
BY DEF Request, TeamRequest, PresetRequest, RoomRequest, RoleWrite, MemberDrop, T!Idle,
       T!TeamOps, T!PresetOps, T!RoomOps

LEMMA TeamsUnchanged ==
  ASSUME TeamsOK, UNCHANGED <<team, member, rooms, preset>> PROVE TeamsOK'
BY DEF TeamsOK

LEMMA MembersChange ==
  ASSUME TeamsOK, NEW t \in Teams, NEW v \in Users, NEW r \in Roles \cup {0},
         r # 0 => team[t] = "live", member' = [member EXCEPT ![t][v] = r], UNCHANGED <<team, rooms, preset>>
  PROVE  TeamsOK'
<1>1. member' \in [Teams -> [Users -> Roles \cup {0}]]
  BY DEF TeamsOK
<1>2. \A s \in Teams, w \in Users : member'[s][w] = IF s = t /\ w = v THEN r ELSE member[s][w]
  BY DEF TeamsOK
<1>3. \A s \in Teams : team[s] # "live" => \A w \in Users : member'[s][w] = 0
  BY <1>2 DEF TeamsOK
<1> QED BY <1>1, <1>3 DEF TeamsOK

LEMMA TeamsKept ==
  ASSUME TeamConstants, TeamsOK, TasksOK, NEW u \in Users, T!Step(u)
  PROVE  TeamsOK'
<1> DEFINE same == UNCHANGED <<team, member, rooms, preset>>
<1>0. task[u] \in Request
  BY DEF TasksOK
<1>1. CASE \/ T!RequireTeamRole(u) \/ T!RequirePresetRole(u) \/ T!RequireRoomRole(u) \/ T!Fail(u)
           \/ T!CheckUpdateRole(u) \/ T!CheckRemoveMember(u)
  <2>1. same
    BY <1>1 DEF T!RequireTeamRole, T!RequirePresetRole, T!RequireRoomRole, T!Fail, T!CheckUpdateRole,
                T!CheckRemoveMember
  <2> QED BY <2>1, TeamsUnchanged
<1>2. CASE T!CreateRule(u) \/ T!ImportRule(u) \/ T!UpdateRule(u) \/ T!DeleteRule(u)
  <2>1. same
    BY <1>2 DEF T!CreateRule, T!ImportRule, T!UpdateRule, T!DeleteRule, T!OnlyRules
  <2> QED BY <2>1, TeamsUnchanged
<1>3. CASE T!SetReviewStatus(u) \/ T!ProxyYamlEdit(u) \/ T!ProxyYamlDelete(u) \/ T!AddNote(u) \/ T!DeleteNote(u)
  <2>1. same
    BY <1>3 DEF T!SetReviewStatus, T!ProxyYamlEdit, T!ProxyYamlDelete, T!AddNote, T!DeleteNote
  <2> QED BY <2>1, TeamsUnchanged
<1>4. CASE T!SetRoomPreset(u) \/ T!RemoveRoomPreset(u)
  <2>1. same
    BY <1>4 DEF T!SetRoomPreset, T!RemoveRoomPreset
  <2> QED BY <2>1, TeamsUnchanged
<1>5. CASE T!AddMember(u)
  <2>1. task[u].on \in Teams
    BY <1>0, <1>5, RequestFacts DEF T!AddMember, T!Running, T!TeamOps
  <2> QED BY <1>5, <2>1, MembersChange DEF T!AddMember, T!DbAddTeamMember
<1>6. CASE T!UpdateMemberRole(u)
  <2>1. task[u].on \in Teams /\ task[u].who \in Users /\ task[u].role \in Roles
    BY <1>0, <1>6, RequestFacts DEF T!UpdateMemberRole, T!Running
  <2>2. team[task[u].on] = "live"
    BY <1>6, <2>1 DEF T!UpdateMemberRole, T!DbUpdateTeamMemberRole, TeamsOK
  <2> QED BY <1>6, <2>1, <2>2, MembersChange DEF T!UpdateMemberRole, T!DbUpdateTeamMemberRole
<1>7. CASE T!RemoveMember(u)
  <2>1. task[u].on \in Teams /\ task[u].who \in Users
    BY <1>0, <1>7, RequestFacts DEF T!RemoveMember, T!Running
  <2> QED BY <1>7, <2>1, MembersChange DEF T!RemoveMember, T!DbRemoveTeamMember
<1>8. CASE T!AddRoom(u) \/ T!RemoveRoom(u)
  <2>1. task[u].on \in Teams
    BY <1>0, <1>8, RequestFacts DEF T!AddRoom, T!RemoveRoom, T!Running, T!TeamOps
  <2>2. UNCHANGED <<team, member, preset>>
    BY <1>8 DEF T!AddRoom, T!RemoveRoom
  <2>3. \E x \in Rooms : \/ team[task[u].on] = "live" /\ rooms' = rooms \cup {<<task[u].on, x>>}
                        \/ rooms' = rooms \ {<<task[u].on, x>>}
    BY <1>8 DEF T!AddRoom, T!RemoveRoom, T!DbAddTeamRoom, T!DbRemoveTeamRoom
  <2>4. rooms' \subseteq Teams \X Rooms /\ \A x \in rooms' : team[x[1]] = "live"
    BY <2>1, <2>3 DEF TeamsOK
  <2> QED BY <2>2, <2>4 DEF TeamsOK
<1>9. CASE T!CreateTeam(u)
  <2>1. PICK t \in Teams : team[t] = "new" /\ team' = [team EXCEPT ![t] = "live"]
    BY <1>9 DEF T!CreateTeam, T!DbCreateTeam
  <2>2. UNCHANGED <<member, rooms, preset>>
    BY <1>9 DEF T!CreateTeam
  <2> QED BY <2>1, <2>2 DEF TeamsOK
<1>10. CASE T!DeleteTeam(u)
  <2>1. PICK t \in Teams : T!DbDeleteTeam(t)
    BY <1>10 DEF T!DeleteTeam
  <2>2. team' \in [Teams -> {"new", "live", "gone"}] /\ team'[t] = "gone"
        /\ \A s \in Teams \ {t} : team'[s] = team[s]
    BY <2>1 DEF T!DbDeleteTeam, TeamsOK
  <2>3. /\ member' \in [Teams -> [Users -> Roles \cup {0}]]
        /\ \A w \in Users : member'[t][w] = 0
        /\ \A s \in Teams \ {t} : member'[s] = member[s]
    BY <2>1 DEF T!DbDeleteTeam, TeamsOK
  <2>4. rooms' \subseteq Teams \X Rooms /\ \A x \in rooms' : x[1] # t /\ x \in rooms
    BY <2>1 DEF T!DbDeleteTeam, TeamsOK
  <2>5. preset' = [p \in Presets |-> IF preset[p] = t THEN "gone" ELSE preset[p]]
    BY <2>1 DEF T!DbDeleteTeam, T!DbDeletePresets
  <2>6. preset' \in [Presets -> Teams \cup {Nil, "new", "gone"}]
        /\ \A p \in Presets : preset'[p] \in Teams => preset'[p] # t /\ preset'[p] = preset[p]
    BY <2>5 DEF TeamsOK, TeamConstants
  <2>7. \A x \in rooms' : team'[x[1]] = "live"
    BY <2>2, <2>4 DEF TeamsOK
  <2> QED BY <2>2, <2>3, <2>4, <2>6, <2>7 DEF TeamsOK
<1>11. CASE T!CreatePreset(u)
  <2>1. PICK p \in Presets, t \in {Nil} \cup {s \in Teams : team[s] = "live"} :
          preset' = [preset EXCEPT ![p] = t]
    BY <1>11 DEF T!CreatePreset, T!DbCreatePreset
  <2>2. UNCHANGED <<team, member, rooms>>
    BY <1>11 DEF T!CreatePreset
  <2> QED BY <2>1, <2>2 DEF TeamsOK, TeamConstants
<1>12. CASE T!DeletePreset(u)
  <2>1. PICK q \in Presets : preset' = [p \in Presets |-> IF p \in {q} THEN "gone" ELSE preset[p]]
    BY <1>12 DEF T!DeletePreset, T!DbDeletePresets
  <2>2. UNCHANGED <<team, member, rooms>>
    BY <1>12 DEF T!DeletePreset
  <2> QED BY <2>1, <2>2 DEF TeamsOK, TeamConstants
<1> QED BY <1>1, <1>2, <1>3, <1>4, <1>5, <1>6, <1>7, <1>8, <1>9, <1>10, <1>11, <1>12 DEF T!Step

(* What a step does to the rows                                            *)
LEMMA RowsUnchanged ==
  ASSUME RowsOK, UNCHANGED <<preset, T!rows>> PROVE RowsOK'
BY DEF RowsOK, T!rows, T!Exists

LEMMA NewRule ==
  ASSUME TeamConstants, RowsOK, NEW u \in Users, NEW p \in Presets, T!DbCreateRule(u, p), T!OnlyRules
  PROVE  RowsOK' /\ \A r \in rules' : r \in rules \/ (r.by = u /\ r.preset = p)
<1> DEFINE n == [id |-> T!FreeId(rules, MaxRules), preset |-> p, by |-> u]
<1>1. T!FreeId(rules, MaxRules) \in 1..MaxRules
  BY FreeIdFound DEF T!DbCreateRule, RowsOK, TeamConstants
<1>2. n \in T!PresetRule /\ n.by = u /\ n.preset = p
  BY <1>1 DEF T!PresetRule
<1>3. rules' = rules \cup {n} /\ T!Exists(p)
  BY DEF T!DbCreateRule
<1> HIDE DEF n
<1>4. rules' \subseteq T!PresetRule /\ IsFiniteSet(rules')
  BY <1>2, <1>3, FS_AddElement DEF RowsOK
<1>5. \A r \in rules' : T!Exists(r.preset)'
  BY <1>2, <1>3 DEF RowsOK, T!Exists, T!OnlyRules
<1>6. UNCHANGED <<preset, config, status, edited, notes>>
  BY DEF T!OnlyRules
<1>7. \A x \in Rooms : config'[x] # Nil => T!Exists(config[x])'
  BY <1>6 DEF RowsOK, T!Exists
<1>8. RowsOK'
  BY <1>4, <1>5, <1>6, <1>7 DEF RowsOK
<1> QED BY <1>2, <1>3, <1>8

LEMMA OtherRule ==
  ASSUME RowsOK, NEW u \in Users, NEW p \in Presets, NEW r \in rules, T!OnlyRules,
         T!DbUpdateRule(u, p, r) \/ T!DbDeleteRule(p, r)
  PROVE  RowsOK' /\ \A s \in rules' : s \in rules \/ (s.by = u /\ s.preset = p)
<1> DEFINE n == [r EXCEPT !.by = u]
<1>1. r \in T!PresetRule /\ r.preset = p /\ T!Exists(p)
  BY DEF RowsOK, T!DbUpdateRule, T!DbDeleteRule
<1>2. n \in T!PresetRule /\ n.by = u /\ n.preset = p
  BY <1>1 DEF T!PresetRule
<1>3. rules' = (rules \ {r}) \cup {n} \/ rules' = rules \ {r}
  BY DEF T!DbUpdateRule, T!DbDeleteRule
<1> HIDE DEF n
<1>4. IsFiniteSet(rules \ {r})
  BY FS_RemoveElement DEF RowsOK
<1>5. rules' \subseteq T!PresetRule /\ IsFiniteSet(rules')
  <2>1. IsFiniteSet((rules \ {r}) \cup {n})
    BY <1>4, FS_AddElement
  <2> QED BY <1>2, <1>3, <1>4, <2>1 DEF RowsOK
<1>6. \A s \in rules' : T!Exists(s.preset)'
  BY <1>1, <1>2, <1>3 DEF RowsOK, T!Exists, T!OnlyRules
<1>7. UNCHANGED <<preset, config, status, edited, notes>>
  BY DEF T!OnlyRules
<1>8. \A x \in Rooms : config'[x] # Nil => T!Exists(config[x])'
  BY <1>7 DEF RowsOK, T!Exists
<1>9. RowsOK'
  BY <1>5, <1>6, <1>7, <1>8 DEF RowsOK
<1> QED BY <1>2, <1>3, <1>9

LEMMA PresetsGone ==
  ASSUME RowsOK, NEW gone \in SUBSET Presets, T!DbDeletePresets(gone), UNCHANGED <<status, edited, notes>>
  PROVE  RowsOK' /\ rules' \subseteq rules
<1>1. rules' \subseteq rules /\ \A r \in rules' : r.preset \notin gone
  BY DEF T!DbDeletePresets
<1>2. IsFiniteSet(rules')
  BY <1>1, FS_Subset DEF RowsOK
<1>3. \A r \in rules' : r.preset \in Presets
  BY <1>1 DEF RowsOK, T!PresetRule
<1>4. \A p \in Presets \ gone : preset'[p] = preset[p]
  BY DEF T!DbDeletePresets
<1>5. \A r \in rules' : T!Exists(r.preset)'
  BY <1>1, <1>3, <1>4 DEF RowsOK, T!Exists
<1>6. config' \in [Rooms -> Presets \cup {Nil}]
      /\ \A x \in Rooms : config'[x] # Nil => config'[x] = config[x] /\ config[x] \in Presets \ gone
  BY DEF T!DbDeletePresets, RowsOK
<1>7. \A x \in Rooms : config'[x] # Nil => T!Exists(config[x])'
  BY <1>4, <1>6 DEF RowsOK, T!Exists
<1> QED BY <1>1, <1>2, <1>5, <1>6, <1>7 DEF RowsOK, T!Exists

(* Each row that a step leaves was there, or is of the user who acts and   *)
(* about what its request was checked for.                                 *)
RowsAreOwn(u) ==
  /\ \A r \in rules' : r \in rules \/ (r.by = u /\ held[u][r.preset] >= T!RuleEditor)
  /\ \A x \in Rooms : status'[x] \in {status[x], Nil} \/ (status'[x] = u /\ held[u][x] >= T!Reviewer)
  /\ \A x \in Rooms : edited'[x] \in {edited[x], Nil} \/ (edited'[x] = u /\ held[u][x] >= T!Editor)
  /\ \A n \in notes' : n \in notes \/ (n.by = u /\ held[u][n.room] >= T!Reviewer)

LEMMA RowsKept ==
  ASSUME TeamConstants, RowsOK, TasksOK, NEW u \in Users, T!Step(u)
  PROVE  RowsOK' /\ RowsAreOwn(u)
<1>0. task[u] \in Request /\ Checked(u, task[u], held)
  BY DEF TasksOK
<1>1. CASE UNCHANGED <<preset, T!rows>>
  <2>1. UNCHANGED <<rules, status, edited, notes>>
    BY <1>1 DEF T!rows
  <2> QED BY <2>1, <1>1, RowsUnchanged DEF RowsAreOwn
<1>2. CASE T!CreateRule(u) \/ T!ImportRule(u) \/ T!UpdateRule(u) \/ T!DeleteRule(u)
  <2> DEFINE p == task[u].on
  <2>1. p \in Presets /\ held[u][p] >= T!RuleEditor
    BY <1>0, <1>2, RequestFacts DEF Checked, T!CreateRule, T!ImportRule, T!UpdateRule, T!DeleteRule,
                                    T!Running, T!PresetOps
  <2>2. T!OnlyRules
    BY <1>2 DEF T!CreateRule, T!ImportRule, T!UpdateRule, T!DeleteRule
  <2>3. RowsOK' /\ \A r \in rules' : r \in rules \/ (r.by = u /\ r.preset = p)
    <3>1. CASE T!DbCreateRule(u, p)
      BY <2>1, <2>2, <3>1, NewRule
    <3>2. CASE \E r \in rules : T!DbUpdateRule(u, p, r) \/ T!DbDeleteRule(p, r)
      BY <2>1, <2>2, <3>2, OtherRule
    <3> QED BY <1>2, <3>1, <3>2 DEF T!CreateRule, T!ImportRule, T!UpdateRule, T!DeleteRule
  <2>4. UNCHANGED <<status, edited, notes>>
    BY <2>2 DEF T!OnlyRules
  <2> QED BY <2>1, <2>3, <2>4 DEF RowsAreOwn
<1>3. CASE T!SetReviewStatus(u) \/ T!ProxyYamlEdit(u) \/ T!ProxyYamlDelete(u)
  <2> DEFINE x == task[u].on
  <2>1. x \in Rooms /\ held[u][x] >= T!Minimum(task[u].op) /\ task[u].op \in {"set_status", "edit_yaml", "delete_yaml"}
    BY <1>0, <1>3, RequestFacts DEF Checked, T!SetReviewStatus, T!ProxyYamlEdit, T!ProxyYamlDelete,
                                    T!Running, T!RoomOps
  <2>2. UNCHANGED <<preset, rules, config, notes>>
    BY <1>3 DEF T!SetReviewStatus, T!ProxyYamlEdit, T!ProxyYamlDelete
  <2>3. \/ T!Running(u, "set_status") /\ status' = [status EXCEPT ![x] = u] /\ edited' = edited
        \/ T!Running(u, "edit_yaml") /\ edited' = [edited EXCEPT ![x] = u] /\ status' = status
        \/ edited' = [edited EXCEPT ![x] = Nil] /\ status' = status
    BY <1>3 DEF T!SetReviewStatus, T!DbSetReviewStatus, T!ProxyYamlEdit, T!ProxyYamlDelete
  <2>4. T!Minimum("set_status") = T!Reviewer /\ T!Minimum("edit_yaml") = T!Editor
    BY DEF T!Minimum, T!TeamOps, T!PresetOps
  <2>5. status' \in [Rooms -> Users \cup {Nil}] /\ edited' \in [Rooms -> Users \cup {Nil}]
    BY <2>1, <2>3 DEF RowsOK
  <2>6. RowsOK'
    BY <2>2, <2>5 DEF RowsOK, T!Exists
  <2>7. RowsAreOwn(u)
    BY <2>1, <2>2, <2>3, <2>4 DEF RowsAreOwn, T!Running, RowsOK
  <2> QED BY <2>6, <2>7
<1>4. CASE T!AddNote(u) \/ T!DeleteNote(u)
  <2> DEFINE x == task[u].on
             n == [id |-> T!FreeId(notes, MaxNotes), room |-> x, by |-> u]
  <2>1. x \in Rooms /\ held[u][x] >= T!Minimum(task[u].op) /\ task[u].op \in {"add_note", "delete_note"}
    BY <1>0, <1>4, RequestFacts DEF Checked, T!AddNote, T!DeleteNote, T!Running, T!RoomOps
  <2>2. UNCHANGED <<preset, rules, config, status, edited>>
    BY <1>4 DEF T!AddNote, T!DeleteNote
  <2>3. T!Minimum(task[u].op) = T!Reviewer
    BY <2>1 DEF T!Minimum, T!TeamOps, T!PresetOps
  <2>4. CASE T!AddNote(u)
    <3>1. T!FreeId(notes, MaxNotes) \in 1..MaxNotes
      BY <2>4, FreeIdFound DEF T!AddNote, T!DbAddNote, RowsOK, TeamConstants
    <3>2. n \in T!YamlReviewNote /\ n.by = u /\ n.room = x
      BY <2>1, <3>1 DEF T!YamlReviewNote
    <3>3. notes' = notes \cup {n}
      BY <2>4 DEF T!AddNote, T!DbAddNote
    <3> HIDE DEF n
    <3>4. notes' \subseteq T!YamlReviewNote /\ IsFiniteSet(notes')
      BY <3>2, <3>3, FS_AddElement DEF RowsOK
    <3>5. RowsOK'
      BY <2>2, <3>4 DEF RowsOK, T!Exists
    <3>6. RowsAreOwn(u)
      BY <2>1, <2>2, <2>3, <3>2, <3>3 DEF RowsAreOwn
    <3> QED BY <3>5, <3>6
  <2>5. CASE T!DeleteNote(u)
    <3>1. PICK o \in notes : notes' = notes \ {o}
      BY <2>5 DEF T!DeleteNote, T!DbDeleteNote
    <3>2. notes' \subseteq T!YamlReviewNote /\ IsFiniteSet(notes') /\ notes' \subseteq notes
      BY <3>1, FS_RemoveElement DEF RowsOK
    <3>3. RowsOK'
      BY <2>2, <3>2 DEF RowsOK, T!Exists
    <3>4. RowsAreOwn(u)
      BY <2>2, <3>2 DEF RowsAreOwn
    <3> QED BY <3>3, <3>4
  <2> QED BY <1>4, <2>4, <2>5
<1>5. CASE T!DeleteTeam(u) \/ T!DeletePreset(u)
  <2>1. UNCHANGED <<status, edited, notes>>
    BY <1>5 DEF T!DeleteTeam, T!DeletePreset
  <2>2. \E gone \in SUBSET Presets : T!DbDeletePresets(gone)
    BY <1>5 DEF T!DeleteTeam, T!DeletePreset, T!DbDeleteTeam
  <2>3. RowsOK' /\ rules' \subseteq rules
    BY <2>1, <2>2, PresetsGone
  <2> QED BY <2>1, <2>3 DEF RowsAreOwn
<1>6. CASE T!CreatePreset(u)
  <2>1. PICK p \in Presets, t \in {Nil} \cup Teams : preset[p] = "new" /\ preset' = [preset EXCEPT ![p] = t]
    BY <1>6 DEF T!CreatePreset, T!DbCreatePreset
  <2>2. UNCHANGED <<rules, config, status, edited, notes>>
    BY <1>6 DEF T!CreatePreset, T!rows
  <2>3. \A q : q # p => preset'[q] = preset[q]
    BY <2>1
  <2>4. \A q : T!Exists(q) => T!Exists(q)'
    BY <2>1, <2>3 DEF T!Exists
  <2>5. RowsOK'
    BY <2>2, <2>4 DEF RowsOK
  <2> QED BY <2>2, <2>5 DEF RowsAreOwn
<1>7. CASE T!SetRoomPreset(u) \/ T!RemoveRoomPreset(u)
  <2>1. UNCHANGED <<preset, rules, status, edited, notes>>
    BY <1>7 DEF T!SetRoomPreset, T!RemoveRoomPreset
  <2>2. PICK x \in Rooms, p \in Presets \cup {Nil} :
          config' = [config EXCEPT ![x] = p] /\ (p = Nil \/ T!Exists(p))
    BY <1>7 DEF T!SetRoomPreset, T!RemoveRoomPreset, T!DbSetRoomPreset, T!DbRemoveRoomPreset
  <2>3. config' \in [Rooms -> Presets \cup {Nil}] /\ \A y \in Rooms : config'[y] \in {config[y], p}
    BY <2>2 DEF RowsOK
  <2>4. \A y \in Rooms : config'[y] # Nil => T!Exists(config'[y])
    BY <2>2, <2>3 DEF RowsOK
  <2>5. RowsOK'
    BY <2>1, <2>3, <2>4 DEF RowsOK, T!Exists
  <2> QED BY <2>1, <2>5 DEF RowsAreOwn
<1>8. CASE \/ T!RequireTeamRole(u) \/ T!RequirePresetRole(u) \/ T!RequireRoomRole(u) \/ T!Fail(u)
           \/ T!AddMember(u) \/ T!CheckUpdateRole(u) \/ T!UpdateMemberRole(u)
           \/ T!CheckRemoveMember(u) \/ T!RemoveMember(u) \/ T!AddRoom(u) \/ T!RemoveRoom(u) \/ T!CreateTeam(u)
  <2>1. UNCHANGED <<preset, T!rows>>
    BY <1>8 DEF T!RequireTeamRole, T!RequirePresetRole, T!RequireRoomRole, T!Fail, T!AddMember,
                T!CheckUpdateRole, T!UpdateMemberRole, T!CheckRemoveMember, T!RemoveMember, T!AddRoom,
                T!RemoveRoom, T!CreateTeam
  <2> QED BY <2>1, <1>1
<1> QED BY <1>2, <1>3, <1>4, <1>5, <1>6, <1>7, <1>8 DEF T!Step

(* A request begins with a check, goes on or ends.                         *)
LEMMA TasksKept ==
  ASSUME TeamConstants, TeamsOK, HeldOK, TasksOK, NEW u \in Users, T!Step(u)
  PROVE  \/ task' = task
         \/ \E t \in Request : task' = [task EXCEPT ![u] = t] /\ Checked(u, t, held)
<1> DEFINE Goal == \E t \in Request : task' = [task EXCEPT ![u] = t] /\ Checked(u, t, held)
<1>0. task[u] \in Request /\ Checked(u, task[u], held)
  BY DEF TasksOK
<1>1. T!Idle \in Request /\ Checked(u, T!Idle, held)
  BY DEF Request, Checked, T!Idle, T!PresetOps, T!RoomOps
<1>2. ASSUME T!Done(u) PROVE Goal
  BY <1>1, <1>2 DEF T!Done
<1>3. CASE T!RequireTeamRole(u)
  <2>1. PICK o \in T!TeamOps, t \in Teams : task' = [task EXCEPT ![u] = [op |-> o, on |-> t]]
    BY <1>3 DEF T!RequireTeamRole, T!Waiting
  <2>2. [op |-> o, on |-> t] \in Request /\ Checked(u, [op |-> o, on |-> t], held)
    BY DEF Request, TeamRequest, Checked, T!TeamOps, T!PresetOps, T!RoomOps
  <2> QED BY <2>1, <2>2
<1>4. CASE T!RequirePresetRole(u)
  <2>1. PICK o \in T!PresetOps, p \in Presets :
          /\ u \in Super \/ T!GetUserRoleForPreset(u, p) >= T!Minimum(o)
          /\ task' = [task EXCEPT ![u] = [op |-> o, on |-> p, left |-> MaxImport]]
    BY <1>4 DEF T!RequirePresetRole, T!Waiting
  <2> DEFINE t == [op |-> o, on |-> p, left |-> MaxImport]
  <2>2. t \in Request /\ t.op = o /\ t.on = p
    BY DEF Request, PresetRequest, TeamConstants
  <2>3. p \in T!Things /\ p \notin Rooms
    BY DEF T!Things, TeamConstants
  <2>4. T!Minimum(o) = T!RuleEditor
    BY DEF T!Minimum, T!PresetOps, T!TeamOps
  <2>5. T!RoleOn(u, p) >= T!RuleEditor
    BY <2>1, <2>3, <2>4 DEF T!RoleOn, T!Admin, T!RuleEditor
  <2>6. held[u][p] >= T!RuleEditor
    BY <2>3, <2>5, RoleRange DEF HeldOK, T!RuleEditor
  <2>7. Checked(u, t, held)
    BY <2>2, <2>6 DEF Checked, T!PresetOps, T!RoomOps
  <2> QED BY <2>1, <2>2, <2>7
<1>5. CASE T!RequireRoomRole(u)
  <2>1. PICK o \in T!RoomOps, x \in Rooms :
          /\ u \in Super \/ T!GetUserRoleForRoom(u, x) >= T!Minimum(o)
          /\ task' = [task EXCEPT ![u] = [op |-> o, on |-> x]]
    BY <1>5 DEF T!RequireRoomRole, T!Waiting
  <2> DEFINE t == [op |-> o, on |-> x]
  <2>2. t \in Request /\ t.op = o /\ t.on = x
    BY DEF Request, RoomRequest
  <2>3. x \in T!Things
    BY DEF T!Things
  <2>4. T!Minimum(o) \in 2..6
    BY DEF T!Minimum, T!Admin, T!RuleEditor, T!Editor, T!Reviewer
  <2>5. T!RoleOn(u, x) >= T!Minimum(o)
    BY <2>1, <2>4 DEF T!RoleOn, T!Admin
  <2>6. held[u][x] >= T!Minimum(o)
    BY <2>3, <2>4, <2>5, RoleRange DEF HeldOK
  <2>7. Checked(u, t, held)
    BY <2>2, <2>6 DEF Checked, T!PresetOps, T!RoomOps
  <2> QED BY <2>1, <2>2, <2>7
<1>6. CASE T!CheckUpdateRole(u)
  <2>1. PICK v \in Users, r \in Roles :
          /\ u \in Super \/ r < T!Admin
          /\ task' = [task EXCEPT ![u] = [op |-> "write_role", on |-> task[u].on, who |-> v, role |-> r]]
    BY <1>6 DEF T!CheckUpdateRole, T!Waiting
  <2> DEFINE t == [op |-> "write_role", on |-> task[u].on, who |-> v, role |-> r]
  <2>2. task[u].on \in Teams
    BY <1>0, <1>6, RequestFacts DEF T!CheckUpdateRole, T!Running, T!TeamOps
  <2>3. t \in Request /\ t.op = "write_role" /\ t.role = r
    BY <2>2 DEF Request, RoleWrite
  <2>4. Checked(u, t, held)
    BY <2>1, <2>3 DEF Checked, T!PresetOps, T!RoomOps, T!Admin
  <2> QED BY <2>1, <2>3, <2>4
<1>7. CASE T!CheckRemoveMember(u)
  <2>1. PICK v \in Users : task' = [task EXCEPT ![u] = [op |-> "drop_member", on |-> task[u].on, who |-> v]]
    BY <1>7 DEF T!CheckRemoveMember, T!Waiting
  <2> DEFINE t == [op |-> "drop_member", on |-> task[u].on, who |-> v]
  <2>2. task[u].on \in Teams
    BY <1>0, <1>7, RequestFacts DEF T!CheckRemoveMember, T!Running, T!TeamOps
  <2>3. t \in Request /\ t.op = "drop_member"
    BY <2>2 DEF Request, MemberDrop
  <2>4. Checked(u, t, held)
    BY <2>3 DEF Checked, T!PresetOps, T!RoomOps
  <2> QED BY <2>1, <2>3, <2>4
<1>8. CASE T!ImportRule(u)
  <2>1. task[u] \in PresetRequest
    BY <1>0, <1>8, RequestFacts DEF T!ImportRule, T!Running, T!PresetOps
  <2> DEFINE t == [task[u] EXCEPT !.left = @ - 1]
  <2>2. t \in Request /\ t.op = task[u].op /\ t.on = task[u].on
    BY <2>1 DEF Request, PresetRequest
  <2>3. Checked(u, t, held)
    BY <2>2, <1>0, <1>8 DEF Checked, T!ImportRule, T!Running, T!RoomOps
  <2>4. T!Done(u) \/ task' = [task EXCEPT ![u] = t]
    BY <1>8 DEF T!ImportRule, T!Waiting
  <2> QED BY <2>2, <2>3, <2>4, <1>2
<1>9. CASE \/ T!Fail(u) \/ T!AddMember(u) \/ T!UpdateMemberRole(u) \/ T!RemoveMember(u) \/ T!AddRoom(u)
           \/ T!RemoveRoom(u) \/ T!CreateRule(u) \/ T!UpdateRule(u) \/ T!DeleteRule(u)
           \/ T!SetReviewStatus(u) \/ T!ProxyYamlEdit(u) \/ T!ProxyYamlDelete(u) \/ T!AddNote(u) \/ T!DeleteNote(u)
  <2>1. T!Done(u)
    BY <1>9 DEF T!Fail, T!AddMember, T!UpdateMemberRole, T!RemoveMember, T!AddRoom, T!RemoveRoom,
                T!CreateRule, T!UpdateRule, T!DeleteRule, T!SetReviewStatus, T!ProxyYamlEdit,
                T!ProxyYamlDelete, T!AddNote, T!DeleteNote
  <2> QED BY <2>1, <1>2
<1>10. CASE \/ T!CreateTeam(u) \/ T!DeleteTeam(u) \/ T!CreatePreset(u) \/ T!DeletePreset(u)
            \/ T!SetRoomPreset(u) \/ T!RemoveRoomPreset(u)
  BY <1>10 DEF T!CreateTeam, T!DeleteTeam, T!CreatePreset, T!DeletePreset, T!SetRoomPreset,
               T!RemoveRoomPreset, T!AdminSession
<1> QED BY <1>3, <1>4, <1>5, <1>6, <1>7, <1>8, <1>9, <1>10 DEF T!Step

LEMMA TeamsInitially ==
  ASSUME TeamConstants, T!Init PROVE TeamsInv
<1> USE DEF T!Init
<1>1. TeamsOK
  BY DEF TeamsOK, TeamConstants
<1>2. RowsOK
  BY FS_EmptySet DEF RowsOK
<1>3. HeldOK
  <2>1. \A u \in Users, x \in T!Things : T!RoleOn(u, x) \in 0..7
    BY <1>1, RoleRange
  <2>2. held = [u \in Users |-> [x \in T!Things |-> T!RoleOn(u, x)]]
    OBVIOUS
  <2>3. \A u \in Users, x \in T!Things : held[u][x] = T!RoleOn(u, x)
    BY <2>2
  <2>4. held \in [Users -> [T!Things -> 0..7]]
    BY <2>1, <2>2
  <2>5. \A u \in Users, x \in T!Things : held[u][x] >= T!RoleOn(u, x)
    BY <2>1, <2>3
  <2> QED BY <2>4, <2>5 DEF HeldOK
<1>4. TasksOK
  BY DEF TasksOK, Request, Checked, T!Idle, T!PresetOps, T!RoomOps
<1>5. T!AuthorsWereEntitled
  BY DEF T!AuthorsWereEntitled
<1> QED BY <1>1, <1>2, <1>3, <1>4, <1>5 DEF TeamsInv

LEMMA TeamsStep ==
  ASSUME TeamConstants, TeamsInv, [T!Next]_T!vars PROVE TeamsInv'
<1> USE DEF TeamsInv
<1>1. CASE UNCHANGED T!vars
  <2>1. UNCHANGED <<team, member, rooms, preset, rules, config, status, edited, notes, task, held>>
    BY <1>1 DEF T!vars
  <2>2. TeamsOK' /\ RowsOK'
    BY <2>1, TeamsUnchanged, RowsUnchanged DEF T!rows
  <2>3. TasksOK'
    BY <2>1 DEF TasksOK
  <2>4. \A u, x : T!RoleOn(u, x)' = T!RoleOn(u, x)
    BY <2>1 DEF T!RoleOn, T!GetUserRoleForRoom, T!GetUserRoleForPreset
  <2>5. HeldOK'
    BY <2>1, <2>4 DEF HeldOK
  <2>6. T!AuthorsWereEntitled'
    BY <2>1 DEF T!AuthorsWereEntitled
  <2> QED BY <2>2, <2>3, <2>5, <2>6
<1>2. CASE T!Next
  <2>1. PICK u \in Users : T!Step(u)
    BY <1>2 DEF T!Next
  <2>2. TeamsOK'
    BY <2>1, TeamsKept
  <2>3. HeldOK' /\ \A v \in Users, x \in T!Things : held'[v][x] >= held[v][x]
    BY <1>2, <2>2, HeldGrows DEF T!Next
  <2>4. RowsOK' /\ RowsAreOwn(u)
    BY <2>1, RowsKept
  <2>5. \A v \in Users, x \in T!Things : held[v][x] \in Int /\ held'[v][x] \in Int
    BY <2>3 DEF HeldOK
  <2>6. \A t \in Request : \A v \in Users : Checked(v, t, held) => Checked(v, t, held')
    <3> SUFFICES ASSUME NEW t \in Request, NEW v \in Users, Checked(v, t, held) PROVE Checked(v, t, held')
      OBVIOUS
    <3>1. t.op \in T!PresetOps \cup T!RoomOps => t.on \in T!Things
      BY RequestFacts DEF T!Things
    <3>2. T!Minimum(t.op) \in Int /\ T!RuleEditor \in Int
      BY DEF T!Minimum, T!Admin, T!RuleEditor, T!Editor, T!Reviewer
    <3>3. t.op \in T!PresetOps => held'[v][t.on] >= T!RuleEditor
      BY <2>3, <2>5, <3>1, <3>2 DEF Checked
    <3>4. t.op \in T!RoomOps => held'[v][t.on] >= T!Minimum(t.op)
      BY <2>3, <2>5, <3>1, <3>2 DEF Checked
    <3> QED BY <3>3, <3>4 DEF Checked
  <2>7. TasksOK'
    <3>1. CASE task' = task
      BY <3>1, <2>6 DEF TasksOK
    <3>2. ASSUME NEW t \in Request, task' = [task EXCEPT ![u] = t], Checked(u, t, held) PROVE TasksOK'
      BY <3>2, <2>6 DEF TasksOK
    <3> QED BY <2>1, <3>1, <3>2, TasksKept
  <2>8. T!AuthorsWereEntitled'
    <3> USE DEF T!RuleEditor, T!Reviewer, T!Editor
    <3>1. \A r \in rules' : r.by \in Users /\ r.preset \in T!Things
      BY <2>4 DEF RowsOK, T!PresetRule, T!Things
    <3>2. \A r \in rules' : held[r.by][r.preset] >= T!RuleEditor
      BY <2>4 DEF RowsAreOwn, T!AuthorsWereEntitled
    <3>3. \A n \in notes' : n.by \in Users /\ n.room \in T!Things
      BY <2>4 DEF RowsOK, T!YamlReviewNote, T!Things
    <3>4. \A n \in notes' : held[n.by][n.room] >= T!Reviewer
      BY <2>4 DEF RowsAreOwn, T!AuthorsWereEntitled
    <3>5. \A x \in Rooms : status'[x] # Nil => held[status'[x]][x] >= T!Reviewer /\ status'[x] \in Users
      BY <2>4 DEF RowsAreOwn, T!AuthorsWereEntitled, RowsOK
    <3>6. \A x \in Rooms : edited'[x] # Nil => held[edited'[x]][x] >= T!Editor /\ edited'[x] \in Users
      BY <2>4 DEF RowsAreOwn, T!AuthorsWereEntitled, RowsOK
    <3>7. Rooms \subseteq T!Things
      BY DEF T!Things
    <3>8. \A r \in rules' : held'[r.by][r.preset] >= T!RuleEditor
      BY <2>3, <2>5, <3>1, <3>2
    <3>9. \A n \in notes' : held'[n.by][n.room] >= T!Reviewer
      BY <2>3, <2>5, <3>3, <3>4
    <3>10. \A x \in Rooms : status'[x] # Nil => held'[status'[x]][x] >= T!Reviewer
      BY <2>3, <2>5, <3>5, <3>7
    <3>11. \A x \in Rooms : edited'[x] # Nil => held'[edited'[x]][x] >= T!Editor
      BY <2>3, <2>5, <3>6, <3>7
    <3> QED BY <3>8, <3>9, <3>10, <3>11 DEF T!AuthorsWereEntitled
  <2> QED BY <2>2, <2>3, <2>4, <2>7, <2>8
<1> QED BY <1>1, <1>2

(* The lists and the checks ask the database different questions and get   *)
(* the same answers.                                                       *)
LEMMA ListsAgree ==
  ASSUME TeamConstants, TeamsOK PROVE T!ListedIsViewable
<1> SUFFICES ASSUME NEW u \in Users
             PROVE  /\ \A x \in T!RoomsList(u) : T!ReviewPage(u, x)
                    /\ \A p \in T!PresetsList(u) : T!PresetEdit(u, p) # "forbidden"
                    /\ \A p \in Presets : T!PresetEdit(u, p) = "edit" <=> T!RoleOn(u, p) >= T!Minimum("update_rule")
                    /\ u \notin Super =>
                         /\ \A x \in Rooms : T!ReviewPage(u, x) => x \in T!RoomsList(u)
                         /\ \A p \in Presets : T!PresetEdit(u, p) # "forbidden" => p \in T!PresetsList(u)
  BY DEF T!ListedIsViewable
<1>1. \A x : T!GetUserRoleForRoom(u, x) # 0 <=> \E t \in Teams : <<t, x>> \in rooms /\ member[t][u] # 0
  <2> TAKE x
  <2> DEFINE ts == {s \in Teams : <<s, x>> \in rooms}
  <2>1. ts \in SUBSET Teams /\ member \in [Teams -> [Users -> Roles \cup {0}]]
    BY DEF TeamsOK
  <2>2. T!GetUserRoleForRoom(u, x) = T!Max({0} \cup {member[t][u] : t \in ts})
    BY DEF T!GetUserRoleForRoom
  <2>3. (\E t \in Teams : <<t, x>> \in rooms /\ member[t][u] # 0) <=> \E t \in ts : member[t][u] # 0
    OBVIOUS
  <2> HIDE DEF ts
  <2>4. T!Max({0} \cup {member[t][u] : t \in ts}) # 0 <=> \E t \in ts : member[t][u] # 0
    BY <2>1, RoomRoleRange
  <2> QED BY <2>2, <2>3, <2>4
<1>2. u \notin Super => \A x : x \in T!RoomsList(u) <=> \E t \in Teams : <<t, x>> \in rooms /\ member[t][u] # 0
  <2> SUFFICES ASSUME u \notin Super, NEW x
               PROVE  x \in T!RoomsList(u) <=> \E t \in Teams : <<t, x>> \in rooms /\ member[t][u] # 0
    OBVIOUS
  <2>1. x \in T!RoomsList(u) <=> \E y \in rooms : member[y[1]][u] # 0 /\ x = y[2]
    BY DEF T!RoomsList, T!ListUserRooms
  <2>2. \A y \in rooms : y[1] \in Teams /\ y = <<y[1], y[2]>>
    BY DEF TeamsOK
  <2> QED BY <2>1, <2>2
<1>3. \A x : u \notin Super => (x \in T!RoomsList(u) <=> T!ReviewPage(u, x))
  BY <1>1, <1>2 DEF T!ReviewPage
<1>4. u \in Super => \A x : T!ReviewPage(u, x)
  BY DEF T!ReviewPage
<1>5. \A p \in Presets : T!GetUserRoleForPreset(u, p) \in 0..6
  BY MemberRange DEF T!GetUserRoleForPreset, TeamsOK
<1>6. \A p \in Presets : p \notin Rooms
  BY DEF TeamConstants
<1>7. \A p \in Presets : T!PresetEdit(u, p) = "edit" <=> T!RoleOn(u, p) >= T!Minimum("update_rule")
  BY <1>5, <1>6 DEF T!PresetEdit, T!RoleOn, T!Minimum, T!TeamOps, T!PresetOps, T!Admin, T!RuleEditor
<1>8. u \notin Super => \A p \in Presets :
        p \in T!PresetsList(u) <=> (preset[p] \in Teams /\ member[preset[p]][u] # 0)
  BY DEF T!PresetsList, T!ListPresetsForUser, T!ListPresetsForTeams, T!GetUserTeams
<1>9. u \notin Super => \A p \in Presets :
        T!PresetEdit(u, p) # "forbidden" <=> T!GetUserRoleForPreset(u, p) # 0
  BY <1>5 DEF T!PresetEdit, T!RuleEditor
<1>10. \A p \in Presets : T!GetUserRoleForPreset(u, p) # 0 <=> (preset[p] \in Teams /\ member[preset[p]][u] # 0)
  BY DEF T!GetUserRoleForPreset
<1>11. T!PresetsList(u) \subseteq Presets
  BY DEF T!PresetsList, T!ListPresetsForUser, T!ListPresetsForTeams, T!ListPresets
<1>12. u \in Super => \A p \in Presets : T!PresetEdit(u, p) # "forbidden"
  BY DEF T!PresetEdit
<1> QED BY <1>3, <1>4, <1>7, <1>8, <1>9, <1>10, <1>11, <1>12

(* Who becomes an admin, and who deletes a note                            *)
LEMMA Granted ==
  ASSUME TeamConstants, TeamsInv, [T!Next]_T!vars PROVE [T!Grants]_T!vars
<1> SUFFICES ASSUME T!Next PROVE T!Grants
  OBVIOUS
<1> PICK u \in Users : T!Step(u)
  BY DEF T!Next
<1>0. task[u] \in Request /\ Checked(u, task[u], held) /\ task \in [Users -> Request]
  BY DEF TeamsInv, TasksOK
<1>1. ASSUME NEW t \in Teams, NEW v \in Users, member'[t][v] = T!Admin, member[t][v] # T!Admin
      PROVE  \E s \in Super : task[s] # T!Idle /\ task'[s] = T!Idle /\ task[s].on = t
  <2>1. CASE T!AddMember(u)
    <3>1. PICK w \in Users, r \in Roles : (r >= T!Moderator => u \in Super)
                                         /\ member' = [member EXCEPT ![task[u].on][w] = r]
      BY <2>1 DEF T!AddMember, T!DbAddTeamMember
    <3>2. task[u].on = t /\ r = T!Admin
      BY <1>1, <3>1 DEF TeamsInv, TeamsOK
    <3>3. u \in Super
      BY <3>1, <3>2 DEF T!Admin, T!Moderator
    <3>4. task[u].op = "add_member" /\ task'[u] = T!Idle
      BY <2>1, <1>0 DEF T!AddMember, T!Running, T!Done
    <3> QED BY <3>2, <3>3, <3>4 DEF T!Idle
  <2>2. CASE T!UpdateMemberRole(u)
    <3>1. /\ task[u].op = "write_role" /\ task'[u] = T!Idle
          /\ member' = [member EXCEPT ![task[u].on][task[u].who] = task[u].role]
      BY <2>2, <1>0 DEF T!UpdateMemberRole, T!Running, T!Done, T!DbUpdateTeamMemberRole
    <3>2. task[u].on = t /\ task[u].role = T!Admin
      BY <1>1, <3>1 DEF TeamsInv, TeamsOK
    <3>3. u \in Super
      BY <1>0, <3>1, <3>2 DEF Checked
    <3> QED BY <3>1, <3>2, <3>3 DEF T!Idle
  <2>3. CASE T!RemoveMember(u)
    <3>1. member' = [member EXCEPT ![task[u].on][task[u].who] = 0]
      BY <2>3 DEF T!RemoveMember, T!DbRemoveTeamMember
    <3> QED BY <1>1, <3>1 DEF TeamsInv, TeamsOK, T!Admin
  <2>4. CASE T!DeleteTeam(u)
    <3>1. \E s \in Teams : member' = [member EXCEPT ![s] = [w \in Users |-> 0]]
      BY <2>4 DEF T!DeleteTeam, T!DbDeleteTeam
    <3> QED BY <1>1, <3>1 DEF TeamsInv, TeamsOK, T!Admin
  <2>5. CASE member' = member
    BY <1>1, <2>5
  <2> QED
    BY <2>1, <2>2, <2>3, <2>4, <2>5
    DEF T!Step, T!RequireTeamRole, T!RequirePresetRole, T!RequireRoomRole, T!Fail, T!CheckUpdateRole,
        T!CheckRemoveMember, T!AddRoom, T!RemoveRoom, T!CreateRule, T!ImportRule, T!UpdateRule,
        T!DeleteRule, T!OnlyRules, T!SetReviewStatus, T!ProxyYamlEdit, T!ProxyYamlDelete, T!AddNote,
        T!DeleteNote, T!CreateTeam, T!CreatePreset, T!DeletePreset, T!SetRoomPreset, T!RemoveRoomPreset
<1>2. ASSUME NEW n \in notes \ notes' PROVE T!Running(n.by, "delete_note") /\ task'[n.by] = T!Idle
  <2>1. CASE T!DeleteNote(u)
    <3>1. PICK o \in notes : o.by = u /\ notes' = notes \ {o}
      BY <2>1 DEF T!DeleteNote, T!DbDeleteNote
    <3>2. n = o
      BY <1>2, <3>1
    <3> QED BY <2>1, <3>1, <3>2, <1>0 DEF T!DeleteNote, T!Done
  <2>2. CASE T!AddNote(u)
    BY <1>2, <2>2 DEF T!AddNote, T!DbAddNote
  <2>3. CASE notes' = notes
    BY <1>2, <2>3
  <2> QED
    BY <2>1, <2>2, <2>3
    DEF T!Step, T!RequireTeamRole, T!RequirePresetRole, T!RequireRoomRole, T!Fail, T!CheckUpdateRole,
        T!AddMember, T!UpdateMemberRole, T!RemoveMember, T!rows,
        T!CheckRemoveMember, T!AddRoom, T!RemoveRoom, T!CreateRule, T!ImportRule, T!UpdateRule,
        T!DeleteRule, T!OnlyRules, T!SetReviewStatus, T!ProxyYamlEdit, T!ProxyYamlDelete,
        T!CreateTeam, T!DeleteTeam, T!CreatePreset, T!DeletePreset, T!SetRoomPreset, T!RemoveRoomPreset
<1> QED BY <1>1, <1>2 DEF T!Grants

(* require_team_role, require_room_role, require_preset_role and the       *)
(* statements behind them: with any users, teams, rooms and presets, and   *)
(* whatever changes between a request's check and its write, no row        *)
(* outlives what it belongs to, whoever changed a row has had the role for *)
(* it, pages list what opens, and only super admins make admins.           *)
THEOREM TeamsAreEntitled ==
  ASSUME TeamConstants PROVE T!Spec => EntitledOnly
<1>1. T!Init => TeamsInv
  BY TeamsInitially
<1>2. TeamsInv /\ [T!Next]_T!vars => TeamsInv'
  BY TeamsStep
<1>3. TeamsInv => T!TypeOK /\ T!RowsBelong /\ T!AuthorsWereEntitled /\ T!ListedIsViewable
  BY ListsAgree DEF TeamsInv, T!TypeOK, T!RowsBelong, TeamsOK, RowsOK
<1>4. TeamsInv /\ [T!Next]_T!vars => [T!Grants]_T!vars
  BY Granted
<1> QED BY <1>1, <1>2, <1>3, <1>4, PTL DEF T!Spec, EntitledOnly, T!EntitledOnly, T!GrantedBySuper


-----------------------------------------------------------------------------
(* The folder of releases                                                  *)

(* What a refresh keeps: a temporary file that is whole, and all that it   *)
(* will lock, has the checksum that is expected.                           *)
IsRefresh(f) ==
  /\ f = [at |-> f.at, tasks |-> f.tasks, temp |-> f.temp, expected |-> f.expected, new |-> f.new]
  /\ f.at \in {"idle", "running", "writing", "ended"} /\ f.tasks \subseteq Rels
  /\ L!Sums(f.expected) /\ L!Sums(f.new)
  /\ DOMAIN f.temp \subseteq f.tasks
  /\ \A r \in DOMAIN f.temp : f.temp[r] # "half" =>
       f.temp[r] \in Contents /\ (r \in DOMAIN f.expected => f.temp[r] = f.expected[r])
  /\ \A r \in DOMAIN f.new : r \in DOMAIN f.expected => f.new[r] = f.expected[r]

(* What a process has kept or fetched is on disk, unless a rival put its   *)
(* file there.                                                             *)
OnDisk(p, f, folder, rivals) ==
  \A r \in DOMAIN f.new : r \in DOMAIN folder /\ (<<p, r>> \notin rivals => folder[r] = f.new[r])

(* An update that runs has taken over what is locked and listed.           *)
TakenOver(u, lk, ls) ==
  u.at \in {"running", "writing"} =>
    /\ \A r \in DOMAIN lk \cap ls : r \in DOMAIN u.new /\ u.new[r] = lk[r]
    /\ u.tasks \cap DOMAIN lk = {}
    /\ u.expected = [r \in DOMAIN lk \cap ls |-> lk[r]]
    /\ DOMAIN u.new \subseteq ls /\ u.tasks \subseteq ls

FolderInv ==
  /\ listed \subseteq Rels /\ torn \in BOOLEAN /\ L!Sums(locked) /\ L!Sums(disk)
  /\ upstream \in [Rels -> Contents \cup {"down"}]
  /\ rival \subseteq Procs \X Rels
  /\ fetch = [j \in L!Jobs |-> fetch[j]] /\ \A j \in L!Jobs : IsRefresh(fetch[j])
  /\ \A p \in Procs : fetch[p].at # "writing" /\ OnDisk(p, fetch[p], disk, rival)
  /\ TakenOver(fetch["update"], locked, listed)
  /\ torn => fetch["update"].at \in {"idle", "ended"}

LEMMA IdleRefresh ==
  /\ IsRefresh(L!Idle) /\ L!Idle.at = "idle"
  /\ \A p, folder, rivals : OnDisk(p, L!Idle, folder, rivals)
  /\ \A lk, ls : TakenOver(L!Idle, lk, ls)
<1>1. DOMAIN <<>> = {}
  OBVIOUS
<1>2. /\ L!Idle.at = "idle" /\ L!Idle.tasks = {} /\ L!Idle.temp = <<>> /\ L!Idle.expected = <<>> /\ L!Idle.new = <<>>
  BY DEF L!Idle
<1>3. L!Sums(<<>>)
  BY <1>1 DEF L!Sums
<1>4. IsRefresh(L!Idle)
  BY <1>1, <1>2, <1>3 DEF L!Idle, IsRefresh
<1> QED BY <1>1, <1>2, <1>4 DEF OnDisk, TakenOver

LEMMA FolderInitially == L!Init => FolderInv
<1> SUFFICES ASSUME L!Init PROVE FolderInv
  OBVIOUS
<1>1. DOMAIN <<>> = {} /\ L!Sums(<<>>)
  BY DEF L!Sums
<1>2. fetch = [j \in L!Jobs |-> L!Idle] /\ "update" \in L!Jobs /\ Procs \subseteq L!Jobs
  BY DEF L!Init, L!Jobs
<1>3. listed \subseteq Rels /\ L!Sums(locked)
  BY RepositoryAssumption DEF L!Init, L!IsRepository
<1>4. upstream \in [Rels -> Contents \cup {"down"}] /\ torn = FALSE /\ disk = <<>> /\ rival = {}
  BY DEF L!Init
<1> QED BY <1>1, <1>2, <1>3, <1>4, IdleRefresh DEF FolderInv

(* A step that changes one refresh, and not the folder                     *)
LEMMA RefreshMoves ==
  ASSUME FolderInv, NEW j \in L!Jobs, NEW f, IsRefresh(f), fetch' = [fetch EXCEPT ![j] = f],
         UNCHANGED <<listed, upstream, disk>>,
         L!Sums(locked'), torn' \in BOOLEAN, rival' \subseteq rival,
         \A pair \in rival : pair \notin rival' => pair[1] = j,
         j \in Procs => f.at # "writing" /\ OnDisk(j, f, disk, rival') /\ UNCHANGED <<locked, torn>>,
         j = "update" => TakenOver(f, locked', listed) /\ (torn' => f.at \in {"idle", "ended"}) /\ UNCHANGED rival
  PROVE  FolderInv'
<1>1. /\ fetch' = [i \in L!Jobs |-> fetch'[i]] /\ \A i \in L!Jobs : IsRefresh(fetch'[i])
      /\ fetch'[j] = f /\ \A i \in L!Jobs : i # j => fetch'[i] = fetch[i]
  BY DEF FolderInv
<1>2. (j \in Procs \/ j = "update") /\ "update" \notin Procs /\ "update" \in L!Jobs /\ Procs \subseteq L!Jobs
  BY RepositoryAssumption DEF L!Jobs, L!IsRepository
<1>3. ASSUME NEW p \in Procs PROVE fetch'[p].at # "writing" /\ OnDisk(p, fetch'[p], disk', rival')
  <2>1. CASE p = j
    BY <1>1, <1>2, <2>1
  <2>2. CASE p # j
    <3>1. fetch'[p] = fetch[p] /\ fetch[p].at # "writing" /\ OnDisk(p, fetch[p], disk, rival)
      BY <1>1, <1>2, <2>2 DEF FolderInv
    <3>2. \A r : <<p, r>> \notin rival' => <<p, r>> \notin rival
      <4> SUFFICES ASSUME NEW r, <<p, r>> \in rival, <<p, r>> \notin rival' PROVE FALSE
        OBVIOUS
      <4>1. <<p, r>>[1] = j
        OBVIOUS
      <4> QED BY <2>2, <4>1
    <3> QED BY <3>1, <3>2 DEF OnDisk
  <2> QED BY <2>1, <2>2
<1>4. TakenOver(fetch'["update"], locked', listed') /\ (torn' => fetch'["update"].at \in {"idle", "ended"})
  BY <1>1, <1>2 DEF FolderInv
<1> QED BY <1>1, <1>3, <1>4 DEF FolderInv

(* The plan of a refresh                                                   *)
LEMMA PlanOK ==
  ASSUME NEW worlds, worlds \subseteq Rels, NEW sums, L!Sums(sums), NEW o \in BOOLEAN, NEW folder,
         NEW f, f = L!Plan(worlds, sums, o, folder)
  PROVE  /\ IsRefresh(f) /\ f.at = "running"
         /\ ~o => \A p, rivals : OnDisk(p, f, folder, rivals)
         /\ o => TakenOver(f, sums, worlds)
<1>1. PICK k : k = {r \in worlds \cap DOMAIN sums : o \/ (r \in DOMAIN folder /\ folder[r] = sums[r])}
  OBVIOUS
<1>2. PICK e, n : e = [r \in DOMAIN sums \cap worlds |-> sums[r]] /\ n = [r \in k |-> sums[r]]
  OBVIOUS
<1>3. f = [at |-> "running", tasks |-> worlds \ k, temp |-> <<>>, expected |-> e, new |-> n]
  BY <1>1, <1>2 DEF L!Plan, L!Planned
<1>4. f.at = "running" /\ f.tasks = worlds \ k /\ f.temp = <<>> /\ f.expected = e /\ f.new = n
  BY <1>3
<1>5. DOMAIN e = DOMAIN sums \cap worlds /\ DOMAIN n = k /\ DOMAIN <<>> = {}
  BY <1>2
<1>6. L!Sums(e) /\ L!Sums(n) /\ \A r \in k : r \in DOMAIN e /\ n[r] = e[r]
  BY <1>1, <1>2, <1>5 DEF L!Sums
<1>7. IsRefresh(f)
  <2>1. f = [at |-> f.at, tasks |-> f.tasks, temp |-> f.temp, expected |-> f.expected, new |-> f.new]
    BY <1>3, <1>4
  <2> QED BY <1>4, <1>5, <1>6, <2>1 DEF IsRefresh
<1>8. ~o => \A p, rivals : OnDisk(p, f, folder, rivals)
  BY <1>1, <1>2, <1>4, <1>5 DEF OnDisk
<1>9. o => TakenOver(f, sums, worlds)
  BY <1>1, <1>2, <1>4, <1>5 DEF TakenOver
<1> QED BY <1>4, <1>7, <1>8, <1>9

LEMMA StartsOK ==
  ASSUME FolderInv, L!StartUpdate \/ \E p \in Procs, c \in Commits : L!Load(p, c)
  PROVE  FolderInv'
<1>0. "update" \notin Procs /\ "update" \in L!Jobs /\ Procs \subseteq L!Jobs
  BY RepositoryAssumption DEF L!Jobs, L!IsRepository
<1>1. ASSUME NEW p \in Procs, NEW c \in Commits, L!Load(p, c)
      PROVE  FolderInv'
  <2>1. PICK f : f = L!Plan(c.listed, c.lock, FALSE, disk)
    OBVIOUS
  <2>2. /\ fetch' = [fetch EXCEPT ![p] = f] /\ UNCHANGED <<listed, locked, torn, upstream, disk>>
        /\ rival' = {pair \in rival : pair[1] # p}
    BY <1>1, <2>1 DEF L!Load
  <2>3. IsRefresh(f) /\ f.at = "running" /\ OnDisk(p, f, disk, rival')
    BY <2>1, PlanOK, RepositoryAssumption DEF L!IsRepository
  <2>4. L!Sums(locked') /\ torn' \in BOOLEAN
    BY <2>2 DEF FolderInv, L!Sums
  <2> QED BY <1>0, <2>2, <2>3, <2>4, RefreshMoves
<1>2. CASE L!StartUpdate
  <2>1. PICK f : f = L!Plan(listed, locked, TRUE, <<>>)
    OBVIOUS
  <2>2. fetch' = [fetch EXCEPT !["update"] = f] /\ UNCHANGED <<listed, locked, torn, upstream, disk, rival>> /\ ~torn
    BY <1>2, <2>1 DEF L!StartUpdate
  <2>3. IsRefresh(f) /\ TakenOver(f, locked, listed)
    BY <2>1, PlanOK DEF FolderInv
  <2>4. L!Sums(locked') /\ torn' \in BOOLEAN
    BY <2>2 DEF FolderInv, L!Sums
  <2> QED BY <1>0, <2>2, <2>3, <2>4, RefreshMoves
<1> QED BY <1>1, <1>2

(* A step of one download that leaves the folder alone                     *)
LEMMA TaskMoves ==
  ASSUME FolderInv, NEW j \in L!Jobs, NEW f, f = fetch[j], f.at = "running", NEW g, IsRefresh(g),
         g.at = f.at, g.tasks \subseteq f.tasks, g.expected = f.expected, g.new = f.new,
         fetch' = [fetch EXCEPT ![j] = g], UNCHANGED <<listed, locked, torn, upstream, disk, rival>>
  PROVE  FolderInv'
<1>1. "update" \notin Procs /\ (j \in Procs => OnDisk(j, f, disk, rival)) /\ (j = "update" => TakenOver(f, locked, listed))
  BY RepositoryAssumption DEF FolderInv, L!IsRepository
<1>2. j \in Procs => OnDisk(j, g, disk, rival')
  BY <1>1 DEF OnDisk
<1>3. j = "update" => TakenOver(g, locked', listed) /\ ~torn'
  BY <1>1 DEF TakenOver, FolderInv
<1>4. L!Sums(locked') /\ torn' \in BOOLEAN
  BY DEF FolderInv, L!Sums
<1> QED BY <1>1, <1>2, <1>3, <1>4, RefreshMoves

LEMMA OpenOK ==
  ASSUME FolderInv, NEW j \in L!Jobs, NEW r \in Rels, L!Open(j, r) \/ L!CopyTo(j, r)
  PROVE  FolderInv'
<1>1. PICK f, s : f = fetch[j] /\ s = IF L!Open(j, r) THEN "half" ELSE upstream[r]
  OBVIOUS
<1>2. PICK t, g : t = L!Put(f.temp, r, s) /\ g = [at |-> f.at, tasks |-> f.tasks, temp |-> t, expected |-> f.expected, new |-> f.new]
  OBVIOUS
<1>3. IsRefresh(f) /\ f.at = "running" /\ UNCHANGED <<listed, locked, torn, upstream, disk, rival>>
  BY <1>1 DEF FolderInv, L!Open, L!CopyTo
<1>4. fetch' = [fetch EXCEPT ![j] = g]
  <2>1. fetch' = [fetch EXCEPT ![j] = [f EXCEPT !.temp = t]]
    BY <1>1, <1>2 DEF L!Open, L!CopyTo
  <2>2. [f EXCEPT !.temp = t] = g
    BY <1>2, <1>3 DEF IsRefresh
  <2> QED BY <2>1, <2>2
<1>5. g.at = f.at /\ g.tasks = f.tasks /\ g.temp = t /\ g.expected = f.expected /\ g.new = f.new
  BY <1>2
<1>6. DOMAIN t = DOMAIN f.temp \cup {r} /\ t[r] = s /\ \A q \in DOMAIN f.temp : q # r => t[q] = f.temp[q]
  BY <1>2 DEF L!Put
<1>7. r \in f.tasks /\ (s # "half" => s \in Contents /\ (r \in DOMAIN f.expected => s = f.expected[r]))
  <2>1. CASE L!Open(j, r)
    BY <1>1, <2>1 DEF L!Open
  <2>2. CASE ~L!Open(j, r)
    <3>1. s = upstream[r] /\ L!CopyTo(j, r)
      BY <1>1, <2>2
    <3>2. r \in DOMAIN f.temp /\ upstream[r] # "down" /\ (r \in DOMAIN f.expected => upstream[r] = f.expected[r])
      BY <1>1, <3>1 DEF L!CopyTo
    <3>3. upstream[r] \in Contents \cup {"down"}
      BY DEF FolderInv
    <3> QED BY <1>3, <3>1, <3>2, <3>3 DEF IsRefresh
  <2> QED BY <2>1, <2>2
<1>8. IsRefresh(g)
  <2>1. DOMAIN t \subseteq f.tasks
    BY <1>3, <1>6, <1>7 DEF IsRefresh
  <2>2. \A q \in DOMAIN t : t[q] # "half" => t[q] \in Contents /\ (q \in DOMAIN f.expected => t[q] = f.expected[q])
    BY <1>3, <1>6, <1>7 DEF IsRefresh
  <2>3. g = [at |-> g.at, tasks |-> g.tasks, temp |-> g.temp, expected |-> g.expected, new |-> g.new]
    BY <1>2, <1>5
  <2> QED BY <1>3, <1>5, <2>1, <2>2, <2>3 DEF IsRefresh
<1> HIDE <1>2
<1> QED BY <1>1, <1>3, <1>4, <1>5, <1>8, TaskMoves

(* A download that is done or given up has no temporary file any more.     *)
LEMMA TaskEnds ==
  ASSUME NEW f, IsRefresh(f), NEW r, NEW n, L!Sums(n),
         \A q \in DOMAIN n : q \in DOMAIN f.expected => n[q] = f.expected[q],
         NEW g, g = [at |-> f.at, tasks |-> f.tasks \ {r}, temp |-> L!Without(f.temp, r), expected |-> f.expected, new |-> n]
  PROVE  /\ IsRefresh(g)
         /\ g.at = f.at /\ g.tasks = f.tasks \ {r} /\ g.expected = f.expected /\ g.new = n
<1>1. PICK t : t = L!Without(f.temp, r)
  OBVIOUS
<1>2. g.at = f.at /\ g.tasks = f.tasks \ {r} /\ g.temp = t /\ g.expected = f.expected /\ g.new = n
  BY <1>1
<1>3. DOMAIN t = DOMAIN f.temp \ {r} /\ \A q \in DOMAIN t : t[q] = f.temp[q]
  BY <1>1 DEF L!Without
<1>4. g = [at |-> g.at, tasks |-> g.tasks, temp |-> g.temp, expected |-> g.expected, new |-> g.new]
  BY <1>1, <1>2
<1> QED BY <1>2, <1>3, <1>4 DEF IsRefresh

LEMMA SkipOK ==
  ASSUME FolderInv, NEW j \in L!Jobs, NEW r \in Rels, L!Skip(j, r)
  PROVE  FolderInv'
<1>1. PICK f : f = fetch[j]
  OBVIOUS
<1>2. PICK g : g = [at |-> f.at, tasks |-> f.tasks \ {r}, temp |-> L!Without(f.temp, r), expected |-> f.expected, new |-> f.new]
  OBVIOUS
<1>3. f.at = "running" /\ fetch' = [fetch EXCEPT ![j] = g] /\ UNCHANGED <<listed, locked, torn, upstream, disk, rival>>
  BY <1>1, <1>2 DEF L!Skip
<1>4. IsRefresh(f) /\ L!Sums(f.new) /\ \A q \in DOMAIN f.new : q \in DOMAIN f.expected => f.new[q] = f.expected[q]
  BY <1>1 DEF FolderInv, IsRefresh
<1>5. IsRefresh(g) /\ g.at = f.at /\ g.tasks = f.tasks \ {r} /\ g.expected = f.expected /\ g.new = f.new
  BY <1>2, <1>4, TaskEnds
<1> HIDE <1>2
<1> QED BY <1>1, <1>3, <1>5, TaskMoves

(* A file takes its place: the others who have its checksum agree.         *)
LEMMA PersistOK ==
  ASSUME FolderInv, NEW j \in L!Jobs, NEW r \in Rels, L!Persist(j, r)
  PROVE  FolderInv'
<1>1. PICK f, s : f = fetch[j] /\ s = f.temp[r]
  OBVIOUS
<1>2. PICK n : n = L!Put(f.new, r, s)
  OBVIOUS
<1>3. PICK g : g = [at |-> f.at, tasks |-> f.tasks \ {r}, temp |-> L!Without(f.temp, r), expected |-> f.expected, new |-> n]
  OBVIOUS
<1>4. /\ f.at = "running" /\ r \in DOMAIN f.temp /\ s # "half"
      /\ fetch' = [fetch EXCEPT ![j] = g] /\ UNCHANGED <<listed, locked, torn, upstream>>
      /\ disk' = IF j = "update" THEN disk ELSE L!Put(disk, r, s)
      /\ rival' = IF j = "update" THEN rival
                  ELSE rival \cup {<<p, r>> : p \in {q \in Procs \ {j} :
                         ~(r \in DOMAIN f.expected /\ r \in DOMAIN fetch[q].expected /\ f.expected[r] = fetch[q].expected[r])}}
  BY <1>1, <1>2, <1>3 DEF L!Persist
<1>5. IsRefresh(f) /\ r \in f.tasks /\ s \in Contents /\ (r \in DOMAIN f.expected => s = f.expected[r])
  BY <1>1, <1>4 DEF FolderInv, IsRefresh
<1>6. DOMAIN n = DOMAIN f.new \cup {r} /\ n[r] = s /\ \A q \in DOMAIN f.new : q # r => n[q] = f.new[q]
  BY <1>2 DEF L!Put
<1>7. L!Sums(n) /\ \A q \in DOMAIN n : q \in DOMAIN f.expected => n[q] = f.expected[q]
  BY <1>5, <1>6 DEF L!Sums, IsRefresh
<1>8. IsRefresh(g) /\ g.at = f.at /\ g.tasks = f.tasks \ {r} /\ g.expected = f.expected /\ g.new = n
  BY <1>3, <1>5, <1>7, TaskEnds
<1>9. "update" \notin Procs /\ "update" \in L!Jobs /\ Procs \subseteq L!Jobs /\ (j # "update" => j \in Procs)
  BY RepositoryAssumption DEF L!Jobs, L!IsRepository
<1> HIDE <1>2, <1>3
<1>10. CASE j = "update"
  <2>1. TakenOver(f, locked, listed)
    BY <1>1, <1>10 DEF FolderInv
  <2>2. TakenOver(g, locked', listed)
    BY <1>4, <1>5, <1>6, <1>8, <2>1 DEF TakenOver
  <2>3. UNCHANGED <<disk, rival>> /\ ~torn' /\ L!Sums(locked') /\ torn' \in BOOLEAN
    BY <1>1, <1>4, <1>10 DEF FolderInv, L!Sums
  <2> QED BY <1>4, <1>8, <1>9, <1>10, <2>2, <2>3, RefreshMoves
<1>11. CASE j # "update"
  <2>1. /\ fetch' = [i \in L!Jobs |-> fetch'[i]] /\ \A i \in L!Jobs : IsRefresh(fetch'[i])
        /\ fetch'[j] = g /\ \A i \in L!Jobs : i # j => fetch'[i] = fetch[i]
    BY <1>4, <1>8 DEF FolderInv
  <2>2. DOMAIN disk' = DOMAIN disk \cup {r} /\ disk'[r] = s /\ \A q \in DOMAIN disk : q # r => disk'[q] = disk[q]
    BY <1>4, <1>11 DEF L!Put
  <2>3. L!Sums(disk')
    BY <1>5, <2>2 DEF L!Sums, FolderInv
  <2>4. rival' \subseteq Procs \X Rels /\ rival \subseteq rival'
    BY <1>4, <1>11 DEF FolderInv
  <2>5. ASSUME NEW p \in Procs PROVE fetch'[p].at # "writing" /\ OnDisk(p, fetch'[p], disk', rival')
    <3>1. fetch[p].at # "writing" /\ OnDisk(p, fetch[p], disk, rival)
      BY DEF FolderInv
    <3>2. CASE p = j
      BY <1>1, <1>6, <1>8, <2>1, <2>2, <2>4, <3>1, <3>2 DEF OnDisk
    <3>3. CASE p # j
      <4>1. fetch'[p] = fetch[p] /\ IsRefresh(fetch[p])
        BY <1>9, <2>1, <3>3 DEF FolderInv
      <4>2. <<p, r>> \notin rival' =>
              r \in DOMAIN f.expected /\ r \in DOMAIN fetch[p].expected /\ f.expected[r] = fetch[p].expected[r]
        BY <1>4, <1>11, <3>3
      <4>3. (r \in DOMAIN fetch[p].new /\ <<p, r>> \notin rival') => fetch[p].new[r] = s
        BY <1>5, <4>1, <4>2 DEF IsRefresh
      <4> QED BY <2>2, <2>4, <3>1, <4>1, <4>3 DEF OnDisk
    <3> QED BY <3>2, <3>3
  <2>6. fetch'["update"] = fetch["update"]
    BY <1>9, <1>11, <2>1
  <2> QED BY <1>4, <2>1, <2>3, <2>4, <2>5, <2>6 DEF FolderInv, L!Sums
<1> QED BY <1>10, <1>11

(* The end of a refresh, and of the write                                  *)
LEMMA EndRefreshOK ==
  ASSUME FolderInv, NEW j \in L!Jobs, L!EndRefresh(j) \/ (j = "update" /\ L!Write)
  PROVE  FolderInv'
<1>1. PICK f, a : f = fetch[j] /\ a = IF f.at = "running" /\ j = "update" THEN "writing" ELSE "ended"
  OBVIOUS
<1>2. PICK g : g = [at |-> a, tasks |-> f.tasks, temp |-> f.temp, expected |-> f.expected, new |-> f.new]
  OBVIOUS
<1>3. IsRefresh(f) /\ f.at \in {"running", "writing"} /\ UNCHANGED <<listed, torn, upstream, disk, rival>>
  BY <1>1 DEF L!EndRefresh, L!Write, FolderInv
<1>4. fetch' = [fetch EXCEPT ![j] = g]
  <2>1. fetch' = [fetch EXCEPT ![j] = [f EXCEPT !.at = a]]
    BY <1>1 DEF L!EndRefresh, L!Write
  <2>2. [f EXCEPT !.at = a] = g
    BY <1>2, <1>3 DEF IsRefresh
  <2> QED BY <2>1, <2>2
<1>5. g.at = a /\ g.tasks = f.tasks /\ g.temp = f.temp /\ g.expected = f.expected /\ g.new = f.new
  BY <1>2
<1>6. IsRefresh(g) /\ a \in {"writing", "ended"}
  BY <1>1, <1>2, <1>3, <1>5 DEF IsRefresh
<1>7. "update" \notin Procs
  BY RepositoryAssumption DEF L!IsRepository
<1>8. L!Sums(locked') /\ torn' \in BOOLEAN /\ (j \in Procs => UNCHANGED locked)
  BY <1>1, <1>3, <1>7 DEF FolderInv, L!Sums, IsRefresh, L!EndRefresh, L!Write
<1>9. j \in Procs => g.at # "writing" /\ OnDisk(j, g, disk, rival')
  BY <1>1, <1>3, <1>5, <1>7 DEF FolderInv, OnDisk
<1>10. j = "update" => TakenOver(g, locked', listed) /\ (torn' => g.at \in {"idle", "ended"})
  <2> SUFFICES ASSUME j = "update" PROVE TakenOver(g, locked', listed) /\ ~torn'
    OBVIOUS
  <2>1. TakenOver(f, locked, listed) /\ ~torn'
    BY <1>1, <1>3 DEF FolderInv
  <2>2. a = "writing" => UNCHANGED locked
    BY <1>1 DEF L!EndRefresh, L!Write
  <2> QED BY <1>3, <1>5, <1>6, <2>1, <2>2 DEF TakenOver
<1> HIDE <1>2
<1> QED BY <1>3, <1>4, <1>6, <1>7, <1>8, <1>9, <1>10, RefreshMoves

LEMMA KilledOK ==
  ASSUME FolderInv, NEW j \in L!Jobs, L!Killed(j)
  PROVE  FolderInv'
<1>1. fetch' = [fetch EXCEPT ![j] = L!Idle] /\ UNCHANGED <<listed, upstream, disk, rival>>
  BY DEF L!Killed
<1>2. "update" \notin Procs /\ IsRefresh(fetch[j])
  BY RepositoryAssumption DEF L!IsRepository, FolderInv
<1>3. L!Sums(locked') /\ torn' \in BOOLEAN
  <2>1. CASE fetch[j].at = "writing"
    <3>1. PICK S \in SUBSET DOMAIN fetch[j].new : locked' = [r \in S |-> fetch[j].new[r]]
      BY <2>1 DEF L!Killed
    <3>2. DOMAIN locked' = S /\ \A r \in S : locked'[r] = fetch[j].new[r]
      BY <3>1
    <3>3. torn' \in BOOLEAN
      BY <2>1 DEF L!Killed
    <3> QED BY <1>2, <3>2, <3>3 DEF IsRefresh, L!Sums
  <2>2. CASE fetch[j].at # "writing"
    BY <2>2 DEF L!Killed, FolderInv, L!Sums
  <2> QED BY <2>1, <2>2
<1>4. j \in Procs => UNCHANGED <<locked, torn>>
  <2> SUFFICES ASSUME j \in Procs, fetch[j].at = "writing" PROVE FALSE
    BY DEF L!Killed
  <2> QED BY DEF FolderInv
<1> QED BY <1>1, <1>2, <1>3, <1>4, IdleRefresh, RefreshMoves

LEMMA FolderStep ==
  ASSUME FolderInv, [L!Next]_(L!vars)
  PROVE  FolderInv'
<1>0. "update" \in L!Jobs
  BY DEF L!Jobs
<1>1. ASSUME NEW r \in Rels, L!Relist(r) PROVE FolderInv'
  <2>1. /\ listed' \subseteq Rels /\ UNCHANGED <<locked, torn, upstream, disk, fetch, rival>>
        /\ fetch["update"].at \in {"idle", "ended"}
    BY <1>1 DEF L!Relist, FolderInv
  <2>2. TakenOver(fetch'["update"], locked', listed')
    BY <2>1 DEF TakenOver
  <2> QED BY <2>1, <2>2 DEF FolderInv, L!Sums
<1>2. ASSUME NEW r \in Rels, NEW c \in Contents \cup {"down"}, L!Reupload(r, c) PROVE FolderInv'
  BY <1>2 DEF L!Reupload, FolderInv, L!Sums
<1>3. CASE L!PutBack
  <2>1. /\ L!Sums(locked') /\ torn' = FALSE /\ UNCHANGED <<listed, upstream, disk, fetch, rival>>
        /\ fetch["update"].at \in {"idle", "ended"}
    BY <1>3, RepositoryAssumption DEF L!PutBack, L!IsRepository, FolderInv, L!Sums
  <2>2. TakenOver(fetch'["update"], locked', listed')
    BY <2>1 DEF TakenOver
  <2> QED BY <2>1, <2>2 DEF FolderInv, L!Sums
<1>4. CASE UNCHANGED L!vars
  BY <1>4 DEF L!vars, FolderInv, L!Sums
<1>5. CASE L!Write
  BY <1>0, <1>5, EndRefreshOK
<1> QED BY <1>1, <1>2, <1>3, <1>4, <1>5, StartsOK, OpenOK, SkipOK, PersistOK, EndRefreshOK, KilledOK DEF L!Next

(* The lock is only written by an update that ends, which has taken over   *)
(* what it had, or that is cut short.                                      *)
LEMMA LockStep ==
  ASSUME FolderInv, [L!Next]_(L!vars), locked' # locked, ~torn, NEW r \in DOMAIN locked \cap listed
  PROVE  IF r \in DOMAIN locked' THEN locked'[r] = locked[r] ELSE L!Cut
<1>1. L!Write \/ \E j \in L!Jobs : L!Killed(j) /\ fetch[j].at = "writing"
  BY DEF L!Next, L!vars, L!Relist, L!PutBack, L!Reupload, L!Load, L!StartUpdate, L!EndRefresh, L!Killed, L!Write,
         L!Open, L!CopyTo, L!Persist, L!Skip
<1>2. "update" \in L!Jobs /\ \A j \in L!Jobs : fetch[j].at = "writing" => j = "update"
  BY DEF FolderInv, L!Jobs
<1>3. L!Write \/ (L!Killed("update") /\ fetch["update"].at = "writing")
  BY <1>1, <1>2
<1>4. fetch["update"].at = "writing" /\ r \in DOMAIN fetch["update"].new /\ fetch["update"].new[r] = locked[r]
  BY <1>3 DEF L!Write, FolderInv, TakenOver
<1>5. CASE L!Write
  BY <1>4, <1>5 DEF L!Write
<1>6. CASE L!Killed("update")
  <2>1. PICK S \in SUBSET DOMAIN fetch["update"].new : locked' = [q \in S |-> fetch["update"].new[q]]
    BY <1>4, <1>6 DEF L!Killed
  <2>2. fetch'["update"] = L!Idle
    BY <1>2, <1>6 DEF L!Killed, FolderInv
  <2>3. L!Cut
    BY <1>4, <2>2, IdleRefresh DEF L!Cut
  <2> QED BY <1>4, <2>1, <2>3
<1> QED BY <1>3, <1>5, <1>6

(* A file is only put on disk by a download, with the checksum it expects. *)
LEMMA DiskStep ==
  ASSUME FolderInv, [L!Next]_(L!vars), disk' # disk
  PROVE  \E p \in Procs : \E r \in fetch[p].tasks :
           /\ r \in DOMAIN disk' /\ disk' = L!Put(disk, r, disk'[r])
           /\ r \in DOMAIN fetch[p].expected => disk'[r] = fetch[p].expected[r]
<1>1. PICK j \in L!Jobs, r \in Rels : L!Persist(j, r)
  BY DEF L!Next, L!vars, L!Relist, L!PutBack, L!Reupload, L!Load, L!StartUpdate, L!EndRefresh, L!Killed, L!Write,
         L!Open, L!CopyTo, L!Skip
<1>2. j \in Procs
  BY <1>1 DEF L!Persist, L!Jobs
<1>3. /\ IsRefresh(fetch[j]) /\ r \in DOMAIN fetch[j].temp /\ fetch[j].temp[r] # "half"
      /\ disk' = L!Put(disk, r, fetch[j].temp[r])
  BY <1>1 DEF L!Persist, FolderInv
<1>4. r \in fetch[j].tasks /\ (r \in DOMAIN fetch[j].expected => fetch[j].temp[r] = fetch[j].expected[r])
  BY <1>3 DEF IsRefresh
<1>5. r \in DOMAIN disk' /\ disk'[r] = fetch[j].temp[r]
  BY <1>3 DEF L!Put
<1> QED BY <1>2, <1>3, <1>4, <1>5

(* For any processes that share the folder, any commits that they load and *)
(* servers that change files while they refresh and die: what is loaded is *)
(* on disk, whole, until another checksum or none is loaded elsewhere, and *)
(* what is locked keeps its checksum but where a write is cut.             *)
THEOREM LocksStayTrue == L!Spec => LocksAreTrue
<1>1. FolderInv => L!TypeOK /\ L!LockSaysWhatIsOnDisk
  BY DEF FolderInv, IsRefresh, OnDisk, L!TypeOK, L!LockSaysWhatIsOnDisk, L!Jobs
<1>2. FolderInv /\ [L!Next]_(L!vars) => FolderInv'
  BY FolderStep
<1>3. FolderInv /\ [L!Next]_(L!vars) =>
        [/\ \A r \in DOMAIN locked \cap listed : locked' # locked /\ ~torn =>
              IF r \in DOMAIN locked' THEN locked'[r] = locked[r] ELSE L!Cut
         /\ disk' # disk => \E p \in Procs : \E r \in fetch[p].tasks :
              /\ r \in DOMAIN disk' /\ disk' = L!Put(disk, r, disk'[r])
              /\ r \in DOMAIN fetch[p].expected => disk'[r] = fetch[p].expected[r]]_(L!vars)
  BY LockStep, DiskStep
<1> QED BY FolderInitially, <1>1, <1>2, <1>3, PTL DEF L!Spec, LocksAreTrue, L!LocksAreKept
-----------------------------------------------------------------------------
(* Bases on offer                                                          *)

BaseNo == Nat \ {0}

LEMMA BaseCardinality == ASSUME NEW Z PROVE B!Cardinality(Z) = Cardinality(Z) /\ B!IsFiniteSet(Z) = IsFiniteSet(Z)
BY DEF B!Cardinality, Cardinality, B!IsFiniteSet, IsFiniteSet

(* Some order of a finite set of versions has the newer before the older:  *)
(* the least of a smallest set without one could be put last.              *)
NewerFirst(s, Z) == s \in [1..Cardinality(Z) -> Z] /\ \A i, j \in 1..Cardinality(Z) : i < j => s[i] > s[j]

LEMMA LeastNatural ==
  ASSUME NEW Z \in SUBSET Nat, Z # {}
  PROVE  \E m \in Z : \A y \in Z : m <= y
<1>1. \E x \in Z : \A y \in Z : ~(<<y, x>> \in OpToRel(<, Nat))
  BY NatLessThanWellFounded, WFMin
<1>2. PICK x \in Z : \A y \in Z : ~(y < x)
  BY <1>1 DEF OpToRel
<1> QED BY <1>2

LEMMA OrderExists ==
  ASSUME NEW Z \in SUBSET Nat, IsFiniteSet(Z)
  PROVE  \E s : NewerFirst(s, Z)
<1> DEFINE Bad == {n \in Nat : \E Ys \in SUBSET Nat : IsFiniteSet(Ys) /\ Cardinality(Ys) = n /\ \A s : ~NewerFirst(s, Ys)}
<1> SUFFICES ASSUME Bad # {} PROVE FALSE
  BY FS_CardinalityType
<1>1. PICK n \in Bad : \A y \in Bad : n <= y
  <2>1. Bad \in SUBSET Nat
    OBVIOUS
  <2> HIDE DEF Bad
  <2> QED BY <2>1, LeastNatural
<1>2. PICK Ys \in SUBSET Nat : IsFiniteSet(Ys) /\ Cardinality(Ys) = n /\ \A s : ~NewerFirst(s, Ys)
  BY <1>1
<1>3. n \in Nat
  BY <1>1
<1>4. CASE n = 0
  <2>1. PICK s : s = [i \in 1..0 |-> 0]
    OBVIOUS
  <2>2. s \in [1..Cardinality(Ys) -> Ys] /\ \A i, j \in 1..Cardinality(Ys) : i < j => s[i] > s[j]
    BY <1>2, <1>4, <2>1
  <2> QED BY <1>2, <2>2 DEF NewerFirst
<1>5. CASE n # 0
  <2>1. Ys # {}
    BY <1>2, <1>5, FS_EmptySet
  <2>2. PICK m \in Ys : \A y \in Ys : m <= y
    BY <2>1, LeastNatural
  <2>3. IsFiniteSet(Ys \ {m}) /\ Cardinality(Ys \ {m}) = n - 1
    BY <1>2, FS_RemoveElement
  <2>4. n - 1 \notin Bad /\ n - 1 \in Nat
    BY <1>1, <1>3, <1>5
  <2>5. PICK s : NewerFirst(s, Ys \ {m})
    BY <2>3, <2>4
  <2>6. s \in [1..(n - 1) -> Ys \ {m}] /\ \A i, j \in 1..(n - 1) : i < j => s[i] > s[j]
    BY <2>3, <2>5 DEF NewerFirst
  <2>7. PICK r : r = [i \in 1..n |-> IF i = n THEN m ELSE s[i]]
    OBVIOUS
  <2>8. \A i \in 1..n : i # n => i \in 1..(n - 1)
    BY <1>3
  <2>9. r \in [1..n -> Ys]
    BY <2>6, <2>7, <2>8
  <2>10. \A i, j \in 1..n : i < j => r[i] > r[j]
    <3> SUFFICES ASSUME NEW i \in 1..n, NEW j \in 1..n, i < j PROVE r[i] > r[j]
      OBVIOUS
    <3>0. i # n
      BY <1>3
    <3>1. i \in 1..(n - 1) /\ r[i] = s[i] /\ s[i] \in Ys \ {m}
      BY <2>6, <2>7, <2>8, <3>0
    <3>2. CASE j = n
      <4>1. r[j] = m /\ m <= s[i] /\ s[i] \in Nat /\ m \in Nat
        BY <2>2, <2>7, <3>1, <3>2
      <4> QED BY <3>1, <4>1
    <3>3. CASE j # n
      BY <2>6, <2>7, <2>8, <3>1, <3>3
    <3> QED BY <3>2, <3>3
  <2> QED BY <1>2, <2>9, <2>10 DEF NewerFirst
<1> QED BY <1>4, <1>5

(* NewestFirst lists every base once, and the newer before the older.      *)
LEMMA NewestFirstOK ==
  ASSUME NEW Z \in SUBSET Nat, IsFiniteSet(Z), NEW s, s = B!NewestFirst(Z)
  PROVE  /\ Cardinality(Z) \in Nat /\ s \in [1..Cardinality(Z) -> Z] /\ Len(s) = Cardinality(Z)
         /\ \A i, j \in 1..Cardinality(Z) : i < j => s[i] > s[j]
         /\ \A z \in Z : \E i \in 1..Cardinality(Z) : s[i] = z
<1>1. Cardinality(Z) \in Nat /\ IsFiniteSet(1..Cardinality(Z)) /\ Cardinality(1..Cardinality(Z)) = Cardinality(Z)
  BY FS_CardinalityType, FS_Interval
<1>2. s = CHOOSE r \in [1..Cardinality(Z) -> Z] : \A i, j \in DOMAIN r : i < j => r[i] > r[j]
  BY BaseCardinality DEF B!NewestFirst
<1>3. \E r \in [1..Cardinality(Z) -> Z] : \A i, j \in DOMAIN r : i < j => r[i] > r[j]
  BY OrderExists DEF NewerFirst
<1>4. s \in [1..Cardinality(Z) -> Z] /\ \A i, j \in DOMAIN s : i < j => s[i] > s[j]
  BY <1>2, <1>3, Zenon
<1>5. \A i, j \in 1..Cardinality(Z) : i < j => s[i] > s[j]
  BY <1>4
<1>6. Len(s) = Cardinality(Z)
  BY <1>1, <1>4
<1>7. s \in Injection(1..Cardinality(Z), Z)
  <2>1. \A i, j \in 1..Cardinality(Z) : s[i] = s[j] => i = j
    <3> SUFFICES ASSUME NEW i \in 1..Cardinality(Z), NEW j \in 1..Cardinality(Z), s[i] = s[j], i # j PROVE FALSE
      OBVIOUS
    <3>1. i \in Nat /\ j \in Nat
      BY <1>1
    <3>2. s[i] \in Z /\ s[j] \in Z
      BY <1>4, Zenon
    <3>3. i < j \/ j < i
      BY <3>1
    <3>4. s[i] > s[j] \/ s[j] > s[i]
      BY <1>5, <3>3
    <3>5. \A x \in Nat : ~(x > x)
      OBVIOUS
    <3>6. s[i] \in Nat
      BY <3>2
    <3> QED BY <3>4, <3>5, <3>6
  <2> QED BY <1>4, <2>1 DEF Injection, IsInjective
<1>8. s \in Surjection(1..Cardinality(Z), Z)
  BY <1>1, <1>7, FS_Injection
<1> QED BY <1>1, <1>4, <1>5, <1>6, <1>8 DEF Surjection

(* The bases on offer, and the one a page is about when it names none      *)
OfferedSet(c, i) == IF c.enabled = None THEN {i.legacy} ELSE c.enabled \cap DOMAIN i.rels

LEMMA OfferedOK ==
  ASSUME NEW c, B!IsConfig(c), NEW i, B!IsIndex(i), NEW s, s = B!Offered(c, i), NEW n, n = Cardinality(OfferedSet(c, i))
  PROVE  /\ OfferedSet(c, i) \subseteq BaseNo /\ OfferedSet(c, i) \subseteq DOMAIN i.rels
         /\ n \in Nat /\ s \in [1..n -> OfferedSet(c, i)] /\ Len(s) = n
         /\ \A j, k \in 1..n : j < k => s[j] > s[k]
         /\ \A z : B!Contains(s, z) <=> z \in OfferedSet(c, i)
         /\ B!ToSet(s) = OfferedSet(c, i)
         /\ i.legacy \in DOMAIN i.rels /\ i.legacy \in BaseNo
<1> DEFINE Z == OfferedSet(c, i)
<1>1. IsFiniteSet(DOMAIN i.rels) /\ DOMAIN i.rels \subseteq BaseNo /\ i.legacy \in DOMAIN i.rels
  BY BaseCardinality DEF B!IsIndex, B!Numbered, B!NoVersion, BaseNo
<1>2. Z \subseteq DOMAIN i.rels
  BY <1>1 DEF OfferedSet
<1>3. IsFiniteSet(Z) /\ Z \in SUBSET Nat
  BY <1>1, <1>2, FS_Subset DEF BaseNo
<1>4. s = B!NewestFirst(Z)
  BY DEF B!Offered, B!Described, OfferedSet
<1> HIDE DEF Z
<1>5. /\ n \in Nat /\ s \in [1..n -> Z] /\ Len(s) = n
      /\ \A j, k \in 1..n : j < k => s[j] > s[k]
      /\ \A z \in Z : \E j \in 1..n : s[j] = z
  BY <1>3, <1>4, NewestFirstOK DEF Z
<1>6. \A z : B!Contains(s, z) <=> z \in Z
  BY <1>5 DEF B!Contains
<1>7. B!ToSet(s) = Z
  BY <1>5 DEF B!ToSet
<1> QED BY <1>1, <1>2, <1>5, <1>6, <1>7 DEF Z

LEMMA DefaultOK ==
  ASSUME NEW c, B!IsConfig(c), NEW i, B!IsIndex(i), NEW d, d = B!DefaultBase(c, i)
  PROVE  /\ d \in BaseNo /\ d \in DOMAIN i.rels
         /\ OfferedSet(c, i) # {} => d \in OfferedSet(c, i)
         /\ OfferedSet(c, i) = {} => d = i.legacy /\ B!Offered(c, i) = <<>>
         /\ (c.default # None /\ c.default \in OfferedSet(c, i)) => d = c.default
<1>1. PICK s : s = B!Offered(c, i)
  OBVIOUS
<1>2. PICK n : n = Cardinality(OfferedSet(c, i))
  OBVIOUS
<1>3. /\ OfferedSet(c, i) \subseteq BaseNo /\ OfferedSet(c, i) \subseteq DOMAIN i.rels
      /\ n \in Nat /\ s \in [1..n -> OfferedSet(c, i)] /\ Len(s) = n
      /\ \A z : B!Contains(s, z) <=> z \in OfferedSet(c, i)
      /\ i.legacy \in DOMAIN i.rels /\ i.legacy \in BaseNo
  BY <1>1, <1>2, OfferedOK
<1>4. d = IF c.default # None /\ B!Contains(s, c.default) THEN c.default
          ELSE IF s = <<>> THEN i.legacy ELSE s[1]
  BY <1>1 DEF B!DefaultBase
<1>5. s # <<>> => s[1] \in OfferedSet(c, i)
  BY <1>3
<1>6. s = <<>> => \A z : z \notin OfferedSet(c, i)
  BY <1>3 DEF B!Contains
<1>7. OfferedSet(c, i) = {} => s = <<>>
  BY <1>3
<1> QED BY <1>1, <1>3, <1>4, <1>5, <1>6, <1>7

LEMMA NewestRelease ==
  ASSUME NEW Z \in SUBSET Nat, IsFiniteSet(Z), Z # {}
  PROVE  B!Max(Z) \in Z
<1>1. PICK s, n : s = B!NewestFirst(Z) /\ n = Cardinality(Z)
  OBVIOUS
<1>2. /\ n \in Nat /\ s \in [1..n -> Z]
      /\ \A i, j \in 1..n : i < j => s[i] > s[j]
      /\ \A z \in Z : \E i \in 1..n : s[i] = z
  BY <1>1, NewestFirstOK
<1>a. PICK y \in Z, k \in 1..n : s[k] = y
  BY <1>2
<1>b. 1 \in 1..n
  BY <1>2, <1>a
<1>3. 1 \in 1..n /\ s[1] \in Z
  BY <1>2, <1>b
<1>4. \A z \in Z : s[1] >= z
  <2> TAKE z \in Z
  <2>1. PICK i \in 1..n : s[i] = z
    BY <1>2
  <2>2. i = 1 \/ 1 < i
    BY <1>2
  <2>3. s[1] = z \/ s[1] > z
    BY <1>2, <1>3, <2>1, <2>2
  <2>4. s[1] \in Nat /\ z \in Nat
    BY <1>3
  <2> QED BY <2>3, <2>4
<1> QED BY <1>3, <1>4 DEF B!Max

-----------------------------------------------------------------------------
(* Releases of the worlds                                                  *)

LEMMA RelCardinality == ASSUME NEW Z PROVE W!Cardinality(Z) = Cardinality(Z) /\ W!IsFiniteSet(Z) = IsFiniteSet(Z)
BY DEF W!Cardinality, Cardinality, W!IsFiniteSet, IsFiniteSet

LEMMA LeastVersion ==
  ASSUME NEW Z \in SUBSET Nat, Z # {}
  PROVE  W!Min(Z) \in Z
<1>1. \E m \in Z : \A y \in Z : m <= y
  BY LeastNatural
<1> QED BY <1>1 DEF W!Min

LEMMA GreatestVersion ==
  ASSUME NEW Z \in SUBSET Nat, IsFiniteSet(Z), Z # {}
  PROVE  W!Max(Z) \in Z
<1>1. W!Max(Z) = B!Max(Z)
  BY DEF W!Max, B!Max
<1> QED BY <1>1, NewestRelease

(* The four requirements differ.                                           *)
LEMMA ReqsDiffer ==
  /\ \A v : W!Specific(v).req = "specific" /\ W!Specific(v).v = v
  /\ W!Latest.req = "latest" /\ W!LatestSupported.req = "latest_supported" /\ W!Disabled.req = "disabled"
BY DEF W!Specific, W!Latest, W!LatestSupported, W!Disabled

(* A world as a base sees it, and the view of a base                       *)
IsWorld(w) ==
  /\ IsFiniteSet(DOMAIN w.versions) /\ DOMAIN w.versions \subseteq Nat /\ DOMAIN w.versions # {}
  /\ W!IsReq(w.default)
IsView(view) == DOMAIN view.worlds \subseteq Nat /\ \A n \in DOMAIN view.worlds : IsWorld(view.worlds[n])

(* The newest release of a world that is seen is there.                    *)
LEMMA NewestIsThere ==
  ASSUME NEW w, IsWorld(w)
  PROVE  /\ W!GetLatestRelease(w) \in DOMAIN w.versions
         /\ W!GetLatestRelease(w) \in Nat /\ W!GetLatestRelease(w) # None
<1>1. DOMAIN w.versions # {}
  BY DEF IsWorld
<1>2. W!GetLatestRelease(w) = W!Max(DOMAIN w.versions)
  BY <1>1 DEF W!GetLatestRelease
<1>3. W!Max(DOMAIN w.versions) \in DOMAIN w.versions
  BY GreatestVersion DEF IsWorld
<1> QED BY <1>2, <1>3, NoneIsNoVersion DEF IsWorld

(* The override that applies is one of the file's, or changes nothing.     *)
LEMMA OverrideIsOfTheFile ==
  ASSUME NEW def, W!IsWorldFile(def), NEW b, NEW c, c = W!OverrideFor(def, b).change
  PROVE  /\ c.supported \in BOOLEAN \cup {None} /\ c.disabled \in BOOLEAN \cup {None}
         /\ c.default = None \/ W!IsReq(c.default)
<1>1. PICK M : M = {i \in DOMAIN def.overrides : b \in def.overrides[i].bases}
  OBVIOUS
<1>2. c = IF M = {} THEN [supported |-> None, disabled |-> None, default |-> None] ELSE def.overrides[W!Min(M)]
  BY <1>1 DEF W!OverrideFor
<1>3. CASE M = {}
  BY <1>2, <1>3
<1>4. CASE M # {}
  <2>1. M \in SUBSET Nat /\ M \subseteq DOMAIN def.overrides
    BY <1>1 DEF W!IsWorldFile
  <2>2. W!Min(M) \in M
    BY <1>4, <2>1, LeastVersion
  <2>3. PICK i \in DOMAIN def.overrides : c = def.overrides[i]
    BY <1>2, <1>4, <2>1, <2>2
  <2> QED BY <2>3 DEF W!IsWorldFile
<1> QED BY <1>3, <1>4

(* What VersionsOn lists                                                   *)
LEMMA VersionsListed ==
  ASSUME NEW def, W!IsWorldFile(def), NEW b \in Nat, NEW s \in BOOLEAN, NEW f, f = W!VersionsOn(def, b, s)
  PROVE  /\ IsFiniteSet(DOMAIN f) /\ DOMAIN f \subseteq Nat
         /\ s => b \in DOMAIN f /\ f[b] = "supported"
         /\ \A v \in DOMAIN f : f[v] = "supported" => v = b
         /\ \A v \in DOMAIN f : f[v] = "supported" \/ v \notin DOMAIN def.releases \/ W!RunsOn(def.releases[v], b)
         /\ \A v \in DOMAIN def.versions : v \in DOMAIN f \/ (v \in DOMAIN def.releases /\ ~W!RunsOn(def.releases[v], b))
<1>1. PICK run : run = {v \in DOMAIN def.releases : W!RunsOn(def.releases[v], b)}
  OBVIOUS
<1>2. PICK Z : Z = ((DOMAIN def.versions \ DOMAIN def.releases) \cup run) \cup (IF s THEN {b} ELSE {})
  OBVIOUS
<1>3. f = [v \in Z |->
        IF s /\ v = b THEN "supported"
        ELSE IF v \in run
             THEN W!Given(W!Origin(def.releases[v]), IF v \in DOMAIN def.versions THEN def.versions[v] ELSE "default")
        ELSE def.versions[v]]
  BY <1>1, <1>2 DEF W!VersionsOn
<1>4. IsFiniteSet(Z) /\ Z \subseteq Nat
  <2>1. IsFiniteSet(DOMAIN def.versions) /\ IsFiniteSet(DOMAIN def.releases) /\ DOMAIN def.versions \subseteq Nat /\ DOMAIN def.releases \subseteq Nat
    BY RelCardinality DEF W!IsWorldFile, W!IsVersions
  <2>2. IsFiniteSet(DOMAIN def.versions \cup DOMAIN def.releases)
    BY <2>1, FS_Union
  <2>3. IsFiniteSet((DOMAIN def.versions \cup DOMAIN def.releases) \cup {b})
    BY <2>2, FS_AddElement
  <2>4. Z \subseteq (DOMAIN def.versions \cup DOMAIN def.releases) \cup {b}
    BY <1>1, <1>2
  <2> QED BY <2>1, <2>3, <2>4, FS_Subset
<1>5. \A v \in Z : ~(s /\ v = b) => f[v] # "supported"
  <2> SUFFICES ASSUME NEW v \in Z, ~(s /\ v = b) PROVE f[v] # "supported"
    OBVIOUS
  <2>1. CASE v \in run
    <3>1. f[v] = W!Given(W!Origin(def.releases[v]), IF v \in DOMAIN def.versions THEN def.versions[v] ELSE "default")
      BY <1>3, <2>1
    <3>2. v \in DOMAIN def.versions => def.versions[v] # "supported"
      BY DEF W!IsWorldFile
    <3>3. W!Origin(def.releases[v]) \in {"url", "local", None}
      BY DEF W!Origin
    <3> QED BY <3>1, <3>2, <3>3 DEF W!Given
  <2>2. CASE v \notin run
    <3>1. v \in DOMAIN def.versions
      BY <1>2, <2>2
    <3>2. f[v] = def.versions[v]
      BY <1>3, <2>2
    <3> QED BY <3>1, <3>2 DEF W!IsWorldFile
  <2> QED BY <2>1, <2>2
<1>6. DOMAIN f = Z
  BY <1>3
<1>7. s => b \in Z /\ f[b] = "supported"
  BY <1>2, <1>3
<1> QED BY <1>1, <1>2, <1>4, <1>5, <1>6, <1>7

(* A world that a base sees is what ForBase makes of its file.             *)
LEMMA SeenWorld ==
  ASSUME NEW file, W!IsIndexFile(file), NEW b \in Nat, NEW n, NEW view, view = W!ViewForBase(file, b)
  PROVE  /\ n \in DOMAIN view.worlds <=> (n \in DOMAIN file.worlds /\ W!ForBase(file.worlds[n], b) # None)
         /\ n \in DOMAIN view.worlds => view.worlds[n] = W!ForBase(file.worlds[n], b)
BY DEF W!ViewForBase

LEMMA ForBaseOK ==
  ASSUME NEW def, W!IsWorldFile(def), NEW b \in Nat, NEW w, w = W!ForBase(def, b), w # None
  PROVE  /\ IsWorld(w)
         /\ w.supported => b \in DOMAIN w.versions /\ w.versions[b] = "supported"
         /\ \A v \in DOMAIN w.versions : w.versions[v] = "supported" => v = b
         /\ \A v \in DOMAIN w.versions : w.versions[v] = "supported" \/ v \notin DOMAIN def.releases \/ W!RunsOn(def.releases[v], b)
         /\ \A v \in DOMAIN def.versions : v \in DOMAIN w.versions \/ (v \in DOMAIN def.releases /\ ~W!RunsOn(def.releases[v], b))
<1>1. PICK c : c = W!OverrideFor(def, b).change
  OBVIOUS
<1>2. PICK s : s = W!Given(c.supported, def.supported)
  OBVIOUS
<1>3. PICK f : f = W!VersionsOn(def, b, s)
  OBVIOUS
<1>4. w = [name |-> def.name, default |-> W!Given(c.default, def.default), versions |-> f, supported |-> s] /\ DOMAIN f # {}
  BY <1>1, <1>2, <1>3 DEF W!ForBase
<1>5. /\ c.supported \in BOOLEAN \cup {None}
      /\ c.default = None \/ W!IsReq(c.default)
  BY <1>1, OverrideIsOfTheFile
<1>6. def.supported \in BOOLEAN /\ W!IsReq(def.default)
  BY DEF W!IsWorldFile
<1>7. s \in BOOLEAN
  BY <1>2, <1>5, <1>6, Zenon DEF W!Given
<1>8. W!IsReq(w.default)
  <2>1. w.default = W!Given(c.default, def.default)
    BY <1>4
  <2> QED BY <1>5, <1>6, <2>1, Zenon DEF W!Given
<1>9. w.versions = f /\ w.supported = s
  BY <1>4
<1>10. /\ IsFiniteSet(DOMAIN f) /\ DOMAIN f \subseteq Nat /\ DOMAIN f # {}
       /\ s => b \in DOMAIN f /\ f[b] = "supported"
       /\ \A v \in DOMAIN f : f[v] = "supported" => v = b
       /\ \A v \in DOMAIN f : f[v] = "supported" \/ v \notin DOMAIN def.releases \/ W!RunsOn(def.releases[v], b)
       /\ \A v \in DOMAIN def.versions : v \in DOMAIN f \/ (v \in DOMAIN def.releases /\ ~W!RunsOn(def.releases[v], b))
  BY <1>3, <1>4, <1>7, VersionsListed
<1> QED BY <1>8, <1>9, <1>10 DEF IsWorld

LEMMA BasesAreNumbers ==
  ASSUME NEW file, W!IsIndexFile(file)
  PROVE  W!BasesOf(file) \subseteq Nat /\ file.legacy \in W!BasesOf(file)
BY DEF W!BasesOf, W!IsIndexFile, W!IsVersions

LEMMA ViewsAreViews ==
  ASSUME NEW file, W!IsIndexFile(file), NEW b \in W!BasesOf(file)
  PROVE  IsView(W!ViewForBase(file, b))
<1>1. b \in Nat
  BY BasesAreNumbers
<1>2. PICK view : view = W!ViewForBase(file, b)
  OBVIOUS
<1>3. \A n \in DOMAIN view.worlds : n \in Nat /\ IsWorld(view.worlds[n])
  <2> TAKE n \in DOMAIN view.worlds
  <2>1. n \in DOMAIN file.worlds /\ view.worlds[n] = W!ForBase(file.worlds[n], b) /\ view.worlds[n] # None
    BY <1>1, <1>2, SeenWorld
  <2>2. W!IsWorldFile(file.worlds[n]) /\ n \in Nat
    BY <2>1 DEF W!IsIndexFile, W!IsVersions
  <2> QED BY <1>1, <2>1, <2>2, ForBaseOK
<1> QED BY <1>2, <1>3 DEF IsView

(* A base sees exactly the releases that run on it.                        *)
LEMMA BasesSeeWhatRuns ==
  ASSUME NEW file, W!IsIndexFile(file)
  PROVE  W!SeesWhatRuns(file)
<1> SUFFICES ASSUME NEW b \in W!BasesOf(file), NEW n \in DOMAIN file.worlds, NEW view, view = W!ViewForBase(file, b),
                    NEW def, def = file.worlds[n], n \in DOMAIN view.worlds
             PROVE  /\ W!GetLatestRelease(view.worlds[n]) # None
                    /\ \A v \in DOMAIN view.worlds[n].versions :
                         view.worlds[n].versions[v] = "supported" \/ ~(v \in DOMAIN def.releases /\ ~W!RunsOn(def.releases[v], b))
                    /\ \A v \in DOMAIN def.versions :
                         (v \in DOMAIN def.releases /\ ~W!RunsOn(def.releases[v], b)) \/ v \in DOMAIN view.worlds[n].versions
  BY DEF W!SeesWhatRuns
<1>1. b \in Nat /\ W!IsWorldFile(def)
  BY BasesAreNumbers DEF W!IsIndexFile
<1>2. PICK w : w = view.worlds[n]
  OBVIOUS
<1>3. w = W!ForBase(def, b) /\ w # None
  BY <1>1, <1>2, SeenWorld
<1>4. /\ IsWorld(w)
      /\ \A v \in DOMAIN w.versions : w.versions[v] = "supported" \/ v \notin DOMAIN def.releases \/ W!RunsOn(def.releases[v], b)
      /\ \A v \in DOMAIN def.versions : v \in DOMAIN w.versions \/ (v \in DOMAIN def.releases /\ ~W!RunsOn(def.releases[v], b))
  BY <1>1, <1>3, ForBaseOK
<1> QED BY <1>2, <1>4, NewestIsThere

-----------------------------------------------------------------------------
(* A world whose default is there resolves to it.                          *)
LEMMA DefaultResolves ==
  ASSUME NEW w, IsWorld(w), w.default # W!Disabled,
         w.default.req = "specific" => w.default.v \in DOMAIN w.versions,
         w.default = W!LatestSupported => \E v \in DOMAIN w.versions : w.versions[v] = "supported"
  PROVE  W!ResolveWorldVersion(w, w.default) # None
<1>1. W!GetLatestRelease(w) # None
  BY NewestIsThere
<1>2. CASE w.default = W!Latest
  <2>1. w.default.req = "latest"
    BY <1>2, ReqsDiffer
  <2> QED BY <1>1, <2>1 DEF W!ResolveWorldVersion
<1>3. CASE w.default = W!LatestSupported
  <2>1. w.default.req = "latest_supported"
    BY <1>3, ReqsDiffer
  <2>2. PICK core : core = {v \in DOMAIN w.versions : w.versions[v] = "supported"}
    OBVIOUS
  <2>3. core # {} /\ core \in SUBSET Nat
    BY <1>3, <2>2 DEF IsWorld
  <2>4. W!Min(core) \in core
    BY <2>3, LeastVersion
  <2>5. W!GetLatestSupportedRelease(w) = W!Min(core)
    BY <2>2, <2>3 DEF W!GetLatestSupportedRelease
  <2>6. W!GetLatestSupportedRelease(w) # None
    BY <2>3, <2>4, <2>5, NoneIsNoVersion
  <2> QED BY <2>1, <2>6 DEF W!ResolveWorldVersion
<1>4. CASE w.default = W!Specific(w.default.v) /\ w.default.v \in Nat
  <2>1. w.default.req = "specific"
    BY <1>4, ReqsDiffer
  <2>2. w.default.v # None
    BY <1>4, NoneIsNoVersion
  <2>3. W!GetVersion(w, w.default.v) # None
    BY <2>1, <2>2 DEF W!GetVersion
  <2> QED BY <2>1, <2>3 DEF W!ResolveWorldVersion, W!Given
<1> QED BY <1>2, <1>3, <1>4 DEF IsWorld, W!IsReq

(* An index without lint errors resolves on every base.                    *)
LEMMA LintedResolves ==
  ASSUME NEW file, W!IsIndexFile(file)
  PROVE  W!LintedIndexResolves(file)
<1> SUFFICES ASSUME W!Lint(file)
             PROVE  /\ \A b \in W!BasesOf(file) :
                         W!ResolveWith(W!FromIndexWithDefaultVersions(W!ViewForBase(file, b)), W!ViewForBase(file, b)).errors = {}
                    /\ \A n \in DOMAIN file.worlds :
                         file.worlds[n].disabled \/
                           /\ W!OldLobbyOffers(file, n) # {}
                           /\ \A v \in W!OldLobbyOffers(file, n) :
                                v \in DOMAIN file.worlds[n].releases =>
                                  W!RunsOn(file.worlds[n].releases[v], file.legacy) \/ v = file.legacy
  BY DEF W!LintedIndexResolves
<1>1. \A n \in DOMAIN file.worlds : W!LintWorld(file, n)
  BY DEF W!Lint
<1>2. ASSUME NEW b \in W!BasesOf(file)
      PROVE  W!ResolveWith(W!FromIndexWithDefaultVersions(W!ViewForBase(file, b)), W!ViewForBase(file, b)).errors = {}
  <2>1. b \in Nat
    BY BasesAreNumbers
  <2>2. PICK view : view = W!ViewForBase(file, b)
    OBVIOUS
  <2>3. PICK m : m = W!FromIndexWithDefaultVersions(view)
    OBVIOUS
  <2>4. ASSUME NEW n \in DOMAIN view.worlds, W!GetVersionReq(m, n, view) # W!Disabled
        PROVE  W!ResolveWorldVersion(view.worlds[n], W!GetVersionReq(m, n, view)) # None
    <3>1. PICK w : w = view.worlds[n]
      OBVIOUS
    <3>2. W!GetVersionReq(m, n, view) = w.default
      BY <2>3, <3>1 DEF W!GetVersionReq, W!FromIndexWithDefaultVersions
    <3>3. n \in DOMAIN file.worlds /\ w = W!ForBase(file.worlds[n], b) /\ w # None
      BY <2>1, <2>2, <3>1, SeenWorld
    <3>4. W!IsWorldFile(file.worlds[n])
      BY <3>3 DEF W!IsIndexFile
    <3>5. IsWorld(w) /\ (w.supported => b \in DOMAIN w.versions /\ w.versions[b] = "supported")
      BY <2>1, <3>3, <3>4, ForBaseOK
    <3>6. b \notin W!LintDefaults(file, n)
      BY <1>1, <3>3 DEF W!LintWorld
    <3>7. /\ w.default.req = "specific" => w.default.v \in DOMAIN w.versions
          /\ w.default = W!LatestSupported => w.supported
      BY <3>3, <3>6 DEF W!LintDefaults
    <3>8. w.default # W!Disabled
      BY <2>4, <3>2
    <3>9. W!ResolveWorldVersion(w, w.default) # None
      BY <3>5, <3>7, <3>8, DefaultResolves
    <3> QED BY <3>1, <3>2, <3>9
  <2> QED BY <2>2, <2>3, <2>4 DEF W!ResolveWith
<1>3. ASSUME NEW n \in DOMAIN file.worlds, ~file.worlds[n].disabled
      PROVE  /\ W!OldLobbyOffers(file, n) # {}
             /\ \A v \in W!OldLobbyOffers(file, n) :
                  v \in DOMAIN file.worlds[n].releases =>
                    W!RunsOn(file.worlds[n].releases[v], file.legacy) \/ v = file.legacy
  <2>1. PICK def : def = file.worlds[n]
    OBVIOUS
  <2>2. /\ \A v \in DOMAIN def.versions \cap DOMAIN def.releases : W!RunsOn(def.releases[v], file.legacy)
        /\ DOMAIN def.versions # {} \/ def.supported
    BY <1>1, <1>3, <2>1 DEF W!LintWorld
  <2>3. W!OldLobbyOffers(file, n) = DOMAIN def.versions \cup (IF def.supported THEN {file.legacy} ELSE {})
    BY <2>1 DEF W!OldLobbyOffers
  <2> QED BY <2>1, <2>2, <2>3
<1> QED BY <1>2, <1>3

-----------------------------------------------------------------------------
(* The base whose entry all_releases keeps is one of those that have it.   *)
LEMMA FirstIsOne ==
  ASSUME NEW file, NEW Z \in SUBSET Nat, Z # {}
  PROVE  W!FirstOf(file, Z) \in Z
BY LeastVersion DEF W!FirstOf

(* The versions of the merged views are those of the bases, each with the  *)
(* origin that some base has it from.                                      *)
LEMMA MergedHasEvery ==
  ASSUME NEW file, W!IsIndexFile(file), NEW b \in W!BasesOf(file), NEW n \in DOMAIN W!ViewForBase(file, b).worlds,
         NEW v \in DOMAIN W!ViewForBase(file, b).worlds[n].versions, NEW all, all = W!AllReleases(file)
  PROVE  /\ n \in DOMAIN all.worlds /\ v \in DOMAIN all.worlds[n].versions
         /\ \E c \in W!BasesOf(file) :
              /\ n \in DOMAIN W!ViewForBase(file, c).worlds /\ v \in DOMAIN W!ViewForBase(file, c).worlds[n].versions
              /\ all.worlds[n].versions[v] = W!ViewForBase(file, c).worlds[n].versions[v]
<1> DEFINE views == [c \in W!BasesOf(file) |-> W!ViewForBase(file, c).worlds]
           seers(m) == {c \in W!BasesOf(file) : m \in DOMAIN views[c]}
           versions(m) == UNION {DOMAIN views[c][m].versions : c \in seers(m)}
           with(m, u) == {c \in seers(m) : u \in DOMAIN views[c][m].versions}
           origin(m, u) == views[W!FirstOf(file, with(m, u))][m].versions[u]
           names == UNION {DOMAIN W!ViewForBase(file, c).worlds : c \in W!BasesOf(file)}
<1>1. all = [base |-> file.legacy,
             worlds |-> [m \in names |->
               [views[W!FirstOf(file, seers(m))][m] EXCEPT !.versions = [u \in versions(m) |-> origin(m, u)]]]]
  BY DEF W!AllReleases, W!MergedViews
<1>2. n \in names /\ b \in with(n, v) /\ v \in versions(n)
  OBVIOUS
<1>3. with(n, v) \in SUBSET Nat /\ with(n, v) # {} /\ b \in seers(n) /\ seers(n) \in SUBSET Nat
  BY <1>2, BasesAreNumbers
<1>4. W!FirstOf(file, with(n, v)) \in with(n, v) /\ W!FirstOf(file, seers(n)) \in seers(n)
  <2> HIDE DEF with, seers
  <2> QED BY <1>3, FirstIsOne
<1>5. PICK d \in W!BasesOf(file) : d = W!FirstOf(file, seers(n)) /\ n \in DOMAIN W!ViewForBase(file, d).worlds
  BY <1>4
<1>6. PICK w : w = W!ViewForBase(file, d).worlds[n]
  OBVIOUS
<1>7. PICK c \in W!BasesOf(file) : c = W!FirstOf(file, with(n, v)) /\ c \in with(n, v)
  BY <1>4
<1>8. w = [name |-> w.name, default |-> w.default, versions |-> w.versions, supported |-> w.supported]
  <2>1. d \in Nat
    BY BasesAreNumbers
  <2>2. w = W!ForBase(file.worlds[n], d) /\ w # None
    BY <1>5, <1>6, <2>1, SeenWorld
  <2> QED BY <2>2 DEF W!ForBase
<1>9. all.worlds[n] = [w EXCEPT !.versions = [u \in versions(n) |-> origin(n, u)]]
  <2> HIDE DEF seers, versions, origin, names
  <2>1. views[d][n] = w
    BY <1>6
  <2> QED BY <1>1, <1>2, <1>5, <2>1
<1>10. all.worlds[n].versions = [u \in versions(n) |-> origin(n, u)]
  <2> HIDE DEF versions, origin, seers
  <2> QED BY <1>8, <1>9
<1>11. v \in DOMAIN all.worlds[n].versions /\ all.worlds[n].versions[v] = origin(n, v)
  <2> HIDE DEF versions, origin
  <2> QED BY <1>2, <1>10
<1>12. origin(n, v) = W!ViewForBase(file, c).worlds[n].versions[v]
  <2> HIDE DEF with
  <2> QED BY <1>7
<1>13. n \in DOMAIN W!ViewForBase(file, c).worlds /\ v \in DOMAIN W!ViewForBase(file, c).worlds[n].versions
  BY <1>7
<1>14. n \in DOMAIN all.worlds
  <2> HIDE DEF versions, origin, seers, names
  <2> QED BY <1>1, <1>2
<1> QED BY <1>11, <1>12, <1>13, <1>14

(* The refresh of every base gets each release that one needs a file of,   *)
(* but for one with the number of a base that ships the world.             *)
LEMMA RefreshLeavesOutNone ==
  ASSUME NEW file, W!IsIndexFile(file)
  PROVE  W!RefreshGetsEveryRelease(file)
<1> SUFFICES ASSUME NEW p \in W!NeededReleases(file) PROVE p \in W!RefreshedReleases(file) \/ p[2] \in W!BasesOf(file)
  BY DEF W!RefreshGetsEveryRelease
<1>1. PICK b, n, v :
        /\ b \in W!BasesOf(file) /\ p = <<n, v>> /\ n \in DOMAIN W!ViewForBase(file, b).worlds /\ v \in DOMAIN W!ViewForBase(file, b).worlds[n].versions
  BY DEF W!NeededReleases
<1>2. PICK all : all = W!AllReleases(file)
  OBVIOUS
<1>3. PICK c \in W!BasesOf(file) :
        /\ n \in DOMAIN all.worlds /\ v \in DOMAIN all.worlds[n].versions
        /\ n \in DOMAIN W!ViewForBase(file, c).worlds /\ v \in DOMAIN W!ViewForBase(file, c).worlds[n].versions
        /\ all.worlds[n].versions[v] = W!ViewForBase(file, c).worlds[n].versions[v]
  BY <1>1, <1>2, MergedHasEvery
<1>4. all.worlds[n].versions[v] # "supported" => p \in W!RefreshedReleases(file)
  BY <1>1, <1>2, <1>3 DEF W!RefreshedReleases
<1>5. all.worlds[n].versions[v] = "supported" => v = c
  <2>1. PICK w : w = W!ViewForBase(file, c).worlds[n]
    OBVIOUS
  <2>2. c \in Nat
    BY BasesAreNumbers
  <2>3. n \in DOMAIN file.worlds /\ w = W!ForBase(file.worlds[n], c) /\ w # None
    BY <1>3, <2>1, <2>2, SeenWorld
  <2>4. W!IsWorldFile(file.worlds[n])
    BY <2>3 DEF W!IsIndexFile
  <2> QED BY <1>3, <2>1, <2>2, <2>3, <2>4, ForBaseOK
<1> QED BY <1>1, <1>4, <1>5

-----------------------------------------------------------------------------
(* Requests for a world's release that are the same resolve the same.      *)
LEMMA SameRequests ==
  ASSUME NEW m, NEW k, NEW view, \A n \in DOMAIN view.worlds : W!GetVersionReq(m, n, view) = W!GetVersionReq(k, n, view)
  PROVE  W!ResolveWith(m, view) = W!ResolveWith(k, view)
BY DEF W!ResolveWith

(* Updating a manifest with an index changes no release.                   *)
LEMMA UpdatingKeeps ==
  ASSUME NEW m, W!IsManifest(m), NEW view
  PROVE  W!UpdateKeepsReleases(m, view)
<1>1. PICK u : u = W!UpdatedWithIndex(m, view)
  OBVIOUS
<1>2. u.worlds = [n \in DOMAIN view.worlds |-> W!GetVersionReq(m, n, view)]
  BY <1>1 DEF W!UpdatedWithIndex, W!IsManifest
<1>3. \A n \in DOMAIN view.worlds : W!GetVersionReq(u, n, view) = W!GetVersionReq(m, n, view)
  <2> TAKE n \in DOMAIN view.worlds
  <2>1. n \in DOMAIN u.worlds /\ u.worlds[n] = W!GetVersionReq(m, n, view)
    BY <1>2
  <2>2. W!GetVersionReq(u, n, view) = u.worlds[n]
    BY <2>1 DEF W!GetVersionReq
  <2> QED BY <2>1, <2>2
<1>4. W!ResolveWith(u, view) = W!ResolveWith(m, view)
  BY <1>3, SameRequests
<1>5. \A n \in DOMAIN W!ResolveWith(m, view).resolved : W!IsEnabled(m, n)
  <2> SUFFICES ASSUME NEW n \in DOMAIN view.worlds, W!GetVersionReq(m, n, view) # W!Disabled PROVE W!IsEnabled(m, n)
    BY DEF W!ResolveWith
  <2> QED BY DEF W!GetVersionReq, W!IsEnabled, W!IsManifest
<1> QED BY <1>1, <1>4, <1>5 DEF W!UpdateKeepsReleases

-----------------------------------------------------------------------------
(* What a manifest asks of a world is a requirement.                       *)
LEMMA WorldByName ==
  ASSUME NEW view, IsView(view), NEW g, NEW file, file = W!GetWorldByName(view, g), file # None
  PROVE  file \in DOMAIN view.worlds
<1>1. PICK named : named = {n \in DOMAIN view.worlds : view.worlds[n].name = g}
  OBVIOUS
<1>2. named # {} /\ file = W!Min(named) /\ named \in SUBSET Nat
  BY <1>1 DEF W!GetWorldByName, IsView
<1>3. file \in named
  BY <1>2, LeastVersion
<1> QED BY <1>1, <1>3

LEMMA AsksARequirement ==
  ASSUME NEW m, W!IsManifest(m), NEW view, IsView(view), NEW n
  PROVE  W!IsReq(W!GetVersionReq(m, n, view))
<1>1. PICK byName : byName = W!GetWorldByName(view, n)
  OBVIOUS
<1>2. CASE n \in DOMAIN m.worlds
  BY <1>2 DEF W!GetVersionReq, W!IsManifest
<1>3. CASE n \notin DOMAIN m.worlds /\ (m.policy = "disable" \/ byName = None)
  BY <1>1, <1>3 DEF W!GetVersionReq, W!IsReq
<1>4. CASE n \notin DOMAIN m.worlds /\ m.policy # "disable" /\ byName # None
  <2>1. byName \in DOMAIN view.worlds
    BY <1>1, <1>4, WorldByName
  <2>2. W!GetVersionReq(m, n, view) = view.worlds[byName].default
    BY <1>1, <1>4 DEF W!GetVersionReq
  <2> QED BY <2>1, <2>2 DEF IsView, IsWorld
<1> QED BY <1>2, <1>3, <1>4

(* A pin that is there resolves to itself, one that is not to the newest   *)
(* release, and Latest as the world's default says.                        *)
LEMMA PinResolves ==
  ASSUME NEW w, IsWorld(w), NEW v \in Nat
  PROVE  /\ v \in DOMAIN w.versions => W!ResolveWorldVersion(w, W!Specific(v)) = v
         /\ v \notin DOMAIN w.versions => W!ResolveWorldVersion(w, W!Specific(v)) = W!GetLatestRelease(w)
         /\ w.default = W!Latest => W!ResolveWorldVersion(w, W!Latest) = W!GetLatestRelease(w)
<1>1. PICK r : r = W!Specific(v)
  OBVIOUS
<1>2. r.req = "specific" /\ r.v = v /\ v # None
  BY <1>1, ReqsDiffer, NoneIsNoVersion
<1>3. W!ResolveWorldVersion(w, r) = W!Given(W!GetVersion(w, v), W!GetLatestRelease(w))
  BY <1>2 DEF W!ResolveWorldVersion
<1>4. w.default = W!Latest => W!ResolveWorldVersion(w, W!Latest) = W!GetLatestRelease(w)
  <2>1. PICK l : l = W!Latest
    OBVIOUS
  <2>2. l.req = "latest"
    BY <2>1, ReqsDiffer
  <2>3. w.default = l => W!ResolveWorldVersion(w, l) = W!GetLatestRelease(w)
    BY <2>2 DEF W!ResolveWorldVersion
  <2> QED BY <2>1, <2>3
<1> QED BY <1>1, <1>2, <1>3, <1>4 DEF W!Given, W!GetVersion

(* What freezing a manifest changes                                        *)
LEMMA Frozen ==
  ASSUME NEW m, W!IsManifest(m), NEW view, NEW f, f = W!Freeze(m, view)
  PROVE  /\ f.policy = m.policy
         /\ f.worlds = [n \in DOMAIN m.worlds |->
                          IF m.worlds[n] = W!Latest /\ n \in DOMAIN view.worlds
                          THEN W!Specific(W!GetLatestRelease(view.worlds[n])) ELSE m.worlds[n]]
BY DEF W!Freeze, W!IsManifest

LEMMA FrozenRequest ==
  ASSUME NEW m, W!IsManifest(m), NEW view, NEW f, f = W!Freeze(m, view), NEW seen, NEW n
  PROVE  /\ (n \in DOMAIN m.worlds /\ m.worlds[n] = W!Latest /\ n \in DOMAIN view.worlds) =>
              /\ W!GetVersionReq(f, n, seen) = W!Specific(W!GetLatestRelease(view.worlds[n]))
              /\ W!GetVersionReq(m, n, seen) = W!Latest
         /\ ~(n \in DOMAIN m.worlds /\ m.worlds[n] = W!Latest /\ n \in DOMAIN view.worlds) =>
              W!GetVersionReq(f, n, seen) = W!GetVersionReq(m, n, seen)
<1>1. /\ f.policy = m.policy
      /\ f.worlds = [k \in DOMAIN m.worlds |->
                       IF m.worlds[k] = W!Latest /\ k \in DOMAIN view.worlds
                       THEN W!Specific(W!GetLatestRelease(view.worlds[k])) ELSE m.worlds[k]]
  BY Frozen
<1>2. DOMAIN f.worlds = DOMAIN m.worlds
  BY <1>1
<1>3. n \in DOMAIN m.worlds =>
        f.worlds[n] = IF m.worlds[n] = W!Latest /\ n \in DOMAIN view.worlds
                      THEN W!Specific(W!GetLatestRelease(view.worlds[n])) ELSE m.worlds[n]
  BY <1>1
<1>4. CASE n \in DOMAIN m.worlds
  BY <1>2, <1>3, <1>4 DEF W!GetVersionReq
<1>5. CASE n \notin DOMAIN m.worlds
  BY <1>1, <1>2, <1>5 DEF W!GetVersionReq
<1> QED BY <1>4, <1>5

LEMMA SameReleases ==
  ASSUME NEW m, NEW k, NEW view,
         \A n \in DOMAIN view.worlds :
           /\ W!GetVersionReq(m, n, view) = W!Disabled <=> W!GetVersionReq(k, n, view) = W!Disabled
           /\ W!ResolveWorldVersion(view.worlds[n], W!GetVersionReq(m, n, view))
                = W!ResolveWorldVersion(view.worlds[n], W!GetVersionReq(k, n, view))
  PROVE  W!ResolveWith(m, view) = W!ResolveWith(k, view)
BY DEF W!ResolveWith

(* Freezing pins what is Latest to the newest release.                     *)
LEMMA FreezingKeeps ==
  ASSUME NEW m, W!IsManifest(m), NEW view, IsView(view), NEW later, IsView(later)
  PROVE  W!FreezeKeepsReleases(m, view, later)
<1>1. PICK f : f = W!Freeze(m, view)
  OBVIOUS
<1> SUFFICES ASSUME \A n \in DOMAIN m.worlds \cap DOMAIN view.worlds : view.worlds[n].default = W!Latest
             PROVE  /\ W!ResolveWith(f, view).resolved = W!ResolveWith(m, view).resolved
                    /\ \A n \in DOMAIN m.worlds \cap DOMAIN view.worlds \cap DOMAIN later.worlds :
                         /\ m.worlds[n] = W!Latest
                         /\ DOMAIN view.worlds[n].versions \subseteq DOMAIN later.worlds[n].versions
                         => W!ResolveWith(f, later).resolved[n] = W!GetLatestRelease(view.worlds[n])
  BY <1>1 DEF W!FreezeKeepsReleases
<1>2. \A n \in DOMAIN view.worlds :
        /\ W!GetVersionReq(f, n, view) = W!Disabled <=> W!GetVersionReq(m, n, view) = W!Disabled
        /\ W!ResolveWorldVersion(view.worlds[n], W!GetVersionReq(f, n, view))
             = W!ResolveWorldVersion(view.worlds[n], W!GetVersionReq(m, n, view))
  <2> TAKE n \in DOMAIN view.worlds
  <2>1. CASE n \in DOMAIN m.worlds /\ m.worlds[n] = W!Latest
    <3>1. PICK w : w = view.worlds[n] /\ IsWorld(w) /\ w.default = W!Latest
      BY <2>1 DEF IsView
    <3>2. PICK v : v = W!GetLatestRelease(w)
      OBVIOUS
    <3>3. v \in Nat /\ v \in DOMAIN w.versions
      BY <3>1, <3>2, NewestIsThere
    <3>4. W!GetVersionReq(f, n, view) = W!Specific(v) /\ W!GetVersionReq(m, n, view) = W!Latest
      BY <1>1, <2>1, <3>1, <3>2, FrozenRequest
    <3>5. W!ResolveWorldVersion(w, W!Specific(v)) = v /\ W!ResolveWorldVersion(w, W!Latest) = v
      BY <3>1, <3>2, <3>3, PinResolves
    <3>6. W!Specific(v) # W!Disabled /\ W!Latest # W!Disabled
      BY ReqsDiffer
    <3> QED BY <3>1, <3>4, <3>5, <3>6
  <2>2. CASE ~(n \in DOMAIN m.worlds /\ m.worlds[n] = W!Latest)
    BY <1>1, <2>2, FrozenRequest
  <2> QED BY <2>1, <2>2
<1>3. W!ResolveWith(f, view) = W!ResolveWith(m, view)
  BY <1>2, SameReleases
<1>4. ASSUME NEW n \in DOMAIN m.worlds \cap DOMAIN view.worlds \cap DOMAIN later.worlds,
             m.worlds[n] = W!Latest, DOMAIN view.worlds[n].versions \subseteq DOMAIN later.worlds[n].versions
      PROVE  W!ResolveWith(f, later).resolved[n] = W!GetLatestRelease(view.worlds[n])
  <2>1. PICK w, l : w = view.worlds[n] /\ IsWorld(w) /\ l = later.worlds[n] /\ IsWorld(l)
    BY DEF IsView
  <2>2. PICK v : v = W!GetLatestRelease(w)
    OBVIOUS
  <2>3. v \in Nat /\ v \in DOMAIN l.versions /\ v # None
    BY <1>4, <2>1, <2>2, NewestIsThere
  <2>4. W!GetVersionReq(f, n, later) = W!Specific(v)
    BY <1>1, <1>4, <2>1, <2>2, FrozenRequest
  <2>5. W!ResolveWorldVersion(l, W!Specific(v)) = v
    BY <2>1, <2>3, PinResolves
  <2>6. W!Specific(v) # W!Disabled
    BY ReqsDiffer
  <2>7. PICK s : s = W!Specific(v)
    OBVIOUS
  <2>8. W!ResolveWith(f, later).resolved[n] = v
    BY <2>1, <2>3, <2>4, <2>5, <2>6, <2>7 DEF W!ResolveWith
  <2> QED BY <2>1, <2>2, <2>8
<1> QED BY <1>3, <1>4

-----------------------------------------------------------------------------
(* The pin of a game that resolves is unavailable exactly if the game gets *)
(* another release than its manifest asks for.                             *)
LEMMA PinUnlessAsked ==
  ASSUME NEW m, W!IsManifest(m), NEW target, IsView(target), NEW g, NEW to, to = W!ResolveFromGameName(m, g, target), to # None,
         NEW rq, rq = W!GetVersionReq(m, W!GetWorldByName(target, g), target)
  PROVE  W!UnavailablePin(m, target, g) # None <=> ~(rq.req # "specific" \/ rq.v = to)
<1>1. PICK file : file = W!GetWorldByName(target, g)
  OBVIOUS
<1>2. file # None
  BY <1>1 DEF W!ResolveFromGameName
<1>3. PICK w : w = target.worlds[file]
  OBVIOUS
<1>4. file \in DOMAIN target.worlds /\ IsWorld(w)
  <2>1. file \in DOMAIN target.worlds
    BY <1>1, <1>2, WorldByName
  <2> QED BY <1>3, <2>1 DEF IsView
<1>5. to = W!ResolveWorldVersion(w, rq)
  BY <1>1, <1>2, <1>3 DEF W!ResolveFromGameName
<1>6. W!UnavailablePin(m, target, g) = IF rq.req = "specific" /\ rq.v \notin DOMAIN w.versions THEN rq.v ELSE None
  BY <1>1, <1>2, <1>3 DEF W!UnavailablePin
<1>7. CASE rq.req # "specific"
  BY <1>6, <1>7
<1>8. CASE rq.req = "specific"
  <2>1. W!IsReq(rq)
    BY AsksARequirement
  <2>2. rq = W!Specific(rq.v) /\ rq.v \in Nat
    BY <1>8, <2>1, ReqsDiffer DEF W!IsReq
  <2>3. PICK v : v = rq.v
    OBVIOUS
  <2>4. v \in Nat /\ v # None /\ rq = W!Specific(v)
    BY <2>2, <2>3, NoneIsNoVersion
  <2>5. v \in DOMAIN w.versions => to = v
    BY <1>4, <1>5, <2>4, PinResolves
  <2>6. v \notin DOMAIN w.versions => to = W!GetLatestRelease(w)
    BY <1>4, <1>5, <2>4, PinResolves
  <2>7. W!GetLatestRelease(w) \in DOMAIN w.versions
    BY <1>4, NewestIsThere
  <2> QED BY <1>6, <1>8, <2>3, <2>4, <2>5, <2>6, <2>7
<1> QED BY <1>7, <1>8

(* The kind of a change says what the move does to the game.               *)
LEMMA KindTells ==
  ASSUME NEW m, W!IsManifest(m), NEW current, NEW target, IsView(target), NEW g,
         NEW from, from = W!ResolveFromGameName(m, g, current), NEW to, to = W!ResolveFromGameName(m, g, target),
         NEW rq, rq = W!GetVersionReq(m, W!GetWorldByName(target, g), target),
         NEW kind, kind = W!ChangeKind(m, current, target, g)
  PROVE  /\ kind \in {"lost", "pin", "moved", "gained"} <=> from # to
         /\ kind \in {"lost", "pin"} <=> from # to /\ (to = None \/ (from # None /\ ~(rq.req # "specific" \/ rq.v = to)))
         /\ kind = "unchanged" => from = to
<1>1. kind = IF from = to THEN IF from = None THEN "none" ELSE "unchanged"
             ELSE IF to = None THEN "lost"
             ELSE IF from = None THEN "gained"
             ELSE IF W!UnavailablePin(m, target, g) # None THEN "pin" ELSE "moved"
  BY DEF W!ChangeKind
<1>2. CASE from = to
  <2>1. kind = "none" \/ kind = "unchanged"
    BY <1>1, <1>2
  <2> QED BY <1>2, <2>1
<1>3. CASE from # to /\ to = None
  BY <1>1, <1>3
<1>4. CASE from # to /\ to # None /\ from = None
  <2>1. kind = "gained"
    BY <1>1, <1>4
  <2> QED BY <1>4, <2>1
<1>5. CASE from # to /\ to # None /\ from # None
  <2>1. W!UnavailablePin(m, target, g) # None <=> ~(rq.req # "specific" \/ rq.v = to)
    BY <1>5, PinUnlessAsked
  <2>2. kind = IF W!UnavailablePin(m, target, g) # None THEN "pin" ELSE "moved"
    BY <1>1, <1>5
  <2> QED BY <1>5, <2>1, <2>2
<1> QED BY <1>2, <1>3, <1>4, <1>5

(* The report of a move counts every YAML of a game that changes.          *)
LEMMA ReportTells ==
  ASSUME NEW m, W!IsManifest(m), NEW current, NEW target, IsView(target), NEW games \in Seq(Nat)
  PROVE  W!ReportTellsTheMove(m, current, target, games)
<1> DEFINE kind(g) == W!ChangeKind(m, current, target, g)
           before(g) == W!ResolveFromGameName(m, g, current)
           after(g) == W!ResolveFromGameName(m, g, target)
           asked(g) == \/ W!GetVersionReq(m, W!GetWorldByName(target, g), target).req # "specific"
                       \/ W!GetVersionReq(m, W!GetWorldByName(target, g), target).v = after(g)
           count(g) == W!Cardinality({i \in DOMAIN games : games[i] = g})
           G == W!Range(games)
           warned == {g \in G : kind(g) \in {"lost", "pin"}}
           changed == {g \in G : kind(g) \in {"moved", "gained"}}
           same == {g \in G : kind(g) \in {"unchanged"}}
           unlike == {g \in G : before(g) # after(g)}
<1>1. PICK report : report = W!SwitchReport(m, current, target, games)
  OBVIOUS
<1>2. report = [warnings |-> [g \in warned |-> count(g)], changes |-> [g \in changed |-> count(g)], unchanged |-> W!Cardinality(same)]
  BY <1>1 DEF W!SwitchReport
<1>3. \A g : /\ kind(g) \in {"lost", "pin", "moved", "gained"} <=> before(g) # after(g)
             /\ kind(g) \in {"lost", "pin"} <=> before(g) # after(g) /\ (after(g) = None \/ (before(g) # None /\ ~asked(g)))
             /\ kind(g) = "unchanged" => before(g) = after(g)
  <2> TAKE g
  <2>1. PICK k, f, t, r : k = kind(g) /\ f = before(g) /\ t = after(g) /\ r = W!GetVersionReq(m, W!GetWorldByName(target, g), target)
    OBVIOUS
  <2>2. /\ k \in {"lost", "pin", "moved", "gained"} <=> f # t
        /\ k \in {"lost", "pin"} <=> f # t /\ (t = None \/ (f # None /\ ~(r.req # "specific" \/ r.v = t)))
        /\ k = "unchanged" => f = t
    BY <2>1, KindTells
  <2> QED BY <2>1, <2>2
<1> HIDE DEF kind, before, after, asked, count, G
<1>4. DOMAIN report.warnings = warned /\ DOMAIN report.changes = changed /\ report.unchanged = W!Cardinality(same)
  BY <1>2
<1>5. warned \cup changed = unlike
  BY <1>3
<1>6. warned = {g \in unlike : after(g) = None \/ (before(g) # None /\ ~asked(g))}
  BY <1>3
<1>7. \A g \in warned : report.warnings[g] = count(g)
  BY <1>2
<1>8. IsFiniteSet(G)
  <2>1. DOMAIN games = 1..Len(games) /\ Len(games) \in Nat
    OBVIOUS
  <2>2. IsFiniteSet(DOMAIN games)
    BY <2>1, FS_Interval
  <2>3. games \in Surjection(DOMAIN games, G)
    BY DEF Surjection, G, W!Range
  <2> QED BY <2>2, <2>3, FS_Surjection
<1>9. W!Cardinality(same) + W!Cardinality(unlike) <= W!Cardinality(G)
  <2>1. same \cap unlike = {} /\ same \cup unlike \subseteq G /\ same \subseteq G /\ unlike \subseteq G
    BY <1>3
  <2> HIDE DEF same, unlike
  <2>2. IsFiniteSet(same) /\ IsFiniteSet(unlike)
    BY <1>8, <2>1, FS_Subset
  <2>3. Cardinality(same \cup unlike) <= Cardinality(G)
    BY <1>8, <2>1, FS_Subset
  <2>4. Cardinality(same \cap unlike) = 0
    BY <2>1, FS_EmptySet
  <2>5. Cardinality(same \cup unlike) = Cardinality(same) + Cardinality(unlike) - Cardinality(same \cap unlike)
    BY <2>2, FS_Union
  <2>6. Cardinality(same) \in Nat /\ Cardinality(unlike) \in Nat
    BY <2>2, FS_CardinalityType
  <2>7. Cardinality(same \cup unlike) = Cardinality(same) + Cardinality(unlike)
    BY <2>4, <2>5, <2>6
  <2>8. Cardinality(same) + Cardinality(unlike) <= Cardinality(G)
    BY <2>3, <2>7
  <2> QED BY <2>8, RelCardinality
<1>10. /\ DOMAIN report.warnings \cup DOMAIN report.changes = unlike
       /\ DOMAIN report.warnings = {g \in unlike : after(g) = None \/ (before(g) # None /\ ~asked(g))}
       /\ \A g \in DOMAIN report.warnings : report.warnings[g] = count(g)
       /\ report.unchanged + W!Cardinality(unlike) <= W!Cardinality(G)
  <2> HIDE DEF warned, changed, same, unlike
  <2> QED BY <1>4, <1>5, <1>6, <1>7, <1>9
<1> QED BY <1>1, <1>10 DEF W!ReportTellsTheMove, before, after, asked, count, G

-----------------------------------------------------------------------------
(* The bases that a lobby offers                                           *)

(* The default base is usable.                                             *)
LEMMA DefaultUsable ==
  ASSUME NEW c, B!IsConfig(c), NEW i, B!IsIndex(i)
  PROVE  B!DefaultIsUsable(c, i)
<1>1. PICK d, s : d = B!DefaultBase(c, i) /\ s = B!Offered(c, i)
  OBVIOUS
<1>3. PICK Z : Z = OfferedSet(c, i)
  OBVIOUS
<1>4. B!ToSet(s) = Z /\ Z \subseteq DOMAIN i.rels /\ \A z : B!Contains(s, z) <=> z \in Z
  BY <1>1, <1>3, OfferedOK
<1>5. /\ d \in DOMAIN i.rels /\ d \in BaseNo /\ (Z # {} => d \in Z)
      /\ (c.default # None /\ c.default \in Z) => d = c.default
  BY <1>1, <1>3, DefaultOK
<1>6. (c.enabled # None /\ c.default # None /\ c.default \in DOMAIN i.rels) => d = c.default
  <2>1. (c.enabled # None /\ c.default # None) => c.default \in c.enabled
    BY DEF B!IsConfig
  <2> QED BY <1>3, <1>5, <2>1 DEF OfferedSet
<1>7. B!DefaultIndex(c, i) = d
  BY <1>1, <1>5 DEF B!DefaultIndex, B!Described
<1>8. \A w \in DOMAIN i.rels \cup {None} : B!BaseOrDefault(c, i, w) \in (Z \cap {w}) \cup {d}
  BY <1>1, <1>4 DEF B!BaseOrDefault, B!Offers
<1> QED BY <1>1, <1>4, <1>5, <1>6, <1>7, <1>8 DEF B!DefaultIsUsable, B!Described

(* A page's links lead back to its base.                                   *)
LEMMA LinksLeadBack ==
  ASSUME NEW c, B!IsConfig(c), NEW i, B!IsIndex(i)
  PROVE  B!QueriesLeadBack(c, i)
<1>1. PICK d, s : d = B!DefaultBase(c, i) /\ s = B!Offered(c, i)
  OBVIOUS
<1>3. PICK Z, n : Z = OfferedSet(c, i) /\ n = Cardinality(Z)
  OBVIOUS
<1>4. /\ B!ToSet(s) = Z /\ Z \subseteq BaseNo /\ \A z : B!Contains(s, z) <=> z \in Z
      /\ n \in Nat /\ s \in [1..n -> Z] /\ Len(s) = n /\ \A j, k \in 1..n : j < k => s[j] > s[k]
  BY <1>1, <1>3, OfferedOK
<1>5. d \in BaseNo /\ (Z # {} => d \in Z)
  BY <1>1, <1>3, DefaultOK
<1>6. \A z \in Z : z # None /\ z # B!NoVersion /\ B!RequestedBase(c, i, z) = z
  BY <1>1, <1>4, NoneIsNoVersion DEF B!RequestedBase, B!Offers, B!NoVersion, BaseNo
<1>7. B!RequestedBase(c, i, None) = d
  BY <1>1 DEF B!RequestedBase
<1> SUFFICES ASSUME NEW b \in B!ToSet(B!Offered(c, i)) \cup {B!DefaultBase(c, i)}
             PROVE  /\ B!RequestedBase(c, i, B!BaseQuery(c, i, b)) = b
                    /\ B!SelectableBases(c, i, b) # <<>> =>
                         B!Cardinality({j \in DOMAIN B!SelectableBases(c, i, b) : B!SelectableBases(c, i, b)[j].selected}) = 1
                    /\ \A j \in {k \in DOMAIN B!SelectableBases(c, i, b) : B!SelectableBases(c, i, b)[k].selected} :
                         B!SelectableBases(c, i, b)[j].value = b
                    /\ \A j \in DOMAIN B!SelectableBases(c, i, b) :
                         ~B!SelectableBases(c, i, b)[j].gone =>
                           B!RequestedBase(c, i, B!SelectableBases(c, i, b)[j].value) = B!SelectableBases(c, i, b)[j].value
  BY Zenon DEF B!QueriesLeadBack
<1>a. b \in Z \cup {d}
  BY <1>1, <1>4
<1>b. PICK entries, chosen : entries = B!SelectableBases(c, i, b) /\ chosen = {j \in DOMAIN entries : entries[j].selected}
  OBVIOUS
<1> SUFFICES /\ B!RequestedBase(c, i, B!BaseQuery(c, i, b)) = b
             /\ entries # <<>> => B!Cardinality(chosen) = 1
             /\ \A j \in chosen : entries[j].value = b
             /\ \A j \in DOMAIN entries :
                  ~entries[j].gone => B!RequestedBase(c, i, entries[j].value) = entries[j].value
  BY <1>b, Zenon
<1>8. B!RequestedBase(c, i, B!BaseQuery(c, i, b)) = b
  <2>1. CASE b = d
    BY <1>1, <1>7, <2>1 DEF B!BaseQuery
  <2>2. CASE b # d
    BY <1>1, <1>6, <1>a, <2>2 DEF B!BaseQuery
  <2> QED BY <2>1, <2>2
<1>9. CASE n < 2
  <2>1. entries = <<>>
    BY <1>1, <1>4, <1>9, <1>b DEF B!SelectableBases
  <2>2. DOMAIN entries = {} /\ chosen = {}
    BY <1>b, <2>1
  <2> QED BY <1>8, <2>1, <2>2
<1>10. CASE ~(n < 2)
  <2>1. 1 \in 1..n /\ s[1] \in Z
    BY <1>4, <1>10
  <2>2. b \in Z
    BY <1>5, <1>a, <2>1
  <2>3. entries = [j \in 1..n |-> [value |-> s[j], selected |-> s[j] = b, gone |-> FALSE]] \o <<>>
    <3>1. entries = B!BaseOptions(s, b)
      BY <1>1, <1>4, <1>10, <1>b DEF B!SelectableBases
    <3>2. DOMAIN s = 1..n
      BY <1>4
    <3> QED BY <1>4, <2>2, <3>1, <3>2 DEF B!BaseOptions
  <2>4. PICK e : e = [j \in 1..n |-> [value |-> s[j], selected |-> s[j] = b, gone |-> FALSE]]
    OBVIOUS
  <2>5. PICK Ts : Ts = {e[j] : j \in 1..n}
    OBVIOUS
  <2>6. entries = e
    <3>0. e \in [1..n -> Ts]
      BY <2>4, <2>5
    <3>1. e \in Seq(Ts)
      BY <1>4, <3>0
    <3> QED BY <2>3, <2>4, <3>1
  <2>7. DOMAIN entries = 1..n /\ \A j \in 1..n : entries[j] = [value |-> s[j], selected |-> s[j] = b, gone |-> FALSE]
    BY <2>4, <2>6
  <2>8. \A j \in 1..n : entries[j].value = s[j] /\ (entries[j].selected <=> s[j] = b)
    <3> TAKE j \in 1..n
    <3>1. PICK t \in BOOLEAN : t <=> s[j] = b
      OBVIOUS
    <3>2. entries[j] = [value |-> s[j], selected |-> t, gone |-> FALSE]
      BY <2>7, <3>1
    <3> QED BY <3>1, <3>2
  <2>9. PICK k \in 1..n : s[k] = b
    <3>1. B!Contains(s, b)
      BY <1>4, <2>2
    <3> QED BY <1>4, <3>1 DEF B!Contains
  <2>10. chosen = {k}
    <3>1. \A j \in 1..n : s[j] = b => j = k
      <4> SUFFICES ASSUME NEW j \in 1..n, s[j] = b, j # k PROVE FALSE
        OBVIOUS
      <4>1. j < k \/ k < j
        BY <1>4
      <4>2. s[j] > s[k] \/ s[k] > s[j]
        BY <1>4, <4>1
      <4>3. b \in Nat
        BY <1>4, <2>2 DEF BaseNo
      <4> QED BY <2>9, <4>2, <4>3
    <3> QED BY <1>b, <2>7, <2>8, <2>9, <3>1
  <2>11. B!Cardinality(chosen) = 1
    <3>1. B!Cardinality({k}) = Cardinality({k})
      BY DEF B!Cardinality, Cardinality, B!IsFiniteSet, IsFiniteSet
    <3> QED BY <2>10, <3>1, FS_Singleton
  <2>12. \A j \in DOMAIN entries : B!RequestedBase(c, i, entries[j].value) = entries[j].value
    BY <1>4, <1>6, <2>7, <2>8
  <2> QED BY <1>8, <2>8, <2>10, <2>9, <2>11, <2>12
<1> QED BY <1>4, <1>9, <1>10

(* For every index that can be read, every manifest, any games and every   *)
(* configuration: bases see the releases that run on them, a refresh gets  *)
(* what they need, what the linter accepts resolves, manifests keep their  *)
(* releases, a report tells what a move does, and links lead back.         *)
THEOREM ReleasesAlwaysResolve == IsInput => ReleasesResolve
<1> SUFFICES ASSUME IsInput PROVE ReleasesResolve
  OBVIOUS
<1>1. ASSUME inp.about = "index"
      PROVE  /\ W!LintedIndexResolves(inp.index) /\ W!SeesWhatRuns(inp.index) /\ W!RefreshGetsEveryRelease(inp.index)
             /\ \A b, c \in W!BasesOf(inp.index) :
                  /\ W!UpdateKeepsReleases(inp.manifest, W!ViewForBase(inp.index, b))
                  /\ W!FreezeKeepsReleases(inp.manifest, W!ViewForBase(inp.index, b), W!ViewForBase(inp.index, c))
                  /\ W!ReportTellsTheMove(inp.manifest, W!ViewForBase(inp.index, b), W!ViewForBase(inp.index, c), inp.games)
  <2>1. W!IsIndexFile(inp.index) /\ W!IsManifest(inp.manifest) /\ inp.games \in Seq(Nat)
    BY <1>1 DEF IsInput
  <2>2. \A b \in W!BasesOf(inp.index) : IsView(W!ViewForBase(inp.index, b))
    BY <2>1, ViewsAreViews
  <2> QED BY <2>1, <2>2, LintedResolves, BasesSeeWhatRuns, RefreshLeavesOutNone, UpdatingKeeps, FreezingKeeps, ReportTells
<1>2. ASSUME inp.about = "bases"
      PROVE  B!DefaultIsUsable(inp.config, inp.index) /\ B!QueriesLeadBack(inp.config, inp.index)
  BY <1>2, DefaultUsable, LinksLeadBack DEF IsInput
<1> QED BY <1>1, <1>2 DEF ReleasesResolve

-----------------------------------------------------------------------------
(* The changes between two indexes                                         *)

(* The versions of a world on a base, and those it gained and lost         *)
Vers(view, n) == IF n \in DOMAIN view.worlds THEN DOMAIN view.worlds[n].versions ELSE {}
Gained(old, new, b, n) == Vers(W!ViewForBase(new, b), n) \ Vers(W!ViewForBase(old, b), n)
LostOn(old, new, b, n) == Vers(W!ViewForBase(old, b), n) \ Vers(W!ViewForBase(new, b), n)
ChangesOn(old, new, b) == W!ComputeChanges(W!ViewForBase(old, b), W!ViewForBase(new, b))

(* Changes tell what worlds gained and lost on the bases of Ds.            *)
TellsWorld(entry, old, new, Ds, n) ==
  /\ entry.added_on = [v \in UNION {Gained(old, new, b, n) : b \in Ds} |-> {b \in Ds : v \in Gained(old, new, b, n)}]
  /\ entry.removed_from = [v \in UNION {LostOn(old, new, b, n) : b \in Ds} |-> {b \in Ds : v \in LostOn(old, new, b, n)}]
Moved(old, new, Ds, n) == \E b \in Ds : Gained(old, new, b, n) \cup LostOn(old, new, b, n) # {}
TellsAll(acc, old, new, Ds) ==
  /\ \A n : n \in DOMAIN acc <=> Moved(old, new, Ds, n)
  /\ \A n \in DOMAIN acc : TellsWorld(acc[n], old, new, Ds, n)

LEMMA OneBaseTells ==
  ASSUME NEW old, NEW new, NEW b, NEW c, c = ChangesOn(old, new, b)
  PROVE  TellsAll(c, old, new, {b})
<1>1. PICK o, w : o = W!ViewForBase(old, b) /\ w = W!ViewForBase(new, b)
  OBVIOUS
<1>2. w.base = b
  BY <1>1 DEF W!ViewForBase
<1>3. PICK ch : ch = {n \in DOMAIN w.worlds \cup DOMAIN o.worlds : Vers(w, n) # Vers(o, n)}
  OBVIOUS
<1>4. c = [n \in ch |-> W!OnBase(Vers(w, n) \ Vers(o, n), Vers(o, n) \ Vers(w, n), b)]
  BY <1>1, <1>2, <1>3 DEF ChangesOn, W!ComputeChanges, Vers
<1>5. \A n : n \in DOMAIN c <=> Moved(old, new, {b}, n)
  <2> TAKE n
  <2>1. n \in DOMAIN c <=> n \in ch
    BY <1>4
  <2>2. Moved(old, new, {b}, n) <=> (Vers(w, n) \ Vers(o, n)) \cup (Vers(o, n) \ Vers(w, n)) # {}
    BY <1>1 DEF Moved, Gained, LostOn
  <2>3. n \notin DOMAIN w.worlds \cup DOMAIN o.worlds => Vers(w, n) = {} /\ Vers(o, n) = {}
    BY DEF Vers
  <2>4. \A X, Ys : X = Ys <=> (X \ Ys) \cup (Ys \ X) = {}
    OBVIOUS
  <2>5. Vers(w, n) = Vers(o, n) <=> (Vers(w, n) \ Vers(o, n)) \cup (Vers(o, n) \ Vers(w, n)) = {}
    BY <2>4
  <2>6. n \in ch <=> Vers(w, n) # Vers(o, n)
    BY <1>3, <2>3
  <2> QED BY <2>1, <2>2, <2>5, <2>6
<1>6. \A n \in DOMAIN c : TellsWorld(c[n], old, new, {b}, n)
  <2> TAKE n \in DOMAIN c
  <2>1. PICK A, Ls : A = Gained(old, new, b, n) /\ Ls = LostOn(old, new, b, n)
    OBVIOUS
  <2>2. c[n] = W!OnBase(A, Ls, b)
    BY <1>1, <1>4, <2>1 DEF Gained, LostOn
  <2>3. c[n].added_on = [v \in A |-> {b}] /\ c[n].removed_from = [v \in Ls |-> {b}]
    BY <2>2 DEF W!OnBase
  <2>4. UNION {Gained(old, new, d, n) : d \in {b}} = A /\ UNION {LostOn(old, new, d, n) : d \in {b}} = Ls
    BY <2>1
  <2>5. /\ \A v \in A : {d \in {b} : v \in Gained(old, new, d, n)} = {b}
        /\ \A v \in Ls : {d \in {b} : v \in LostOn(old, new, d, n)} = {b}
    BY <2>1
  <2>6. /\ [v \in A |-> {b}] = [v \in A |-> {d \in {b} : v \in Gained(old, new, d, n)}]
        /\ [v \in Ls |-> {b}] = [v \in Ls |-> {d \in {b} : v \in LostOn(old, new, d, n)}]
    BY <2>5
  <2>7. PICK U, V : U = UNION {Gained(old, new, d, n) : d \in {b}} /\ V = UNION {LostOn(old, new, d, n) : d \in {b}}
    OBVIOUS
  <2>8. /\ c[n].added_on = [v \in U |-> {d \in {b} : v \in Gained(old, new, d, n)}]
        /\ c[n].removed_from = [v \in V |-> {d \in {b} : v \in LostOn(old, new, d, n)}]
    BY <2>3, <2>4, <2>6, <2>7
  <2> QED BY <2>7, <2>8, Zenon DEF TellsWorld
<1> QED BY <1>5, <1>6 DEF TellsAll

(* Merging what is told of two sets of bases tells what is of both.        *)
LEMMA MergeTells ==
  ASSUME NEW x, NEW y, NEW old, NEW new, NEW Ds, NEW E, NEW n,
         TellsWorld(x, old, new, Ds, n), TellsWorld(y, old, new, E, n)
  PROVE  TellsWorld(W!Merge(x, y), old, new, Ds \cup E, n)
<1> DEFINE of(f, v) == IF v \in DOMAIN f THEN f[v] ELSE {}
           both(f, g) == [v \in DOMAIN f \cup DOMAIN g |-> of(f, v) \cup of(g, v)]
<1>1. PICK m : m = W!Merge(x, y)
  OBVIOUS
<1>2. m.added_on = both(x.added_on, y.added_on) /\ m.removed_from = both(x.removed_from, y.removed_from)
  BY <1>1 DEF W!Merge
<1>3. both(x.added_on, y.added_on)
        = [v \in UNION {Gained(old, new, b, n) : b \in Ds \cup E} |-> {b \in Ds \cup E : v \in Gained(old, new, b, n)}]
  <2>1. PICK f, g : f = x.added_on /\ g = y.added_on
    OBVIOUS
  <2>2. /\ f = [v \in UNION {Gained(old, new, b, n) : b \in Ds} |-> {b \in Ds : v \in Gained(old, new, b, n)}]
        /\ g = [v \in UNION {Gained(old, new, b, n) : b \in E} |-> {b \in E : v \in Gained(old, new, b, n)}]
    BY <2>1 DEF TellsWorld
  <2>3. DOMAIN f \cup DOMAIN g = UNION {Gained(old, new, b, n) : b \in Ds \cup E}
    BY <2>2
  <2>4. \A v : of(f, v) = {b \in Ds : v \in Gained(old, new, b, n)} /\ of(g, v) = {b \in E : v \in Gained(old, new, b, n)}
    BY <2>2
  <2>5. \A v : of(f, v) \cup of(g, v) = {b \in Ds \cup E : v \in Gained(old, new, b, n)}
    BY <2>4
  <2> HIDE DEF of
  <2> QED BY <2>1, <2>3, <2>5
<1>4. both(x.removed_from, y.removed_from)
        = [v \in UNION {LostOn(old, new, b, n) : b \in Ds \cup E} |-> {b \in Ds \cup E : v \in LostOn(old, new, b, n)}]
  <2>1. PICK f, g : f = x.removed_from /\ g = y.removed_from
    OBVIOUS
  <2>2. /\ f = [v \in UNION {LostOn(old, new, b, n) : b \in Ds} |-> {b \in Ds : v \in LostOn(old, new, b, n)}]
        /\ g = [v \in UNION {LostOn(old, new, b, n) : b \in E} |-> {b \in E : v \in LostOn(old, new, b, n)}]
    BY <2>1 DEF TellsWorld
  <2>3. DOMAIN f \cup DOMAIN g = UNION {LostOn(old, new, b, n) : b \in Ds \cup E}
    BY <2>2
  <2>4. \A v : of(f, v) = {b \in Ds : v \in LostOn(old, new, b, n)} /\ of(g, v) = {b \in E : v \in LostOn(old, new, b, n)}
    BY <2>2
  <2>5. \A v : of(f, v) \cup of(g, v) = {b \in Ds \cup E : v \in LostOn(old, new, b, n)}
    BY <2>4
  <2> HIDE DEF of
  <2> QED BY <2>1, <2>3, <2>5
<1> HIDE DEF both
<1> QED BY <1>1, <1>2, <1>3, <1>4 DEF TellsWorld

(* Of a world that did not move on the bases of E nothing is added.        *)
LEMMA StillTells ==
  ASSUME NEW x, NEW old, NEW new, NEW Ds, NEW E, NEW n, TellsWorld(x, old, new, Ds, n), ~Moved(old, new, E, n)
  PROVE  TellsWorld(x, old, new, Ds \cup E, n) /\ TellsWorld(x, old, new, E \cup Ds, n)
<1>1. \A b \in E : Gained(old, new, b, n) = {} /\ LostOn(old, new, b, n) = {}
  BY DEF Moved
<1>2. /\ UNION {Gained(old, new, b, n) : b \in Ds} = UNION {Gained(old, new, b, n) : b \in Ds \cup E}
      /\ UNION {LostOn(old, new, b, n) : b \in Ds} = UNION {LostOn(old, new, b, n) : b \in Ds \cup E}
  BY <1>1
<1>3. /\ \A v : {b \in Ds : v \in Gained(old, new, b, n)} = {b \in Ds \cup E : v \in Gained(old, new, b, n)}
      /\ \A v : {b \in Ds : v \in LostOn(old, new, b, n)} = {b \in Ds \cup E : v \in LostOn(old, new, b, n)}
  BY <1>1
<1>4. TellsWorld(x, old, new, Ds \cup E, n)
  BY <1>2, <1>3 DEF TellsWorld
<1>5. Ds \cup E = E \cup Ds
  OBVIOUS
<1> QED BY <1>4, <1>5

LEMMA WithBaseTells ==
  ASSUME NEW acc, NEW c, NEW old, NEW new, NEW Ds, NEW E, TellsAll(acc, old, new, Ds), TellsAll(c, old, new, E)
  PROVE  TellsAll(W!WithBase(acc, c), old, new, Ds \cup E)
<1>1. PICK r : r = W!WithBase(acc, c)
  OBVIOUS
<1>2. r = [n \in DOMAIN acc \cup DOMAIN c |->
            IF n \notin DOMAIN acc THEN c[n] ELSE IF n \notin DOMAIN c THEN acc[n] ELSE W!Merge(acc[n], c[n])]
  BY <1>1 DEF W!WithBase
<1>3. \A n : n \in DOMAIN r <=> Moved(old, new, Ds \cup E, n)
  <2> TAKE n
  <2>1. n \in DOMAIN r <=> n \in DOMAIN acc \/ n \in DOMAIN c
    BY <1>2
  <2>2. Moved(old, new, Ds \cup E, n) <=> Moved(old, new, Ds, n) \/ Moved(old, new, E, n)
    BY DEF Moved
  <2> QED BY <2>1, <2>2 DEF TellsAll
<1>4. \A n \in DOMAIN r : TellsWorld(r[n], old, new, Ds \cup E, n)
  <2> TAKE n \in DOMAIN r
  <2>1. CASE n \notin DOMAIN acc
    <3>1. r[n] = c[n] /\ n \in DOMAIN c
      BY <1>2, <2>1
    <3>2. TellsWorld(c[n], old, new, E, n) /\ ~Moved(old, new, Ds, n)
      BY <2>1, <3>1 DEF TellsAll
    <3> QED BY <3>1, <3>2, StillTells
  <2>2. CASE n \in DOMAIN acc /\ n \notin DOMAIN c
    <3>1. r[n] = acc[n]
      BY <1>2, <2>2
    <3>2. TellsWorld(acc[n], old, new, Ds, n) /\ ~Moved(old, new, E, n)
      BY <2>2 DEF TellsAll
    <3> QED BY <3>1, <3>2, StillTells
  <2>3. CASE n \in DOMAIN acc /\ n \in DOMAIN c
    <3>1. r[n] = W!Merge(acc[n], c[n])
      BY <1>2, <2>3
    <3>2. TellsWorld(acc[n], old, new, Ds, n) /\ TellsWorld(c[n], old, new, E, n)
      BY <2>3 DEF TellsAll
    <3> QED BY <3>1, <3>2, MergeTells
  <2> QED BY <2>1, <2>2, <2>3
<1> QED BY <1>1, <1>3, <1>4 DEF TellsAll

(* The bases in their order, each of them.                                 *)
LEMMA InOrderHasAll ==
  ASSUME NEW Z \in SUBSET Nat, IsFiniteSet(Z), NEW s, s = W!InOrder(Z)
  PROVE  \E k \in Nat : s \in [1..k -> Z] /\ Len(s) = k /\ \A z \in Z : \E i \in 1..k : s[i] = z
<1>1. PICK k : k = Cardinality(Z)
  OBVIOUS
<1>2. k \in Nat
  BY <1>1, FS_CardinalityType
<1>3. PICK t : t \in [1..k -> Z] /\ \A i, j \in 1..k : i < j => t[i] > t[j]
  BY <1>1, OrderExists DEF NewerFirst
<1>4. PICK r : r = [i \in 1..k |-> t[k + 1 - i]]
  OBVIOUS
<1>5. r \in [1..k -> Z] /\ \A i, j \in DOMAIN r : i < j => r[i] < r[j]
  <2>1. \A i \in 1..k : k + 1 - i \in 1..k /\ r[i] = t[k + 1 - i] /\ r[i] \in Z
    BY <1>2, <1>3, <1>4
  <2>2. r \in [1..k -> Z]
    BY <1>4, <2>1
  <2>3. ASSUME NEW i \in 1..k, NEW j \in 1..k, i < j PROVE r[i] < r[j]
    <3>1. k + 1 - j < k + 1 - i
      BY <1>2, <2>3
    <3>2. t[k + 1 - j] > t[k + 1 - i]
      BY <1>3, <2>1, <3>1
    <3>3. r[j] > r[i] /\ r[i] \in Nat /\ r[j] \in Nat
      BY <2>1, <3>2
    <3> QED BY <3>3
  <2> QED BY <2>2, <2>3
<1>6. s = CHOOSE q \in [1..k -> Z] : \A i, j \in DOMAIN q : i < j => q[i] < q[j]
  BY <1>1, RelCardinality DEF W!InOrder
<1>7. s \in [1..k -> Z] /\ \A i, j \in DOMAIN s : i < j => s[i] < s[j]
  BY <1>5, <1>6, Zenon
<1>8. s \in Injection(1..k, Z)
  <2>1. \A i, j \in 1..k : s[i] = s[j] => i = j
    <3> SUFFICES ASSUME NEW i \in 1..k, NEW j \in 1..k, s[i] = s[j], i # j PROVE FALSE
      OBVIOUS
    <3>1. i < j \/ j < i
      BY <1>2
    <3>2. s[i] < s[j] \/ s[j] < s[i]
      BY <1>7, <3>1
    <3>3. s[i] \in Nat /\ s[j] \in Nat
      BY <1>7
    <3> QED BY <3>2, <3>3
  <2> QED BY <1>7, <2>1 DEF Injection, IsInjective
<1>9. IsFiniteSet(1..k) /\ Cardinality(1..k) = k
  BY <1>2, FS_Interval
<1>10. s \in Surjection(1..k, Z)
  BY <1>1, <1>8, <1>9, FS_Injection
<1>11. Len(s) = k
  BY <1>2, <1>7
<1> QED BY <1>2, <1>7, <1>10, <1>11 DEF Surjection

(* There is the function that adds base after base.                        *)
Adds(g, old, new, s, k) == g = [i \in 0..k |-> IF i = 0 THEN <<>> ELSE W!WithBase(g[i - 1], ChangesOn(old, new, s[i]))]
LEMMA AddsExists ==
  ASSUME NEW old, NEW new, NEW s, NEW k \in Nat
  PROVE  \E g : Adds(g, old, new, s, k)
<1> DEFINE Bad == {i \in Nat : ~\E g : Adds(g, old, new, s, i)}
<1> SUFFICES ASSUME Bad # {} PROVE FALSE
  OBVIOUS
<1>1. PICK j \in Bad : \A y \in Bad : j <= y
  <2>1. Bad \in SUBSET Nat
    OBVIOUS
  <2> HIDE DEF Bad
  <2> QED BY <2>1, LeastNatural
<1>2. j \in Nat /\ ~\E g : Adds(g, old, new, s, j)
  BY <1>1
<1>3. CASE j = 0
  <2>1. PICK g : g = [i \in 0..0 |-> <<>>]
    OBVIOUS
  <2>2. g = [i \in 0..0 |-> IF i = 0 THEN <<>> ELSE W!WithBase(g[i - 1], ChangesOn(old, new, s[i]))]
    BY <2>1
  <2> QED BY <1>2, <1>3, <2>2 DEF Adds
<1>4. CASE j # 0
  <2>1. j - 1 \in Nat /\ j - 1 \notin Bad
    BY <1>1, <1>2, <1>4
  <2>2. PICK g : Adds(g, old, new, s, j - 1)
    BY <2>1
  <2>3. PICK h : h = [i \in 0..j |-> IF i = j THEN W!WithBase(g[j - 1], ChangesOn(old, new, s[j])) ELSE g[i]]
    OBVIOUS
  <2>4. \A i \in 0..j : i # j => i \in 0..(j - 1) /\ h[i] = g[i]
    BY <1>2, <2>3
  <2>5. \A i \in 0..j : h[i] = IF i = 0 THEN <<>> ELSE W!WithBase(h[i - 1], ChangesOn(old, new, s[i]))
    <3> TAKE i \in 0..j
    <3>1. CASE i = j
      <4>1. h[i - 1] = g[j - 1]
        BY <1>2, <1>4, <2>4, <3>1
      <4> QED BY <1>4, <2>3, <3>1, <4>1
    <3>2. CASE i # j
      <4>1. i \in 0..(j - 1) /\ h[i] = g[i]
        BY <2>4, <3>2
      <4>2. g[i] = IF i = 0 THEN <<>> ELSE W!WithBase(g[i - 1], ChangesOn(old, new, s[i]))
        BY <2>2, <4>1 DEF Adds
      <4>3. i # 0 => h[i - 1] = g[i - 1]
        BY <1>2, <2>4, <3>2, <4>1
      <4> QED BY <4>1, <4>2, <4>3
    <3> QED BY <3>1, <3>2
  <2>6. h = [i \in 0..j |-> IF i = 0 THEN <<>> ELSE W!WithBase(h[i - 1], ChangesOn(old, new, s[i]))]
    BY <2>3, <2>5
  <2> QED BY <1>2, <2>6 DEF Adds
<1> QED BY <1>3, <1>4

(* The changes between two indexes tell all.                               *)
LEMMA ChangesTellAll ==
  ASSUME NEW old, NEW new, W!IsIndexFile(new)
  PROVE  TellsAll(W!ComputeChangesBetween(old, new).worlds, old, new, W!BasesOf(new))
<1>1. PICK s, k : s = W!InOrder(W!BasesOf(new)) /\ k \in Nat /\ s \in [1..k -> W!BasesOf(new)] /\ Len(s) = k
                  /\ \A z \in W!BasesOf(new) : \E i \in 1..k : s[i] = z
  <2>1. W!BasesOf(new) \in SUBSET Nat
    BY BasesAreNumbers
  <2>2. IsFiniteSet(W!BasesOf(new))
    <3>1. IsFiniteSet(new.bases)
      BY RelCardinality DEF W!IsIndexFile, W!IsVersions
    <3> QED BY <3>1, FS_AddElement DEF W!BasesOf
  <2> QED BY <2>1, <2>2, InOrderHasAll
<1>2. PICK g : g = CHOOSE h : h = [i \in 0..k |-> IF i = 0 THEN <<>> ELSE W!WithBase(h[i - 1], ChangesOn(old, new, s[i]))]
  OBVIOUS
<1>3. W!ComputeChangesBetween(old, new).worlds = g[k]
  BY <1>1, <1>2 DEF W!ComputeChangesBetween, ChangesOn
<1>4. g = [i \in 0..k |-> IF i = 0 THEN <<>> ELSE W!WithBase(g[i - 1], ChangesOn(old, new, s[i]))]
  <2>0. PICK h : Adds(h, old, new, s, k)
    BY <1>1, AddsExists
  <2>1. h = [i \in 0..k |-> IF i = 0 THEN <<>> ELSE W!WithBase(h[i - 1], ChangesOn(old, new, s[i]))]
    BY <2>0 DEF Adds
  <2> QED BY <1>2, <2>1, Zenon
<1> DEFINE Upto(i) == {s[j] : j \in 1..i}
           Bad == {i \in Nat : i <= k /\ ~TellsAll(g[i], old, new, Upto(i))}
<1>5. Bad = {}
  <2> SUFFICES ASSUME Bad # {} PROVE FALSE
    OBVIOUS
  <2>1. PICK j \in Bad : \A y \in Bad : j <= y
    <3>1. Bad \in SUBSET Nat
      OBVIOUS
    <3> HIDE DEF Bad
    <3> QED BY <3>1, LeastNatural
  <2>2. j \in Nat /\ j <= k /\ ~TellsAll(g[j], old, new, Upto(j))
    BY <2>1
  <2>3. CASE j = 0
    <3>1. g[0] = <<>> /\ Upto(0) = {}
      BY <1>1, <1>4
    <3>2. DOMAIN g[0] = {}
      BY <3>1
    <3>3. TellsAll(g[0], old, new, {})
      BY <3>2 DEF TellsAll, Moved
    <3> QED BY <2>2, <2>3, <3>1, <3>3
  <2>4. CASE j # 0
    <3>0. j - 1 \in Nat /\ j - 1 <= k /\ j \in 0..k /\ ~(j <= j - 1)
      BY <1>1, <2>2, <2>4
    <3>1. j - 1 \notin Bad
      <4> HIDE DEF Bad
      <4> QED BY <2>1, <3>0
    <3>2. TellsAll(g[j - 1], old, new, Upto(j - 1))
      BY <3>0, <3>1
    <3>3. g[j] = W!WithBase(g[j - 1], ChangesOn(old, new, s[j]))
      BY <1>4, <2>4, <3>0
    <3>4. TellsAll(ChangesOn(old, new, s[j]), old, new, {s[j]})
      BY OneBaseTells
    <3>5. Upto(j) = Upto(j - 1) \cup {s[j]}
      BY <2>2, <2>4
    <3> HIDE DEF Upto
    <3>6. TellsAll(g[j], old, new, Upto(j - 1) \cup {s[j]})
      BY <3>2, <3>3, <3>4, WithBaseTells
    <3> QED BY <2>2, <3>5, <3>6
  <2> QED BY <2>3, <2>4
<1>6. TellsAll(g[k], old, new, Upto(k))
  <2>1. k \in Nat /\ k <= k
    BY <1>1
  <2>2. k \notin Bad
    <3> HIDE DEF Bad
    <3> QED BY <1>5
  <2> QED BY <2>1, <2>2
<1>7. Upto(k) = W!BasesOf(new)
  BY <1>1
<1> HIDE DEF Upto
<1> QED BY <1>3, <1>6, <1>7

(* What a base sees, as pairs                                              *)
LEMMA SeenPairs ==
  ASSUME NEW file, NEW b, NEW p
  PROVE  p \in W!VersionsSeen(file, b) <=> \E n, v : p = <<n, v>> /\ v \in Vers(W!ViewForBase(file, b), n)
<1>1. PICK w : w = W!ViewForBase(file, b).worlds
  OBVIOUS
<1>2. p \in W!VersionsSeen(file, b) <=> \E n \in DOMAIN w : \E v \in DOMAIN w[n].versions : p = <<n, v>>
  BY <1>1 DEF W!VersionsSeen
<1> QED BY <1>1, <1>2 DEF Vers

(* A version that the changes say was added is one of a base.              *)
LEMMA AddedIsSeen ==
  ASSUME NEW old, NEW new, NEW ch, TellsAll(ch.worlds, old, new, W!BasesOf(new)), NEW p \in W!AddedVersions(ch)
  PROVE  \E n, v, b : /\ p = <<n, v>> /\ b \in W!BasesOf(new) /\ n \in DOMAIN W!ViewForBase(new, b).worlds
                      /\ v \in DOMAIN W!ViewForBase(new, b).worlds[n].versions
<1>1. PICK n, v : p = <<n, v>> /\ n \in DOMAIN ch.worlds /\ v \in DOMAIN ch.worlds[n].added_on
  BY DEF W!AddedVersions
<1>2. TellsWorld(ch.worlds[n], old, new, W!BasesOf(new), n)
  BY <1>1 DEF TellsAll
<1>3. DOMAIN ch.worlds[n].added_on = UNION {Gained(old, new, b, n) : b \in W!BasesOf(new)}
  BY <1>2 DEF TellsWorld
<1>4. PICK b \in W!BasesOf(new) : v \in Gained(old, new, b, n)
  BY <1>1, <1>3
<1> QED BY <1>1, <1>4 DEF Gained, Vers

(* Changes are exact, and can be downloaded again.                         *)
LEMMA ChangesExactly ==
  ASSUME NEW old, NEW new, W!IsIndexFile(new), NEW up1, NEW up2
  PROVE  W!ChangesAreExact(old, new, up1, up2)
<1>1. PICK ch : ch = W!ComputeChangesBetween(old, new)
  OBVIOUS
<1>2. PICK all : all = W!AllReleases(new)
  OBVIOUS
<1>3. PICK Z : Z = W!BasesOf(new)
  OBVIOUS
<1>4. PICK before, after : before = [b \in Z |-> W!VersionsSeen(old, b)] /\ after = [b \in Z |-> W!VersionsSeen(new, b)]
  OBVIOUS
<1>5. TellsAll(ch.worlds, old, new, Z)
  BY <1>1, <1>3, ChangesTellAll
<1> DEFINE named(p, f) == IF p[1] \in DOMAIN ch.worlds /\ p[2] \in DOMAIN ch.worlds[p[1]][f] THEN ch.worlds[p[1]][f][p[2]] ELSE {}
<1>6. ASSUME NEW p \in UNION {before[b] \cup after[b] : b \in DOMAIN after}
      PROVE  /\ named(p, "added_on") = {b \in DOMAIN after : p \in after[b] \ before[b]}
             /\ named(p, "removed_from") = {b \in DOMAIN after : p \in before[b] \ after[b]}
  <2>1. PICK n, v : p = <<n, v>>
    BY <1>4, <1>6, SeenPairs
  <2>2. \A b \in Z : (p \in after[b] <=> v \in Vers(W!ViewForBase(new, b), n)) /\ (p \in before[b] <=> v \in Vers(W!ViewForBase(old, b), n))
    <3> TAKE b \in Z
    <3>1. after[b] = W!VersionsSeen(new, b) /\ before[b] = W!VersionsSeen(old, b)
      BY <1>4
    <3>2. p \in W!VersionsSeen(new, b) <=> \E m, u : p = <<m, u>> /\ u \in Vers(W!ViewForBase(new, b), m)
      BY SeenPairs
    <3>3. p \in W!VersionsSeen(old, b) <=> \E m, u : p = <<m, u>> /\ u \in Vers(W!ViewForBase(old, b), m)
      BY SeenPairs
    <3> QED BY <2>1, <3>1, <3>2, <3>3
  <2>3. /\ {b \in DOMAIN after : p \in after[b] \ before[b]} = {b \in Z : v \in Gained(old, new, b, n)}
        /\ {b \in DOMAIN after : p \in before[b] \ after[b]} = {b \in Z : v \in LostOn(old, new, b, n)}
    BY <1>4, <2>2 DEF Gained, LostOn
  <2>4. CASE n \in DOMAIN ch.worlds
    <3>1. PICK e : e = ch.worlds[n]
      OBVIOUS
    <3>2. /\ e.added_on = [u \in UNION {Gained(old, new, b, n) : b \in Z} |-> {b \in Z : u \in Gained(old, new, b, n)}]
          /\ e.removed_from = [u \in UNION {LostOn(old, new, b, n) : b \in Z} |-> {b \in Z : u \in LostOn(old, new, b, n)}]
      BY <1>5, <2>4, <3>1 DEF TellsAll, TellsWorld
    <3>3. /\ named(p, "added_on") = IF v \in DOMAIN e.added_on THEN e.added_on[v] ELSE {}
          /\ named(p, "removed_from") = IF v \in DOMAIN e.removed_from THEN e.removed_from[v] ELSE {}
      BY <2>1, <2>4, <3>1
    <3>4. (IF v \in DOMAIN e.added_on THEN e.added_on[v] ELSE {}) = {b \in Z : v \in Gained(old, new, b, n)}
      BY <3>2
    <3>5. (IF v \in DOMAIN e.removed_from THEN e.removed_from[v] ELSE {}) = {b \in Z : v \in LostOn(old, new, b, n)}
      BY <3>2
    <3> QED BY <2>3, <3>3, <3>4, <3>5
  <2>5. CASE n \notin DOMAIN ch.worlds
    <3>1. named(p, "added_on") = {} /\ named(p, "removed_from") = {}
      BY <2>1, <2>5
    <3>2. \A b \in Z : Gained(old, new, b, n) = {} /\ LostOn(old, new, b, n) = {}
      BY <1>5, <2>5 DEF TellsAll, Moved
    <3>3. {b \in Z : v \in Gained(old, new, b, n)} = {} /\ {b \in Z : v \in LostOn(old, new, b, n)} = {}
      BY <3>2
    <3> QED BY <2>3, <3>1, <3>3
  <2> QED BY <2>4, <2>5
<1>7. \A n \in DOMAIN ch.worlds : DOMAIN ch.worlds[n].added_on \cup DOMAIN ch.worlds[n].removed_from # {}
  <2> TAKE n \in DOMAIN ch.worlds
  <2>1. /\ DOMAIN ch.worlds[n].added_on = UNION {Gained(old, new, b, n) : b \in Z}
        /\ DOMAIN ch.worlds[n].removed_from = UNION {LostOn(old, new, b, n) : b \in Z}
    BY <1>5 DEF TellsAll, TellsWorld
  <2>2. PICK b \in Z : Gained(old, new, b, n) \cup LostOn(old, new, b, n) # {}
    BY <1>5 DEF TellsAll, Moved
  <2> QED BY <2>1, <2>2
<1>8. W!Missing(ch, all) = {}
  <2>1. ASSUME NEW p \in W!AddedVersions(ch) PROVE p[1] \in DOMAIN all.worlds /\ p[2] \in DOMAIN all.worlds[p[1]].versions
    <3>1. PICK n, v, b : /\ p = <<n, v>> /\ b \in W!BasesOf(new) /\ n \in DOMAIN W!ViewForBase(new, b).worlds
                         /\ v \in DOMAIN W!ViewForBase(new, b).worlds[n].versions
      BY <1>3, <1>5, <2>1, AddedIsSeen
    <3>2. n \in DOMAIN all.worlds /\ v \in DOMAIN all.worlds[n].versions
      BY <1>2, <3>1, MergedHasEvery
    <3> QED BY <3>1, <3>2
  <2> QED BY <2>1 DEF W!Missing
<1>9. PICK sums : sums = W!DownloadChangedApworlds(ch, all, up1)
  OBVIOUS
<1>10. W!DownloadFromChanges(ch, all, sums, up2).ok = (\A p \in W!AddedVersions(ch) : sums[p] = "supported" \/ up2[p] = sums[p])
  <2>1. \A p \in W!AddedVersions(ch) : sums[p] # "supported" => all.worlds[p[1]].versions[p[2]] # "supported"
    BY <1>9 DEF W!DownloadChangedApworlds
  <2>2. PICK ok \in BOOLEAN : ok <=> \A p \in {q \in W!AddedVersions(ch) : sums[q] # "supported" /\ all.worlds[q[1]].versions[q[2]] # "supported"} :
                                       up2[p] = sums[p]
    OBVIOUS
  <2>3. W!DownloadFromChanges(ch, all, sums, up2).ok = ok
    BY <2>2 DEF W!DownloadFromChanges
  <2>4. ok <=> \A p \in W!AddedVersions(ch) : sums[p] = "supported" \/ up2[p] = sums[p]
    BY <2>1, <2>2
  <2> QED BY <2>3, <2>4
<1>11. W!ChangesTell(ch, all, before, after, up1, up2)
  BY <1>6, <1>7, <1>8, <1>9, <1>10 DEF W!ChangesTell
<1> QED BY <1>1, <1>2, <1>3, <1>4, <1>11 DEF W!ChangesAreExact

-----------------------------------------------------------------------------
(* Retries of a download                                                   *)

LEMMA Least ==
  ASSUME NEW Z \in SUBSET Nat, Z # {}
  PROVE  W!Min(Z) \in Z /\ \A y \in Z : W!Min(Z) <= y
<1>1. \E m \in Z : \A y \in Z : m <= y
  BY LeastNatural
<1> QED BY <1>1 DEF W!Min

LEMMA RetriesEnd ==
  ASSUME NEW a, W!IsAnswers(a)
  PROVE  W!RetriesAreBounded(a)
<1> DEFINE out(i) == W!FetchOnce(a[i])
           stops == {i \in DOMAIN a : out(i) # "transient" \/ i > 3}
           good == {i \in 1..4 : out(i) = "ok"}
           refused == {i \in 1..4 : out(i) = "permanent"}
<1>1. PICK last : last = W!Min(stops)
  OBVIOUS
<1>2. PICK r : r = W!WithRetries(a, W!Retries)
  OBVIOUS
<1>3. r = [attempts |-> last, outcome |-> out(last), waited |-> [i \in 1..last - 1 |-> W!RetryDelay(i)]]
  BY <1>1, <1>2 DEF W!WithRetries, W!Retries
<1>4. (\A i \in DOMAIN a : i \in Nat \ {0}) /\ 1..4 \subseteq DOMAIN a
  BY DEF W!IsAnswers, W!Retries
<1>5. 4 \in stops /\ stops \in SUBSET Nat
  BY <1>4
<1>6. last \in stops /\ \A y \in stops : last <= y
  <2> HIDE DEF stops
  <2> QED BY <1>1, <1>5, Least
<1>7. last \in 1..4
  <2>1. last <= 4 /\ last \in Nat \ {0}
    BY <1>4, <1>5, <1>6
  <2> QED BY <2>1
<1>8. \A i \in 1..4 : out(i) \in {"ok", "transient", "permanent"}
  BY DEF W!FetchOnce
<1>9. \A i \in 1..4 : out(i) # "transient" => last <= i
  BY <1>4, <1>6
<1>10. out(last) # "transient" \/ last = 4
  BY <1>6, <1>7
<1>11. good \in SUBSET Nat /\ (good # {} => W!Min(good) \in good /\ \A y \in good : W!Min(good) <= y)
  <2>1. good \in SUBSET Nat
    OBVIOUS
  <2> HIDE DEF good
  <2> QED BY <2>1, Least
<1> HIDE DEF out
<1>12. out(last) = "ok" => good # {} /\ \A i \in refused : i > W!Min(good)
  <2> SUFFICES ASSUME out(last) = "ok" PROVE good # {} /\ \A i \in refused : i > W!Min(good)
    OBVIOUS
  <2>1. last \in good
    BY <1>7
  <2>2. W!Min(good) <= last /\ W!Min(good) \in 1..4
    BY <1>11, <2>1
  <2>3. \A i \in refused : i > last
    <3> TAKE i \in refused
    <3>1. last <= i /\ i # last /\ i \in 1..4
      BY <1>9
    <3> QED BY <1>7, <3>1
  <2> QED BY <1>7, <2>1, <2>2, <2>3
<1>13. (good # {} /\ \A i \in refused : i > W!Min(good)) => out(last) = "ok"
  <2> SUFFICES ASSUME good # {}, \A i \in refused : i > W!Min(good), out(last) # "ok" PROVE FALSE
    OBVIOUS
  <2>1. PICK g \in 1..4 : g = W!Min(good) /\ out(g) = "ok"
    BY <1>11
  <2>2. last <= g
    BY <1>9, <2>1
  <2>3. CASE out(last) = "permanent"
    <3>1. last \in refused
      BY <1>7, <2>3
    <3>2. last > g
      BY <2>1, <3>1
    <3> QED BY <1>7, <2>2, <3>2
  <2>4. CASE out(last) = "transient"
    BY <1>7, <1>10, <2>1, <2>2, <2>4
  <2> QED BY <1>7, <1>8, <2>3, <2>4
<1>14. \A i \in 1..3 : W!RetryDelay(i) = 2 ^ i
  <2>1. 2 ^ 0 = 1 /\ 2 ^ 1 = 2 /\ 2 ^ 2 = 4 /\ 2 ^ 3 = 8
    OBVIOUS
  <2>2. \A i \in 1..3 : W!RetryDelay(i) = IF 2 * 2 ^ (i - 1) < 16 THEN 2 * 2 ^ (i - 1) ELSE 16
    BY DEF W!RetryDelay, W!FirstDelay, W!MaxDelay
  <2>3. W!RetryDelay(1) = 2 /\ W!RetryDelay(2) = 4 /\ W!RetryDelay(3) = 8
    BY <2>1, <2>2
  <2>4. \A i \in 1..3 : i = 1 \/ i = 2 \/ i = 3
    OBVIOUS
  <2> QED BY <2>1, <2>3, <2>4
<1>15. PICK wt : wt = [i \in 1..last - 1 |-> W!RetryDelay(i)]
  OBVIOUS
<1>16. Len(wt) = last - 1 /\ \A i \in DOMAIN wt : wt[i] = 2 ^ i
  <2>1. last - 1 \in 0..3
    BY <1>7
  <2>2. Len(wt) = last - 1
    BY <1>15, <2>1
  <2>3. DOMAIN wt = 1..(last - 1) /\ 1..(last - 1) \subseteq 1..3
    BY <1>15, <2>1
  <2> QED BY <1>14, <1>15, <2>2, <2>3
<1>17. r.attempts = last /\ r.outcome = out(last) /\ r.waited = wt
  BY <1>3, <1>15
<1>18. PICK ok \in BOOLEAN : ok <=> out(last) = "ok"
  OBVIOUS
<1>19. (r.outcome = "ok") = (good # {} /\ \A i \in refused : i > W!Min(good))
  BY <1>12, <1>13, <1>17
<1>20. 1..(W!Retries + 1) = 1..4 /\ W!Retries + 1 = 4
  BY DEF W!Retries
<1>21. r.attempts <= W!Retries + 1
  BY <1>7, <1>17, <1>20
<1>22. Len(r.waited) = r.attempts - 1 /\ \A i \in DOMAIN r.waited : r.waited[i] = 2 ^ i
  BY <1>16, <1>17
<1> QED BY <1>2, <1>19, <1>20, <1>21, <1>22 DEF W!RetriesAreBounded, out

(* For any two indexes that can be read, whatever the servers give then    *)
(* and later, and for any answers to a download: the changes name exactly  *)
(* the bases that gained or lost a version, what they add can be           *)
(* downloaded again, and retries end.                                      *)
THEOREM ChangesStayExact == IsInput => ChangesExact
BY ChangesExactly, RetriesEnd DEF IsInput, ChangesExact

-----------------------------------------------------------------------------
(* Options pages                                                           *)

(* A value is of one kind only.                                            *)
LEMMA TextIsText ==
  ASSUME NEW s
  PROVE  /\ F!Has(F!Text(s), "text") /\ F!Text(s).text = s
         /\ ~F!Has(F!Text(s), "num") /\ ~F!Has(F!Text(s), "flag")
         /\ ~F!Has(F!Text(s), "list") /\ ~F!Has(F!Text(s), "obj")
  BY DEF F!Has, F!Text

LEMMA NumberIsNumber ==
  ASSUME NEW s
  PROVE  /\ F!Has(F!Number(s), "num") /\ F!Number(s).num = s
         /\ ~F!Has(F!Number(s), "text") /\ ~F!Has(F!Number(s), "flag")
         /\ ~F!Has(F!Number(s), "list") /\ ~F!Has(F!Number(s), "obj")
  BY DEF F!Has, F!Number

LEMMA FlagIsFlag ==
  ASSUME NEW s
  PROVE  /\ F!Has(F!Flag(s), "flag") /\ F!Flag(s).flag = s
         /\ ~F!Has(F!Flag(s), "text") /\ ~F!Has(F!Flag(s), "num")
         /\ ~F!Has(F!Flag(s), "list") /\ ~F!Has(F!Flag(s), "obj")
  BY DEF F!Has, F!Flag

LEMMA ObjectIsObject ==
  ASSUME NEW s
  PROVE  /\ F!Has(F!Object(s), "obj") /\ F!Object(s).obj = s
         /\ ~F!Has(F!Object(s), "text") /\ ~F!Has(F!Object(s), "num")
         /\ ~F!Has(F!Object(s), "list") /\ ~F!Has(F!Object(s), "flag")
  BY DEF F!Has, F!Object

LEMMA OneKind ==
  ASSUME NEW v, F!IsValue(v)
  PROVE  /\ F!Has(v, "text") => /\ v = F!Text(v.text) /\ v.text \in STRING
                                /\ ~F!Has(v, "num") /\ ~F!Has(v, "flag") /\ ~F!Has(v, "list") /\ ~F!Has(v, "obj")
         /\ F!Has(v, "num") => /\ v = F!Number(v.num) /\ v.num \in Int
                               /\ ~F!Has(v, "flag") /\ ~F!Has(v, "list") /\ ~F!Has(v, "obj")
         /\ F!Has(v, "flag") => /\ v = F!Flag(v.flag) /\ v.flag \in BOOLEAN
                                /\ ~F!Has(v, "list") /\ ~F!Has(v, "obj")
         /\ F!Has(v, "list") => ~F!Has(v, "obj")
         /\ F!Has(v, "obj") => v = F!Object(v.obj) /\ \A k \in DOMAIN v.obj : k \in STRING
<1>1. CASE v = F!Null
  BY <1>1 DEF F!Null, F!Has
<1>2. CASE F!Has(v, "list") /\ v = F!List(v.list)
  BY <1>2 DEF F!List, F!Has
<1>7. CASE F!Has(v, "float") /\ v = F!Float(v.float)
  BY <1>7 DEF F!Float, F!Has
<1>3. CASE F!Has(v, "text") /\ v = F!Text(v.text) /\ v.text \in STRING
  BY <1>3, TextIsText
<1>4. CASE F!Has(v, "num") /\ v = F!Number(v.num) /\ v.num \in Int
  BY <1>4, NumberIsNumber
<1>5. CASE F!Has(v, "flag") /\ v = F!Flag(v.flag) /\ v.flag \in BOOLEAN
  BY <1>5, FlagIsFlag
<1>6. CASE F!Has(v, "obj") /\ v = F!Object(v.obj) /\ \A k \in DOMAIN v.obj : k \in STRING
  BY <1>6, ObjectIsObject
<1> QED BY <1>1, <1>2, <1>3, <1>4, <1>5, <1>6, <1>7 DEF F!IsValue

(* What a text or a number is shown as; None is none of them.              *)
LEMMA TextReads ==
  ASSUME NEW s \in STRING
  PROVE  /\ F!PrefilledStr(F!Text(s)) = s /\ F!PrefilledStr(F!Text(s)) # None
         /\ F!PrefilledNum(F!Text(s)) # None <=> s \in DOMAIN Numerals
         /\ s \in DOMAIN Numerals => F!PrefilledNum(F!Text(s)) = Numerals[s] /\ Numerals[s] \in Int
         /\ F!ParseNumber(s) # None <=> s \in DOMAIN Numerals
         /\ s \in DOMAIN Numerals => F!ParseNumber(s) = Numerals[s]
  BY TextIsText, TextAssumption DEF F!PrefilledStr, F!PrefilledNum, F!ParseNumber, F!TextsRead

LEMMA OthersRead ==
  ASSUME NEW v, F!IsValue(v), ~F!Has(v, "text")
  PROVE  /\ F!PrefilledStr(v) = None
         /\ F!PrefilledNum(v) # None <=> F!Has(v, "num")
         /\ F!Has(v, "num") => F!PrefilledNum(v) = v.num
  BY OneKind, TextAssumption DEF F!PrefilledStr, F!PrefilledNum, F!TextsRead

(* A number that is valid is one of the range, and the other way round.    *)
LEMMA NumbersJudged ==
  ASSUME NEW def, F!IsDef(def), NEW n \in Int, def.ty \in {"range", "named_range"}
  PROVE  F!ValidateNumericValue(n, def) <=> (def.range # None => n \in def.range[1]..def.range[2])
  BY DEF F!ValidateNumericValue, F!IsDef

(* A text is valid exactly if the option may be rolled to it.              *)
LEMMA TextsJudged ==
  ASSUME NEW def, F!IsDef(def), NEW s \in STRING
  PROVE  F!ValidateSingleValue(s, def) <=> F!MayBe(def, F!Text(s))
<1>1. CASE s \in Randoms
  BY <1>1, TextIsText DEF F!ValidateSingleValue, F!MayBe
<1>2. CASE s \notin Randoms /\ def.ty = "named_range"
  <2>1. F!PrefilledIsSuggestion(F!Text(s), def) <=> (def.suggestions # None /\ s \in def.suggestions)
    BY TextReads DEF F!PrefilledIsSuggestion
  <2>2. s \in DOMAIN Numerals =>
          (F!ValidateNumericValue(Numerals[s], def) <=> (def.range # None => Numerals[s] \in def.range[1]..def.range[2]))
    BY <1>2, NumbersJudged, TextReads
  <2> HIDE DEF F!ValidateNumericValue, F!PrefilledIsSuggestion
  <2> QED BY <1>2, <2>1, <2>2, TextIsText, TextReads DEF F!ValidateSingleValue, F!MayBe
<1>3. CASE s \notin Randoms /\ def.ty # "named_range"
  BY <1>3, TextIsText DEF F!ValidateSingleValue, F!MayBe
<1> QED BY <1>1, <1>2, <1>3

(* So is any value but weights.                                            *)
LEMMA ValuesJudged ==
  ASSUME NEW def, F!IsDef(def), NEW v, F!IsValue(v), ~F!Has(v, "obj")
  PROVE  F!ValidateOptionValue(v, def) <=> F!MayBe(def, v)
<1>1. CASE F!Has(v, "text")
  BY <1>1, OneKind, TextsJudged DEF F!ValidateOptionValue
<1>2. CASE F!Has(v, "num")
  <2>1. F!ValidateOptionValue(v, def) <=> F!ValidateNumericValue(v.num, def)
    BY <1>2, OneKind DEF F!ValidateOptionValue
  <2>2. ~F!PrefilledIsSuggestion(v, def) /\ F!PrefilledNum(v) = v.num /\ F!PrefilledNum(v) # None
    BY <1>2, OneKind, OthersRead DEF F!PrefilledIsSuggestion
  <2>3. CASE def.ty \in {"range", "named_range"}
    BY <1>2, <2>1, <2>2, <2>3, OneKind, NumbersJudged DEF F!MayBe
  <2>4. CASE def.ty \notin {"range", "named_range"}
    BY <1>2, <2>1, <2>4, OneKind DEF F!MayBe, F!ValidateNumericValue
  <2> QED BY <2>3, <2>4
<1>3. CASE ~F!Has(v, "text") /\ ~F!Has(v, "num")
  <2> DEFINE keyed == F!Has(v, "list") /\ F!HasValidKeys(def) =>
               \A i \in DOMAIN v.list : F!Has(v.list[i], "text") => v.list[i].text \in def.keys
  <2>1. F!MayBe(def, v) <=> keyed
    BY <1>3 DEF F!MayBe
  <2>2. F!ValidateOptionValue(v, def) <=> keyed
    <3>1. CASE F!Has(v, "list")
      BY <1>3, <3>1 DEF F!ValidateOptionValue
    <3>2. CASE ~F!Has(v, "list")
      BY <1>3, <3>2 DEF F!ValidateOptionValue
    <3> QED BY <3>1, <3>2
  <2> QED BY <2>1, <2>2
<1> QED BY <1>1, <1>2, <1>3

(* Weights are valid exactly if all that they can be rolled to is.         *)
LEMMA RollsJudged ==
  ASSUME NEW def, F!IsDef(def), NEW v, F!IsValue(v)
  PROVE  F!ValidateOptionValue(v, def) <=> \A r \in F!Rolls(v) : F!MayBe(def, r)
<1>1. CASE F!Has(v, "obj")
  <2>1. F!ValidateOptionValue(v, def) <=> \A k \in F!NonZero(v.obj) : F!ValidateSingleValue(k, def)
    BY <1>1, OneKind DEF F!ValidateOptionValue
  <2>2. \A k \in F!NonZero(v.obj) : k \in STRING
    BY <1>1, OneKind DEF F!NonZero
  <2>3. \A k \in F!NonZero(v.obj) : F!ValidateSingleValue(k, def) <=> F!MayBe(def, F!Text(k))
    BY <2>2, TextsJudged
  <2>4. F!Rolls(v) = {F!Text(k) : k \in F!NonZero(v.obj)}
    BY <1>1 DEF F!Rolls
  <2> QED BY <2>1, <2>3, <2>4
<1>2. CASE ~F!Has(v, "obj")
  BY <1>2, ValuesJudged DEF F!Rolls
<1> QED BY <1>1, <1>2

(* Weights that leave one choice are that choice, and roll to the same.    *)
LEMMA CoalescedRolls ==
  ASSUME NEW def, NEW v, F!IsValue(v), NEW w, w = F!Coalesced(v, def)
  PROVE  /\ F!IsValue(w) /\ F!Rolls(w) = F!Rolls(v)
         /\ \/ w = v
            \/ /\ F!Has(v, "obj")
               /\ \E k \in F!NonZero(v.obj) : F!NonZero(v.obj) = {k} /\ w = F!Text(k)
<1>1. CASE F!Has(v, "obj") /\ def.ty \in F!WeightedTypes /\ \E k \in F!NonZero(v.obj) : F!NonZero(v.obj) = {k}
  <2>1. PICK k \in F!NonZero(v.obj) : F!NonZero(v.obj) = {k}
    BY <1>1
  <2>2. w = F!Text(k)
    BY <1>1, <2>1 DEF F!Coalesced
  <2>3. k \in STRING
    BY <1>1, <2>1, OneKind DEF F!NonZero
  <2>4. F!IsValue(w)
    BY <2>2, <2>3, TextIsText DEF F!IsValue
  <2>5. F!Rolls(v) = {F!Text(k)}
    BY <1>1, <2>1 DEF F!Rolls
  <2>6. F!Rolls(w) = {F!Text(k)}
    BY <2>2, TextIsText DEF F!Rolls
  <2> QED BY <1>1, <2>1, <2>2, <2>4, <2>5, <2>6
<1>2. CASE ~(F!Has(v, "obj") /\ def.ty \in F!WeightedTypes /\ \E k \in F!NonZero(v.obj) : F!NonZero(v.obj) = {k})
  BY <1>2 DEF F!Coalesced
<1> QED BY <1>1, <1>2

(* Where edit_yaml puts an option.                                         *)
LEMMA SortedSomewhere ==
  ASSUME NEW defs, NEW n, NEW v, NEW x, x = F!Sorted(defs, n, v)
  PROVE  /\ x.to \in {"warning", "outdated", "prefilled"}
         /\ x.to # "warning" => n \in DOMAIN defs
         /\ x.to = "warning" =>
              n \notin DOMAIN defs \/ (F!Has(v, "obj") /\ defs[n].ty \notin F!WeightedTypes \cup {"counter", "dict"})
         /\ x.to = "outdated" => /\ F!IsEditable(defs[n])
                                 /\ ~F!ValidateOptionValue(F!Coalesced(v, defs[n]), defs[n])
         /\ x.to = "prefilled" =>
              /\ x.value = F!Coalesced(v, defs[n])
              /\ F!IsEditable(defs[n]) => F!ValidateOptionValue(x.value, defs[n])
<1>1. CASE x = [to |-> "warning"]
  BY <1>1 DEF F!Sorted
<1>2. CASE x = [to |-> "outdated"]
  BY <1>2 DEF F!Sorted
<1>3. CASE x = [to |-> "prefilled", value |-> F!Coalesced(v, defs[n])]
  BY <1>3 DEF F!Sorted
<1> QED BY <1>1, <1>2, <1>3 DEF F!Sorted

(* The fields of the page.                                                 *)
LEMMA PageFields ==
  ASSUME NEW defs, NEW yaml, F!EditedGame(yaml) # None, NEW opts, opts = F!Given(yaml),
         NEW page, page = F!EditYaml(defs, yaml)
  PROVE  /\ page.ok /\ page.names = DOMAIN opts
         /\ DOMAIN page.prefilled = {n \in DOMAIN opts : F!Sorted(defs, n, opts[n]).to = "prefilled"}
         /\ \A n \in DOMAIN page.prefilled : page.prefilled[n] = F!Sorted(defs, n, opts[n]).value
         /\ page.warnings = {n \in DOMAIN opts : F!Sorted(defs, n, opts[n]).to = "warning"}
         /\ page.outdated = {n \in DOMAIN opts : F!Sorted(defs, n, opts[n]).to = "outdated"}
         /\ page.player = IF "name" \in DOMAIN yaml /\ F!Has(yaml["name"], "text") THEN yaml["name"] ELSE F!Null
  BY DEF F!EditYaml

LEMMA YamlIsSorted ==
  ASSUME NEW defs, \A n \in DOMAIN defs : F!IsDef(defs[n]), NEW yaml, F!IsYaml(yaml)
  PROVE  F!OptionsAreSorted(defs, yaml)
<1> DEFINE given == F!Given(yaml)
           page == F!EditYaml(defs, yaml)
           at(n) == F!Sorted(defs, n, given[n])
<1>1. F!EditedGame(yaml) # None
  BY TextAssumption DEF F!EditedGame, F!IsYaml, F!TextsRead
<1>2. \A n \in DOMAIN given : F!IsValue(given[n])
  BY DEF F!IsYaml
<1>3. /\ page.names = DOMAIN given
      /\ DOMAIN page.prefilled = {n \in DOMAIN given : at(n).to = "prefilled"}
      /\ \A n \in DOMAIN page.prefilled : page.prefilled[n] = at(n).value
      /\ page.warnings = {n \in DOMAIN given : at(n).to = "warning"}
      /\ page.outdated = {n \in DOMAIN given : at(n).to = "outdated"}
  BY <1>1, PageFields
<1>4. \A n \in DOMAIN given : at(n).to \in {"warning", "outdated", "prefilled"}
  BY SortedSomewhere
<1>5. ASSUME NEW n \in DOMAIN page.prefilled, F!IsEditable(defs[n]), NEW v \in F!Rolls(page.prefilled[n])
      PROVE  F!MayBe(defs[n], v)
  <2>1. n \in DOMAIN given /\ n \in DOMAIN defs /\ page.prefilled[n] = F!Coalesced(given[n], defs[n])
        /\ F!ValidateOptionValue(page.prefilled[n], defs[n])
    BY <1>3, <1>5, SortedSomewhere
  <2>2. F!IsValue(page.prefilled[n])
    BY <1>2, <2>1, CoalescedRolls
  <2> QED BY <1>5, <2>1, <2>2, RollsJudged
<1>6. ASSUME NEW n \in page.outdated
      PROVE  \E v \in F!Rolls(given[n]) : ~F!MayBe(defs[n], v)
  <2> DEFINE w == F!Coalesced(given[n], defs[n])
  <2>1. n \in DOMAIN given /\ n \in DOMAIN defs /\ ~F!ValidateOptionValue(w, defs[n])
    BY <1>3, <1>6, SortedSomewhere
  <2>2. F!IsValue(w) /\ F!Rolls(w) = F!Rolls(given[n])
    BY <1>2, <2>1, CoalescedRolls
  <2> HIDE DEF w
  <2> QED BY <2>1, <2>2, RollsJudged
<1>7. \A n \in DOMAIN defs : F!IsNewOption(page, n) <=> n \notin DOMAIN given
  BY <1>3 DEF F!IsNewOption
<1> HIDE DEF given, page, at
<1>8. /\ DOMAIN page.prefilled \cup page.warnings \cup page.outdated = DOMAIN given
      /\ DOMAIN page.prefilled \cap (page.warnings \cup page.outdated) = {} /\ page.warnings \cap page.outdated = {}
  BY <1>3, <1>4
<1> QED BY <1>5, <1>6, <1>7, <1>8 DEF F!OptionsAreSorted, given, page

(* The control of an option shows a value it can hold.                     *)
LEMMA HeldIsShown ==
  ASSUME NEW def, F!IsDef(def), NEW v, F!IsValue(v), ~F!Has(v, "obj"), F!Holds(def, v),
         def.ty \in {"choice", "named_range"} => F!ValidateOptionValue(v, def)
  PROVE  F!Reads(v, F!Shown(def, v))
<1>0. ~F!IsWeighted(def, v)
  BY DEF F!IsWeighted
<1>1. CASE def.ty = "bool"
  <2>1. F!Shown(def, v) = F!Flag(F!PrefilledBool(v, F!DefaultStr(def) = "true"))
    BY <1>0, <1>1 DEF F!Shown
  <2>2. CASE F!Has(v, "flag")
    <3>1. F!PrefilledBool(v, F!DefaultStr(def) = "true") = v.flag
      BY <2>2 DEF F!PrefilledBool
    <3> QED BY <2>1, <2>2, <3>1, OneKind DEF F!Reads
  <2>3. CASE ~F!Has(v, "flag")
    <3>1. F!PrefilledStr(v) \in {"true", "false"}
      BY <1>1, <2>3 DEF F!Holds
    <3>2. F!PrefilledBool(v, F!DefaultStr(def) = "true") = (v.text = "true")
      BY <2>3, <3>1 DEF F!PrefilledBool
    <3> QED BY <2>1, <3>1, <3>2 DEF F!Reads
  <2> QED BY <2>2, <2>3
<1>2. CASE def.ty = "range"
  <2>1. F!PrefilledNum(v) # None /\ F!Shown(def, v) = F!Number(F!PrefilledNum(v))
    BY <1>0, <1>2 DEF F!Shown, F!Holds
  <2> QED BY <2>1 DEF F!Reads
<1>3. CASE def.ty = "named_range"
  <2>1. F!Has(v, "text") /\ v.text \notin Randoms /\ F!PrefilledStr(v) = v.text /\ v.text # None
    BY <1>3, OneKind, OthersRead, TextReads DEF F!Holds
  <2>2. CASE F!PrefilledIsSuggestion(v, def)
    BY <1>0, <1>3, <2>2 DEF F!Shown, F!Reads
  <2>3. CASE ~F!PrefilledIsSuggestion(v, def)
    <3>1. F!ValidateSingleValue(v.text, def)
      BY <1>3, <2>1, OneKind DEF F!ValidateOptionValue
    <3>2. v.text \in DOMAIN Numerals
      BY <1>3, <2>1, <2>3, <3>1, OneKind, TextReads DEF F!ValidateSingleValue, F!PrefilledIsSuggestion
    <3>3. F!PrefilledNum(v) # None
      BY <2>1, <3>2, OneKind, TextReads
    <3>4. F!Shown(def, v) = F!Number(F!PrefilledNum(v))
      BY <1>0, <1>3, <2>1, <2>3, <3>3 DEF F!Shown
    <3> QED BY <3>3, <3>4 DEF F!Reads
  <2> QED BY <2>2, <2>3
<1>4. CASE def.ty = "choice"
  <2>1. F!Has(v, "text") /\ F!PrefilledStr(v) = v.text /\ v.text # None /\ (v.text \in Randoms => v.text \in def.choices)
    BY <1>4, OneKind, OthersRead, TextReads DEF F!Holds
  <2>2. F!ValidateSingleValue(v.text, def) /\ def.choices # None
    BY <1>4, <2>1, OneKind DEF F!ValidateOptionValue, F!IsDef
  <2>3. v.text \in def.choices
    BY <1>4, <2>1, <2>2 DEF F!ValidateSingleValue
  <2>4. F!Shown(def, v) = F!Text(v.text)
    BY <1>0, <1>4, <2>1, <2>3 DEF F!Shown, F!Selected
  <2> QED BY <2>1, <2>4, OneKind DEF F!Reads
<1>5. CASE def.ty \notin {"bool", "range", "named_range", "choice"}
  <2>1. F!Has(v, "text") /\ v = F!Text(v.text)
    BY <1>5, OneKind DEF F!Holds
  <2>2. F!PrefilledStr(v) = v.text /\ v.text # None
    BY <2>1, OneKind, TextReads
  <2> QED BY <1>0, <1>5, <2>1, <2>2 DEF F!Shown, F!Reads
<1> QED BY <1>1, <1>2, <1>3, <1>4, <1>5

LEMMA WeightsAreShown ==
  ASSUME NEW def, NEW v, F!IsWeighted(def, v)
  PROVE  F!Shown(def, v) = v
  BY DEF F!Shown

LEMMA YamlIsShown ==
  ASSUME NEW defs, \A n \in DOMAIN defs : F!IsDef(defs[n]), NEW name, NEW v, F!IsValue(v)
  PROVE  F!PageShowsYaml(defs, name, v)
<1> DEFINE def == defs[name]
           sorted == F!Sorted(defs, name, v)
<1> SUFFICES ASSUME sorted.to = "prefilled", def.ty \in F!WeightedTypes
             PROVE  /\ (F!IsWeighted(def, sorted.value) \/ F!Holds(def, sorted.value)) =>
                         F!Reads(sorted.value, F!Shown(def, sorted.value))
                    /\ F!Has(v, "obj") => F!Rolls(sorted.value) = F!Rolls(v)
  BY DEF F!PageShowsYaml
<1>1. name \in DOMAIN defs /\ sorted.value = F!Coalesced(v, def)
      /\ (F!IsEditable(def) => F!ValidateOptionValue(sorted.value, def))
  BY SortedSomewhere
<1>2. F!IsDef(def) /\ F!IsValue(sorted.value) /\ F!Rolls(sorted.value) = F!Rolls(v)
  BY <1>1, CoalescedRolls
<1>3. def.ty \in {"choice", "named_range"} => F!ValidateOptionValue(sorted.value, def)
  BY <1>1 DEF F!IsEditable
<1>4. F!Has(sorted.value, "obj") => F!IsWeighted(def, sorted.value)
  BY DEF F!IsWeighted
<1>5. F!IsWeighted(def, sorted.value) => F!Reads(sorted.value, F!Shown(def, sorted.value))
  BY WeightsAreShown DEF F!Reads
<1> HIDE DEF def, sorted
<1> QED BY <1>2, <1>3, <1>4, <1>5, HeldIsShown

(* What is posted for the control's value.                                 *)
LEMMA PostedValue ==
  ASSUME NEW def, NEW v, F!IsValue(v), NEW w, w = F!Posted(def, v)
  PROVE  F!IsValue(w) /\ (~F!Reread(def, v) => w = v)
<1>1. CASE F!Has(v, "text") /\ def.ty # "text"
  <2>1. w = F!FromJson(v.text) /\ v = F!Text(v.text) /\ v.text \in STRING
    BY <1>1, OneKind DEF F!Posted
  <2>2. F!IsValue(F!FromJson(v.text))
    BY <2>1, TextAssumption DEF F!FromJson, F!TextsRead
  <2> QED BY <1>1, <2>1, <2>2 DEF F!Reread
<1>2. CASE ~(F!Has(v, "text") /\ def.ty # "text")
  BY <1>2 DEF F!Posted, F!Reread
<1> QED BY <1>1, <1>2

LEMMA RandomIsPosted ==
  ASSUME NEW def
  PROVE  /\ ~F!Reread(def, F!Text("random"))
         /\ F!MayBe(def, F!Text("random"))
<1>1. F!FromJson("random") = F!Text("random")
  BY TextAssumption DEF F!FromJson, F!TextsRead
<1>2. ~F!Reread(def, F!Text("random"))
  BY <1>1, TextIsText DEF F!Reread
<1>3. F!MayBe(def, F!Text("random"))
  BY TextIsText, TextAssumption DEF F!MayBe, F!TextsRead
<1> QED BY <1>2, <1>3

(* What the control holds is valid when it is read again, but for a text   *)
(* of one's own and a name that is JSON.                                   *)
LEMMA ControlIsValid ==
  ASSUME NEW def, F!IsDef(def), NEW v, F!IsControl(def, v), NEW w, w = F!Posted(def, v),
         NEW r \in F!Rolls(w), ~F!MayBe(def, r)
  PROVE  F!Custom(def, v) \/ F!Reread(def, v)
<1>0. def.ty \in {"bool", "choice", "named_range", "text_choice", "range", "text"} /\ F!IsValue(v) /\ F!IsValue(w)
  BY PostedValue DEF F!IsControl, F!WeightedTypes
<1>1. CASE F!Reread(def, v)
  BY <1>1
<1>2. CASE ~F!Reread(def, v)
  <2>1. w = v
    BY <1>0, <1>2, PostedValue
  <2>2. CASE def.ty = "text_choice"
    BY <2>1, <2>2 DEF F!Custom
  <2>3. CASE def.ty # "text_choice" /\ F!Has(v, "obj")
    <3>1. \A k \in DOMAIN v.obj : F!MayBe(def, F!Text(k))
      <4>1. \/ \A k \in DOMAIN v.obj : F!MayBe(def, F!Text(k))
            \/ F!Has(v, "text") \/ F!Has(v, "num") \/ F!Has(v, "flag")
        BY <2>3, TextIsText, TextReads DEF F!IsControl, F!PrefilledIsSuggestion, F!PrefilledStr
      <4> QED BY <1>0, <2>3, <4>1, OneKind
    <3>2. PICK k \in F!NonZero(v.obj) : r = F!Text(k)
      BY <2>1, <2>3 DEF F!Rolls
    <3> QED BY <3>1, <3>2 DEF F!NonZero
  <2>4. CASE def.ty # "text_choice" /\ ~F!Has(v, "obj")
    <3>1. r = v
      BY <2>1, <2>4 DEF F!Rolls
    <3>2. CASE v = F!Text("random")
      BY <3>1, <3>2, RandomIsPosted
    <3>3. CASE v # F!Text("random") /\ def.ty = "range"
      BY <2>4, <3>1, <3>3 DEF F!IsControl
    <3>6. CASE v # F!Text("random") /\ def.ty = "choice"
      <4>1. F!Has(v, "text") /\ v.text \in def.choices
        BY <2>4, <3>6 DEF F!IsControl
      <4>2. ~F!Has(v, "list")
        BY <1>0, <4>1, OneKind
      <4> QED BY <3>1, <3>6, <4>1, <4>2 DEF F!MayBe
    <3>4. CASE v # F!Text("random") /\ def.ty = "named_range"
      <4>1. F!PrefilledIsSuggestion(v, def) \/ F!MayBe(def, v)
        BY <2>4, <3>4 DEF F!IsControl
      <4>2. F!PrefilledIsSuggestion(v, def) => ~F!Has(v, "list")
        BY <1>0, OneKind DEF F!PrefilledIsSuggestion, F!PrefilledStr
      <4> QED BY <3>1, <3>4, <4>1, <4>2 DEF F!MayBe
    <3>5. CASE v # F!Text("random") /\ def.ty \in {"bool", "text"}
      <4>1. F!Has(v, "flag") \/ F!Has(v, "text")
        BY <2>4, <3>5 DEF F!IsControl
      <4>2. ~F!Has(v, "list")
        BY <1>0, <4>1, OneKind
      <4> QED BY <3>1, <3>5, <4>2 DEF F!MayBe
    <3> QED BY <1>0, <2>4, <3>2, <3>3, <3>4, <3>5, <3>6
  <2> QED BY <2>2, <2>3, <2>4
<1> QED BY <1>1, <1>2

(* What the control held is shown again.                                   *)
LEMMA ControlIsShown ==
  ASSUME NEW def, F!IsDef(def), NEW v, F!IsControl(def, v), v # F!Text("random"), ~F!Reread(def, v),
         ~(def.ty = "named_range" /\ F!Has(v, "num") /\ F!DefaultIsSuggestion(def))
  PROVE  F!Shown(def, v) = v
<1>0. def.ty \in {"bool", "choice", "named_range", "text_choice", "range", "text"} /\ F!IsValue(v)
  BY DEF F!IsControl, F!WeightedTypes
<1>1. CASE F!Has(v, "obj")
  BY <1>1, WeightsAreShown DEF F!IsWeighted, F!IsControl
<1>6. ~F!Has(v, "obj") => ~F!IsWeighted(def, v)
  BY DEF F!IsWeighted
<1>2. CASE ~F!Has(v, "obj") /\ def.ty = "bool"
  <2>1. F!Has(v, "flag") /\ v = F!Flag(v.flag)
    BY <1>0, <1>2, OneKind DEF F!IsControl
  <2>2. F!PrefilledBool(v, F!DefaultStr(def) = "true") = v.flag
    BY <2>1 DEF F!PrefilledBool
  <2> QED BY <1>2, <1>6, <2>1, <2>2 DEF F!Shown
<1>3. CASE ~F!Has(v, "obj") /\ def.ty = "range"
  <2>1. F!Has(v, "num")
    BY <1>3 DEF F!IsControl
  <2>2. v = F!Number(v.num) /\ F!PrefilledNum(v) = v.num /\ F!PrefilledNum(v) # None
    BY <1>0, <2>1, OneKind, OthersRead
  <2> QED BY <1>3, <1>6, <2>2 DEF F!Shown
<1>4. CASE ~F!Has(v, "obj") /\ def.ty = "named_range"
  <2>0. ~F!IsWeighted(def, v)
    BY <1>4 DEF F!IsWeighted
  <2>1. CASE F!PrefilledIsSuggestion(v, def)
    BY <1>4, <2>0, <2>1 DEF F!Shown
  <2>2. CASE ~F!PrefilledIsSuggestion(v, def)
    <3>1. F!Has(v, "num")
      BY <1>4, <2>2 DEF F!IsControl
    <3>2. v = F!Number(v.num) /\ F!PrefilledNum(v) = v.num /\ F!PrefilledNum(v) # None
      BY <1>0, <3>1, OneKind, OthersRead
    <3> QED BY <1>4, <2>0, <2>2, <3>1, <3>2 DEF F!Shown
  <2> QED BY <2>1, <2>2
<1>5. CASE ~F!Has(v, "obj") /\ def.ty \in {"choice", "text_choice", "text"}
  <2>0. ~F!IsWeighted(def, v)
    BY <1>5 DEF F!IsWeighted
  <2>1. F!Has(v, "text") /\ v = F!Text(v.text) /\ (def.ty = "choice" => v.text \in def.choices)
    BY <1>0, <1>5, OneKind DEF F!IsControl
  <2>2. F!PrefilledStr(v) = v.text /\ v.text # None
    BY <1>0, <2>1, OneKind, TextReads
  <2> QED BY <1>5, <2>0, <2>1, <2>2 DEF F!Shown, F!Selected
<1> QED BY <1>0, <1>1, <1>2, <1>3, <1>4, <1>5

(* The YAML of a page names the game and has the options that were posted. *)
LEMMA DownloadedYaml ==
  ASSUME NEW defs, NEW game \in STRING \ {"game", "name"}, NEW player, NEW form, DOMAIN form \subseteq DOMAIN defs,
         NEW yaml, yaml = F!DownloadYaml(defs, game, player, form)
  PROVE  /\ F!EditedGame(yaml) # None
         /\ DOMAIN F!Given(yaml) = DOMAIN form
         /\ \A n \in DOMAIN form : F!Given(yaml)[n] = F!Posted(defs[n], form[n])
         /\ "name" \in DOMAIN yaml /\ yaml["name"] = F!Text(F!PlayerName(player))
<1> DEFINE opts == [n \in DOMAIN form |-> F!Posted(defs[n], form[n])]
<1>1. DOMAIN defs \cap DOMAIN form = DOMAIN form
  OBVIOUS
<1>2. yaml = F!WriteYaml(game, F!PlayerName(player), opts)
  BY <1>1 DEF F!DownloadYaml
<1> HIDE DEF opts
<1>3. /\ DOMAIN yaml = {"game", "name", game}
      /\ yaml["game"] = F!Text(game) /\ yaml["name"] = F!Text(F!PlayerName(player)) /\ yaml[game] = F!Object(opts)
  BY <1>2 DEF F!WriteYaml
<1>4. F!EditedGame(yaml) = game
  BY <1>3, TextIsText DEF F!EditedGame
<1>5. game # None
  BY TextAssumption DEF F!TextsRead
<1>6. F!Given(yaml) = opts
  BY <1>3, <1>4, ObjectIsObject DEF F!Given
<1> QED BY <1>3, <1>4, <1>5, <1>6 DEF opts

LEMMA DownloadIsTaken ==
  ASSUME NEW defs, \A n \in DOMAIN defs : F!IsDef(defs[n]), NEW game \in STRING \ {"game", "name"}, NEW player,
         NEW form, DOMAIN form \subseteq DOMAIN defs, \A n \in DOMAIN form : F!IsControl(defs[n], form[n])
  PROVE  F!DownloadsCanBeEdited(defs, game, player, form)
<1>0. PICK yaml : yaml = F!DownloadYaml(defs, game, player, form)
  OBVIOUS
<1> DEFINE page == F!EditYaml(defs, yaml)
           posted(n) == F!Posted(defs[n], form[n])
           at(n) == F!Sorted(defs, n, posted(n))
<1>1. F!EditedGame(yaml) # None /\ "name" \in DOMAIN yaml /\ yaml["name"] = F!Text(F!PlayerName(player))
  <2>1. F!EditedGame(yaml) # None
    BY <1>0, DownloadedYaml
  <2>2. "name" \in DOMAIN yaml
    BY <1>0, DownloadedYaml
  <2>3. yaml["name"] = F!Text(F!PlayerName(player))
    BY <1>0, DownloadedYaml
  <2> QED BY <2>1, <2>2, <2>3
<1>2. DOMAIN F!Given(yaml) = DOMAIN form /\ \A n \in DOMAIN form : F!Given(yaml)[n] = posted(n)
  BY <1>0, DownloadedYaml
<1>3. /\ page.ok /\ page.names = DOMAIN form
      /\ DOMAIN page.prefilled = {n \in DOMAIN form : at(n).to = "prefilled"}
      /\ \A n \in DOMAIN page.prefilled : page.prefilled[n] = at(n).value
      /\ page.warnings = {n \in DOMAIN form : at(n).to = "warning"}
      /\ page.outdated = {n \in DOMAIN form : at(n).to = "outdated"}
      /\ page.player = IF "name" \in DOMAIN yaml /\ F!Has(yaml["name"], "text") THEN yaml["name"] ELSE F!Null
  <2> DEFINE opts == F!Given(yaml)
             got(n) == F!Sorted(defs, n, opts[n])
  <2>1. \A n \in DOMAIN opts : got(n) = at(n)
    BY <1>2
  <2>2. /\ page.ok /\ page.names = DOMAIN opts
        /\ DOMAIN page.prefilled = {n \in DOMAIN opts : got(n).to = "prefilled"}
        /\ \A n \in DOMAIN page.prefilled : page.prefilled[n] = got(n).value
        /\ page.warnings = {n \in DOMAIN opts : got(n).to = "warning"}
        /\ page.outdated = {n \in DOMAIN opts : got(n).to = "outdated"}
        /\ page.player = IF "name" \in DOMAIN yaml /\ F!Has(yaml["name"], "text") THEN yaml["name"] ELSE F!Null
    BY <1>1, PageFields
  <2> HIDE DEF page, at, got
  <2> QED BY <1>2, <2>1, <2>2
<1> HIDE DEF page
<1>4. page.player = F!Text(F!PlayerName(player))
  BY <1>1, <1>3, TextIsText
<1>5. ASSUME NEW n \in DOMAIN form
      PROVE  /\ n \in DOMAIN defs /\ defs[n].ty \in F!WeightedTypes /\ F!IsDef(defs[n])
             /\ F!IsValue(form[n]) /\ F!IsValue(posted(n))
  BY PostedValue DEF F!IsControl
<1>6. page.warnings = {} /\ ~\E n \in DOMAIN form : F!IsNewOption(page, n)
  <2>1. \A n \in DOMAIN form : at(n).to # "warning"
    BY <1>5, SortedSomewhere
  <2> HIDE DEF at
  <2> QED BY <1>3, <2>1 DEF F!IsNewOption
<1>7. ASSUME NEW n \in page.outdated
      PROVE  F!Custom(defs[n], form[n]) \/ F!Reread(defs[n], form[n])
  <2> DEFINE w == F!Coalesced(posted(n), defs[n])
  <2>1. n \in DOMAIN form /\ ~F!ValidateOptionValue(w, defs[n])
    BY <1>3, SortedSomewhere
  <2>2. F!IsValue(w) /\ F!Rolls(w) = F!Rolls(posted(n))
    BY <1>5, <2>1, CoalescedRolls
  <2> HIDE DEF w
  <2>3. PICK r \in F!Rolls(posted(n)) : ~F!MayBe(defs[n], r)
    BY <1>5, <2>1, <2>2, RollsJudged
  <2> QED BY <1>5, <2>1, <2>3, ControlIsValid
<1>8. ASSUME NEW n \in DOMAIN form \ page.outdated
      PROVE  \/ F!Shown(defs[n], page.prefilled[n]) = form[n]
             \/ F!Has(form[n], "obj") /\ \E k \in F!NonZero(form[n].obj) :
                  F!NonZero(form[n].obj) = {k} /\ page.prefilled[n] = F!Text(k)
             \/ F!Reread(defs[n], form[n])
             \/ defs[n].ty = "named_range" /\ F!Has(form[n], "num") /\ F!DefaultIsSuggestion(defs[n])
             \/ form[n] = F!Text("random")
  <2> SUFFICES ASSUME ~F!Reread(defs[n], form[n]), form[n] # F!Text("random"),
                      ~(defs[n].ty = "named_range" /\ F!Has(form[n], "num") /\ F!DefaultIsSuggestion(defs[n]))
               PROVE  \/ F!Shown(defs[n], page.prefilled[n]) = form[n]
                      \/ F!Has(form[n], "obj") /\ \E k \in F!NonZero(form[n].obj) :
                           F!NonZero(form[n].obj) = {k} /\ page.prefilled[n] = F!Text(k)
    OBVIOUS
  <2>1. at(n).to \in {"warning", "outdated", "prefilled"}
    BY SortedSomewhere
  <2>2. at(n).to = "prefilled" /\ page.prefilled[n] = at(n).value
    BY <1>3, <1>6, <1>8, <2>1
  <2>3. page.prefilled[n] = F!Coalesced(posted(n), defs[n])
    BY <2>2, SortedSomewhere
  <2>4. posted(n) = form[n]
    BY <1>5, PostedValue
  <2>5. F!Shown(defs[n], form[n]) = form[n]
    BY <1>5, ControlIsShown
  <2> QED BY <1>5, <2>3, <2>4, <2>5, CoalescedRolls
<1> QED BY <1>0, <1>3, <1>4, <1>6, <1>7, <1>8 DEF F!DownloadsCanBeEdited, page

(* The options page of any world: for any definitions and any YAML that    *)
(* gives options for its game, edit_yaml sorts every option into one of    *)
(* three kinds and the page shows what it takes over; and a YAML that was  *)
(* made from what the controls hold comes back as it was.                  *)
THEOREM OptionsRoundTrip == IsInput => FormsRoundTrip
<1> SUFFICES ASSUME IsInput PROVE FormsRoundTrip
  OBVIOUS
<1>1. inp.about = "options" =>
        /\ F!OptionsAreSorted(inp.defs, inp.yaml)
        /\ \A n \in DOMAIN F!Given(inp.yaml) : F!PageShowsYaml(inp.defs, n, F!Given(inp.yaml)[n])
  <2> SUFFICES ASSUME inp.about = "options"
               PROVE  /\ F!OptionsAreSorted(inp.defs, inp.yaml)
                      /\ \A n \in DOMAIN F!Given(inp.yaml) : F!PageShowsYaml(inp.defs, n, F!Given(inp.yaml)[n])
    OBVIOUS
  <2>1. (\A n \in DOMAIN inp.defs : F!IsDef(inp.defs[n])) /\ F!IsYaml(inp.yaml)
    BY DEF IsInput
  <2>2. \A n \in DOMAIN F!Given(inp.yaml) : F!IsValue(F!Given(inp.yaml)[n])
    BY <2>1 DEF F!IsYaml
  <2> QED BY <2>1, <2>2, YamlIsSorted, YamlIsShown
<1>2. inp.about = "form" => F!DownloadsCanBeEdited(inp.defs, inp.game, inp.player, inp.form)
  BY DownloadIsTaken DEF IsInput
<1> QED BY <1>1, <1>2 DEF FormsRoundTrip
=============================================================================
