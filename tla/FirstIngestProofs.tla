-------------------------- MODULE FirstIngestProofs --------------------------
(***************************************************************************)
(* Proofs about the process of FirstIngest: for every environment, every   *)
(* sequence of inputs of the embedder, every size of its batches, and      *)
(* every filter request.                                                   *)
(*                                                                         *)
(* The stages have variables of their own, so each has an invariant of its *)
(* own, and before its stage it is idle.                                   *)
(*                                                                         *)
(* Load judges each key on its own and multiplies some values afterwards,  *)
(* with a product that may wrap around.  What holds of a configuration     *)
(* without errors is shown key by key; the invariant carries it from Load  *)
(* to the server that listens.                                             *)
(***************************************************************************)
EXTENDS FirstIngest, SequenceFacts, FiniteSetTheorems, SequenceTheorems

-----------------------------------------------------------------------------
(* The configuration *)

StartInv ==
  /\ env \in Environments /\ flags \in FlagSets
  /\ startup \in {"loaded", "wired", "serving"} => cfg = Loaded /\ Errors = {}
  /\ HasStarted => /\ buffer \in 1 .. WordMax
                   /\ CapacityMB > 0 /\ buffer = Wrapped(CapacityMB * Megabyte)

-----------------------------------------------------------------------------
(* Arithmetic *)

\* Words are bounded, and a product that fits a word is not changed.
LEMMA WrappedFacts ==
  ASSUME NEW n \in Int
  PROVE  /\ Wrapped(n) \in Int
         /\ Wrapped(n) <= WordMax
         /\ n \in 0 .. WordMax => Wrapped(n) = n
<1> DEFINE m == 2 * (WordMax + 1)
           a == n + WordMax + 1
<1>1. WordMax \in Nat
  BY ConfigurationAssumption
<1>2. m \in Nat \ {0} /\ a \in Int /\ m = 2 * (WordMax + 1)
  BY <1>1
<1>3. Wrapped(n) = (a % m) - (WordMax + 1)
  BY DEF Wrapped
<1> HIDE DEF m
<1>4. a % m \in 0 .. m - 1
  BY <1>2
<1>5. n \in 0 .. WordMax => a % m = a
  <2> SUFFICES ASSUME n \in 0 .. WordMax PROVE a % m = a
    OBVIOUS
  <2>1. a \in 0 .. m - 1
    BY <1>1, <1>2
  <2> HIDE DEF a
  <2> QED
    BY <1>2, <2>1
<1> QED
  BY <1>1, <1>2, <1>3, <1>4, <1>5

\* Products with a unit keep the order.
LEMMA ProductsOrdered ==
  ASSUME NEW a \in Int, NEW b \in Int, NEW u \in Nat, a <= b
  PROVE  a * u \in Int /\ b * u \in Int /\ a * u <= b * u
  OBVIOUS

LEMMA ProductsGrow ==
  ASSUME NEW a \in Nat, NEW u \in Nat \ {0}
  PROVE  a <= a * u
  OBVIOUS

\* The table is in order: every default is allowed.
LEMMA IntTableFacts ==
  ASSUME NEW k \in IntKeys
  PROVE  /\ IntTable[k].def \in Nat /\ IntTable[k].min \in Nat /\ IntTable[k].unit \in Nat \ {0}
         /\ IntTable[k].min <= IntTable[k].def
         /\ IntTable[k].def <= WordMax
<1>1. /\ IntTable[k].def \in Nat /\ IntTable[k].min \in Nat /\ IntTable[k].unit \in Nat \ {0}
      /\ IntTable[k].min <= IntTable[k].def
  BY ConfigurationAssumption DEF IntKeys, IntTable, IntKey, Second
<1> DEFINE d == IntTable[k].def
           u == IntTable[k].unit
<1>2. d \in Nat /\ u \in Nat \ {0} /\ d * u <= WordMax /\ WordMax \in Nat
  BY <1>1, ConfigurationAssumption
<1> HIDE DEF d, u
<1>3. d <= d * u /\ d * u \in Nat
  BY <1>2, ProductsGrow
<1>4. d <= WordMax
  BY <1>2, <1>3
<1> QED
  BY <1>1, <1>4 DEF d

-----------------------------------------------------------------------------
(* One key of a configuration *)

LEMMA TextsTyped ==
  ASSUME env \in Environments, NEW k \in DOMAIN env
  PROVE  /\ env[k].kind \in {"blank", "int", "decimal", "nan", "types", "name"}
         /\ env[k].n \in Int
         /\ env[k].types \subseteq Types \cup {"chat"}
  BY ConfigurationAssumption DEF EnvTexts

\* An integer is within its bounds, whether it was given or not.
LEMMA IntVals ==
  ASSUME env \in Environments, NEW k \in IntKeys
  PROVE  /\ IntVal(k) \in IntTable[k].min .. WordMax
         /\ IntVal(k) \in Nat
         /\ (IsGiven(k) /\ ~ BadInt(k)) => IntVal(k) = env[k].n
<1> DEFINE min == IntTable[k].min
           def == IntTable[k].def
           v == IntVal(k)
<1>1. min \in Nat /\ def \in Nat /\ min <= def /\ def <= WordMax /\ WordMax \in Nat
  BY IntTableFacts, ConfigurationAssumption
<1>2. (IsGiven(k) /\ ~ BadInt(k)) => v = env[k].n /\ env[k].n \in min .. WordMax
  BY DEF IntVal, BadInt
<1>3. ~ (IsGiven(k) /\ ~ BadInt(k)) => v = def
  BY DEF IntVal
<1> HIDE DEF min, def, v
<1>4. v \in min .. WordMax
  BY <1>1, <1>2, <1>3
<1> QED
  BY <1>1, <1>2, <1>4 DEF v, min

\* A duration is a word; unless its product overflowed, it is at least its minimum.
LEMMA Durations ==
  ASSUME env \in Environments, NEW k \in IntKeys
  PROVE  /\ Duration(k) \in Int /\ Duration(k) <= WordMax
         /\ Fits(k) => /\ Duration(k) = IntVal(k) * IntTable[k].unit
                       /\ Duration(k) \in IntTable[k].min * IntTable[k].unit .. WordMax
<1> DEFINE v == IntVal(k)
           u == IntTable[k].unit
           min == IntTable[k].min
<1>1. v \in Nat /\ min \in Nat /\ u \in Nat \ {0} /\ min <= v /\ WordMax \in Nat
  <2>1. v \in Nat /\ v \in min .. WordMax
    BY IntVals
  <2>2. min \in Nat /\ u \in Nat \ {0} /\ WordMax \in Nat
    BY IntTableFacts, ConfigurationAssumption
  <2> HIDE DEF v, min, u
  <2> QED
    BY <2>1, <2>2
<1>2. Duration(k) = Wrapped(v * u)
  BY DEF Duration
<1> HIDE DEF v, u, min
<1> DEFINE p == v * u
           q == min * u
<1>3. p \in Int /\ q \in Int /\ q <= p
  BY <1>1, ProductsOrdered
<1>4. v <= p
  BY <1>1, ProductsGrow
<1> HIDE DEF p, q
<1>5. /\ Wrapped(p) \in Int /\ Wrapped(p) <= WordMax
      /\ p \in 0 .. WordMax => Wrapped(p) = p
  BY <1>3, WrappedFacts
<1>6. p <= WordMax => Wrapped(p) = p /\ Wrapped(p) \in q .. WordMax
  BY <1>1, <1>3, <1>4, <1>5
<1>7. Fits(k) <=> p <= WordMax
  BY DEF Fits, p, v, u
<1> QED
  BY <1>2, <1>5, <1>6, <1>7 DEF p, q, v, u, min

\* A threshold is within its bounds, or NaN.
LEMMA FloatVals ==
  ASSUME env \in Environments, NEW k \in FloatKeys
  PROVE  /\ FloatVal(k) \in FloatTable[k].min .. FloatTable[k].max \cup {NaN}
         /\ (IsGiven(k) /\ ~ BadFloat(k)) => FloatVal(k) = Float(env[k])
<1>1. FloatTable[k].def \in FloatTable[k].min .. FloatTable[k].max
  BY DEF FloatKeys, FloatTable
<1>2. ASSUME IsGiven(k), ~ BadFloat(k)
      PROVE  FloatVal(k) = Float(env[k])
  BY <1>2 DEF FloatVal
<1>3. ASSUME IsGiven(k), ~ BadFloat(k)
      PROVE  Float(env[k]) \in FloatTable[k].min .. FloatTable[k].max \cup {NaN}
  BY <1>3 DEF BadFloat, Float
<1>4. ASSUME ~ (IsGiven(k) /\ ~ BadFloat(k))
      PROVE  FloatVal(k) = FloatTable[k].def
  BY <1>4 DEF FloatVal
<1> QED
  BY <1>1, <1>2, <1>3, <1>4

\* A list of types is the one that was given, if it names only types.
LEMMA TypeSets ==
  ASSUME env \in Environments, NEW k \in TypeKeys, k \in DOMAIN env, Listed(k) \subseteq Types
  PROVE  TypeSet(k) = IF env[k].kind = "types" THEN env[k].types ELSE {}
<1>1. CASE env[k].kind = "types"
  BY <1>1 DEF TypeSet, Listed
<1>2. CASE env[k].kind = "blank"
  BY <1>2 DEF TypeSet, Listed
<1>3. CASE env[k].kind \notin {"types", "blank"}
  <2>1. Listed(k) = {"chat"}
    BY <1>3 DEF Listed
  <2> QED
    BY <2>1 DEF Types
<1> QED
  BY <1>1, <1>2, <1>3

\* A configuration without errors names no faulty key, and its keys fit together.
LEMMA NoErrors ==
  ASSUME Errors = {}
  PROVE  /\ \A k \in IntKeys : ~ BadInt(k)
         /\ \A k \in FloatKeys : ~ BadFloat(k)
         /\ \A k \in TypeKeys : Listed(k) \subseteq Types
         /\ Provider = "openai" \/ Provider = "none"
         /\ ~ (IntVal("SEKHA_DRAIN_MAX_DEFAULT") > IntVal("SEKHA_DRAIN_MAX_LIMIT"))
         /\ IsGiven("SEKHA_PUSH_URL") => PushURL = "http url"
         /\ ~ (Duration("SEKHA_PUSH_MAX_BACKOFF_MS") < Duration("SEKHA_PUSH_INTERVAL_MS"))
<1>1. /\ {k \in IntKeys : BadInt(k)} = {}
      /\ {k \in FloatKeys : BadFloat(k)} = {}
      /\ {k \in TypeKeys : ~(Listed(k) \subseteq Types)} = {}
      /\ BadTogether = {}
  BY DEF Errors
<1>2. /\ Provider \in {"openai", "none"}
      /\ ~ (IntVal("SEKHA_DRAIN_MAX_DEFAULT") > IntVal("SEKHA_DRAIN_MAX_LIMIT"))
      /\ ~ (IsGiven("SEKHA_PUSH_URL") /\ PushURL # "http url")
      /\ ~ (Duration("SEKHA_PUSH_MAX_BACKOFF_MS") < Duration("SEKHA_PUSH_INTERVAL_MS"))
  BY <1>1 DEF BadTogether
<1> QED
  BY <1>1, <1>2

-----------------------------------------------------------------------------
(* Steps *)

LEMMA CapacityTyped ==
  ASSUME StartInv, cfg = Loaded
  PROVE  /\ CapacityMB \in Int /\ CapacityMB * Megabyte \in Int
         /\ CapacityMB > 0 => CapacityMB * Megabyte >= 0
<1>1. "SEKHA_CAPACITY_MB" \in PlainKeys /\ "SEKHA_CAPACITY_MB" \in IntKeys
  BY DEF PlainKeys, DurationKeys, IntKeys, IntTable
<1>2. cfg.ints["SEKHA_CAPACITY_MB"] \in Nat
  BY <1>1, IntVals DEF StartInv, Loaded
<1>3. "capacity-mb" \in DOMAIN flags => flags["capacity-mb"] \in -WordMax .. WordMax
  BY ConfigurationAssumption DEF StartInv
<1>4. CapacityMB \in Int /\ Megabyte \in Nat
  BY <1>2, <1>3, ConfigurationAssumption DEF CapacityMB
<1>5. \A n \in Int, m \in Nat : n * m \in Int /\ (n > 0 => n * m >= 0)
  OBVIOUS
<1> QED
  BY <1>4, <1>5

\* The look-ups read the environment and nothing else.
LEMMA SameEnvironment ==
  ASSUME env' = env
  PROVE  Loaded' = Loaded /\ Errors' = Errors
<1>1. /\ \A k : IsGiven(k)' = IsGiven(k)
      /\ \A k : IntVal(k)' = IntVal(k)
      /\ \A k : FloatVal(k)' = FloatVal(k)
      /\ \A k : TypeSet(k)' = TypeSet(k)
      /\ \A k : Duration(k)' = Duration(k)
      /\ Provider' = Provider
      /\ PushURL' = PushURL
  BY DEF IsGiven, IntVal, FloatVal, BadInt, BadFloat, TypeSet, Listed, Duration, Provider, PushURL
<1>2. Loaded' = Loaded
  BY <1>1 DEF Loaded
<1>3. BadTogether' = BadTogether
  BY <1>1 DEF BadTogether
<1>4. /\ \A k : BadInt(k)' = BadInt(k)
      /\ \A k : BadFloat(k)' = BadFloat(k)
      /\ \A k : BadRegex(k)' = BadRegex(k)
      /\ \A k : Listed(k)' = Listed(k)
  BY <1>1 DEF BadInt, BadFloat, BadRegex, IsGiven, Listed
<1>5. Errors' = Errors
  BY <1>3, <1>4 DEF Errors
<1> QED
  BY <1>2, <1>5

LEMMA StartStepKeepsInv ==
  ASSUME StartInv, [StartupNext]_startupVars
  PROVE  StartInv'
<1>1. ASSUME UNCHANGED << env, flags, cfg >>, startup \in {"loaded", "wired", "serving"},
             startup' \in {"loaded", "wired", "serving"} =>
               (startup' \in {"wired", "serving"} =>
                  /\ buffer' \in 1 .. WordMax
                  /\ CapacityMB > 0 /\ buffer' = Wrapped(CapacityMB * Megabyte))
      PROVE  StartInv'
  <2>1. Loaded' = Loaded /\ Errors' = Errors /\ CapacityMB' = CapacityMB
    BY <1>1, SameEnvironment DEF CapacityMB
  <2> QED
    BY <1>1, <2>1 DEF StartInv, HasStarted
<1>2. ASSUME LoadConfig PROVE StartInv'
  <2>1. /\ UNCHANGED << env, flags >> /\ cfg' = Loaded
        /\ startup' = IF Errors = {} THEN "loaded" ELSE "refused"
    BY <1>2 DEF LoadConfig
  <2>2. Loaded' = Loaded /\ Errors' = Errors
    BY <2>1, SameEnvironment
  <2> QED
    BY <2>1, <2>2 DEF StartInv, HasStarted
<1>3. ASSUME OpenBuffer PROVE StartInv'
  <2>1. startup = "loaded" /\ UNCHANGED << env, flags, cfg >>
    BY <1>3 DEF OpenBuffer
  <2>2. CapacityMB * Megabyte \in Int
    BY <2>1, CapacityTyped DEF StartInv
  <2>3. CASE CapacityMB <= 0
    BY <1>1, <1>3, <2>1, <2>3 DEF OpenBuffer
  <2>4. CASE ~ (CapacityMB <= 0)
    <3> DEFINE b == Wrapped(CapacityMB * Megabyte)
    <3>1. buffer' = b /\ startup' = IF b <= 0 THEN "panic" ELSE "wired"
      BY <1>3, <2>4 DEF OpenBuffer
    <3>2. b \in Int /\ b <= WordMax /\ WordMax \in Int
      BY <2>2, WrappedFacts, ConfigurationAssumption
    <3> HIDE DEF b
    <3>3. startup' = "wired" => buffer' \in 1 .. WordMax /\ buffer' = b
      BY <3>1, <3>2
    <3>4. CapacityMB > 0
      <4>1. CapacityMB \in Int
        BY <2>1, CapacityTyped DEF StartInv
      <4> QED
        BY <2>4, <4>1
    <3>5. startup' \in {"panic", "wired"}
      BY <3>1
    <3> QED
      BY <1>1, <2>1, <3>3, <3>4, <3>5 DEF b
  <2> QED
    BY <2>3, <2>4
<1>4. ASSUME Listen PROVE StartInv'
  <2>1. /\ startup = "wired" /\ UNCHANGED << env, flags, cfg, buffer >>
    BY <1>4 DEF Listen
  <2>2. /\ buffer' \in 1 .. WordMax
        /\ CapacityMB > 0 /\ buffer' = Wrapped(CapacityMB * Megabyte)
    BY <2>1 DEF StartInv, HasStarted
  <2> QED
    BY <1>1, <2>1, <2>2
<1>5. ASSUME UNCHANGED startupVars PROVE StartInv'
  <2>1. UNCHANGED << env, flags, cfg, buffer, startup >>
    BY <1>5 DEF startupVars
  <2>2. Loaded' = Loaded /\ Errors' = Errors /\ CapacityMB' = CapacityMB
    BY <2>1, SameEnvironment DEF CapacityMB
  <2> QED
    BY <2>1, <2>2 DEF StartInv, HasStarted
<1> QED
  BY <1>2, <1>3, <1>4, <1>5 DEF StartupNext

\* The invariant of a start-up: what main runs with is what Load made of this
\* environment, and Load found no error in it.
THEOREM StartInvariance == StartupSpec => []StartInv
<1>1. StartupInit => StartInv
  BY DEF StartupInit, StartInv, HasStarted
<1>2. StartInv /\ [StartupNext]_startupVars => StartInv'
  BY StartStepKeepsInv
<1> QED
  BY <1>1, <1>2, PTL DEF StartupSpec

LEMMA InvStartsSound ==
  ASSUME StartInv
  PROVE  StartsSound
<1>1. ASSUME StartInv, HasStarted
      PROVE  /\ buffer \in 1 .. WordMax
             /\ cfg.ints["SEKHA_DRAIN_MAX_DEFAULT"] \in 1 .. cfg.ints["SEKHA_DRAIN_MAX_LIMIT"]
             /\ cfg.durations["SEKHA_PUSH_INTERVAL_MS"] <= cfg.durations["SEKHA_PUSH_MAX_BACKOFF_MS"]
             /\ \A k \in DurationKeys :
                  Fits(k) => cfg.durations[k] \in IntTable[k].min * IntTable[k].unit .. WordMax
             /\ \A k \in PlainKeys : cfg.ints[k] \in IntTable[k].min .. WordMax
             /\ \A k \in FloatKeys :
                  cfg.floats[k] \in FloatTable[k].min .. FloatTable[k].max \cup {NaN}
             /\ \A k \in TypeKeys : cfg.types[k] \subseteq Types
             /\ cfg.provider = "openai" \/ cfg.provider = "none"
             /\ cfg.pushURL = "" \/ cfg.pushURL = "http url"
  <2>1. /\ env \in Environments /\ cfg = Loaded /\ Errors = {} /\ buffer \in 1 .. WordMax
    BY <1>1 DEF StartInv, HasStarted
  <2>2. /\ \A k \in PlainKeys : cfg.ints[k] = IntVal(k)
        /\ \A k \in DurationKeys : cfg.durations[k] = Duration(k)
        /\ \A k \in FloatKeys : cfg.floats[k] = FloatVal(k)
        /\ \A k \in TypeKeys : cfg.types[k] = TypeSet(k)
        /\ cfg.provider = Provider /\ cfg.pushURL = PushURL
    BY <2>1 DEF Loaded
  <2>3. DurationKeys \subseteq IntKeys /\ PlainKeys \subseteq IntKeys
    BY DEF PlainKeys, DurationKeys, IntKeys, IntTable
  <2>4. cfg.ints["SEKHA_DRAIN_MAX_DEFAULT"] \in 1 .. cfg.ints["SEKHA_DRAIN_MAX_LIMIT"]
    <3> DEFINE d == IntVal("SEKHA_DRAIN_MAX_DEFAULT")
               l == IntVal("SEKHA_DRAIN_MAX_LIMIT")
    <3>1. /\ "SEKHA_DRAIN_MAX_DEFAULT" \in IntKeys /\ "SEKHA_DRAIN_MAX_LIMIT" \in IntKeys
          /\ "SEKHA_DRAIN_MAX_DEFAULT" \in PlainKeys /\ "SEKHA_DRAIN_MAX_LIMIT" \in PlainKeys
          /\ IntTable["SEKHA_DRAIN_MAX_DEFAULT"].min = 1
      BY DEF PlainKeys, DurationKeys, IntKeys, IntTable, IntKey
    <3>2. d \in 1 .. WordMax /\ d \in Nat /\ l \in Nat
      BY <2>1, <3>1, IntVals
    <3>3. ~ (d > l)
      BY <2>1, NoErrors
    <3> HIDE DEF d, l
    <3>4. d \in 1 .. l
      BY <3>2, <3>3
    <3> QED
      BY <2>2, <3>1, <3>4 DEF d, l
  <2>5. cfg.durations["SEKHA_PUSH_INTERVAL_MS"] <= cfg.durations["SEKHA_PUSH_MAX_BACKOFF_MS"]
    <3> DEFINE i == Duration("SEKHA_PUSH_INTERVAL_MS")
               b == Duration("SEKHA_PUSH_MAX_BACKOFF_MS")
    <3>1. "SEKHA_PUSH_INTERVAL_MS" \in DurationKeys /\ "SEKHA_PUSH_MAX_BACKOFF_MS" \in DurationKeys
      BY DEF DurationKeys
    <3>2. i \in Int /\ b \in Int
      BY <2>1, <2>3, <3>1, Durations
    <3>3. ~ (b < i)
      BY <2>1, NoErrors
    <3> HIDE DEF i, b
    <3>4. i <= b
      BY <3>2, <3>3
    <3> QED
      BY <2>2, <3>1, <3>4 DEF i, b
  <2>6. ASSUME NEW k \in DurationKeys, Fits(k)
        PROVE  cfg.durations[k] \in IntTable[k].min * IntTable[k].unit .. WordMax
    <3>1. k \in IntKeys
      BY <2>3
    <3> QED
      BY <2>1, <2>2, <2>6, <3>1, Durations
  <2>7. \A k \in PlainKeys : cfg.ints[k] \in IntTable[k].min .. WordMax
    BY <2>1, <2>2, <2>3, IntVals
  <2>8. \A k \in FloatKeys : cfg.floats[k] \in FloatTable[k].min .. FloatTable[k].max \cup {NaN}
    BY <2>1, <2>2, FloatVals
  <2>9. \A k \in TypeKeys : cfg.types[k] \subseteq Types
    BY <2>2 DEF TypeSet
  <2>10. cfg.provider = "openai" \/ cfg.provider = "none"
    BY <2>1, <2>2, NoErrors
  <2>11. cfg.pushURL = "" \/ cfg.pushURL = "http url"
    BY <2>1, <2>2, NoErrors DEF PushURL
  <2> QED
    BY <2>1, <2>4, <2>5, <2>6, <2>7, <2>8, <2>9, <2>10, <2>11
<1> QED
  BY <1>1, Zenon DEF StartsSound

\* Every process that gets as far as its buffer meets the assumptions of the
\* other modules.
THEOREM StartsAlwaysSound == StartupSpec => []StartsSound
  BY InvStartsSound, StartInvariance, PTL

LEMMA InvRunsAsWritten ==
  ASSUME StartInv
  PROVE  RunsAsWritten
<1>1. ASSUME StartInv, HasStarted
      PROVE  /\ \A k \in PlainKeys : IsGiven(k) => cfg.ints[k] = env[k].n
             /\ \A k \in DurationKeys :
                  IsGiven(k) /\ Fits(k) => cfg.durations[k] = env[k].n * IntTable[k].unit
             /\ CapacityMB * Megabyte <= WordMax => buffer = CapacityMB * Megabyte
             /\ \A k \in FloatKeys :
                  IsGiven(k) =>
                    cfg.floats[k] = IF env[k].kind = "nan" THEN NaN ELSE Float(env[k])
             /\ \A k \in TypeKeys \cap DOMAIN env :
                  cfg.types[k] = IF env[k].kind = "types" THEN env[k].types ELSE {}
             /\ IsGiven("SEKHA_PUSH_URL") <=> cfg.pushURL # ""
  <2>1. /\ env \in Environments /\ cfg = Loaded /\ Errors = {}
        /\ CapacityMB > 0 /\ buffer = Wrapped(CapacityMB * Megabyte)
    BY <1>1 DEF StartInv, HasStarted
  <2>2. /\ \A k \in PlainKeys : cfg.ints[k] = IntVal(k)
        /\ \A k \in DurationKeys : cfg.durations[k] = Duration(k)
        /\ \A k \in FloatKeys : cfg.floats[k] = FloatVal(k)
        /\ \A k \in TypeKeys : cfg.types[k] = TypeSet(k)
        /\ cfg.pushURL = PushURL
    BY <2>1 DEF Loaded
  <2>3. \A k \in IntKeys : IsGiven(k) => IntVal(k) = env[k].n
    BY <2>1, NoErrors, IntVals
  <2>4. DurationKeys \subseteq IntKeys /\ PlainKeys \subseteq IntKeys
    BY DEF PlainKeys, DurationKeys, IntKeys, IntTable
  <2>5. \A k \in PlainKeys : IsGiven(k) => cfg.ints[k] = env[k].n
    BY <2>2, <2>3, <2>4
  <2>6. ASSUME NEW k \in DurationKeys, IsGiven(k), Fits(k)
        PROVE  cfg.durations[k] = env[k].n * IntTable[k].unit
    <3>1. Duration(k) = IntVal(k) * IntTable[k].unit
      BY <2>1, <2>4, <2>6, Durations
    <3> QED
      BY <2>2, <2>3, <2>4, <2>6, <3>1
  <2>7. ASSUME CapacityMB * Megabyte <= WordMax
        PROVE  buffer = CapacityMB * Megabyte
    <3> DEFINE c == CapacityMB * Megabyte
    <3>1. c \in Int /\ c >= 0 /\ c <= WordMax /\ WordMax \in Nat
      BY <1>1, <2>1, <2>7, CapacityTyped, ConfigurationAssumption
    <3> HIDE DEF c
    <3>2. Wrapped(c) = c
      BY <3>1, WrappedFacts
    <3> QED
      BY <2>1, <3>2 DEF c
  <2>8. ASSUME NEW k \in FloatKeys, IsGiven(k)
        PROVE  cfg.floats[k] = IF env[k].kind = "nan" THEN NaN ELSE Float(env[k])
    <3>1. cfg.floats[k] = Float(env[k])
      BY <2>1, <2>2, <2>8, NoErrors, FloatVals
    <3>2. env[k].kind = "nan" => Float(env[k]) = NaN
      BY DEF Float
    <3> QED
      BY <3>1, <3>2
  <2>9. ASSUME NEW k \in TypeKeys \cap DOMAIN env
        PROVE  cfg.types[k] = IF env[k].kind = "types" THEN env[k].types ELSE {}
    BY <2>1, <2>2, NoErrors, TypeSets
  <2>10. IsGiven("SEKHA_PUSH_URL") <=> cfg.pushURL # ""
    BY <2>1, <2>2, NoErrors DEF PushURL
  <2> QED
    BY <2>5, <2>6, <2>7, <2>8, <2>9, <2>10
<1> QED
  BY <1>1 DEF RunsAsWritten

\* Every process that gets as far as its buffer runs with the values it was given,
\* but for a product that is no word and for NaN.
THEOREM AlwaysRunsAsWritten == StartupSpec => []RunsAsWritten
  BY InvRunsAsWritten, StartInvariance, PTL

-----------------------------------------------------------------------------
(* The splitter *)

\* No byte of a rune is alone, but for the first ones.
RunesInside(s) ==
  /\ \A i \in 2 .. Len(s) : s[i] = "c" => s[i - 1] \in {"r", "c"}
  /\ \A i \in 1 .. Len(s) - 3 : \E j \in i .. i + 3 : s[j] # "c"

\* What remains has no space at its ends, and begins with a whole rune.
SplitInv ==
  /\ maxBytes \in Nat \ {0} /\ text \in Seq(Bytes) /\ remaining \in Seq(Bytes)
  /\ chunks \in Seq(Seq(Bytes))
  /\ remaining # << >> => remaining[1] \notin Spaces /\ remaining[Len(remaining)] \notin Spaces
  /\ WholeRunes(text) => /\ RunesInside(remaining)
                         /\ maxBytes >= 4 /\ remaining # << >> => remaining[1] # "c"
  /\ PiecesSound

\* Outside its stage the splitter has nothing to do.
CutInv == IF stage = "split" THEN SplitInv ELSE done = TRUE /\ chunks = << >>

LEMMA BeforeLastFacts ==
  ASSUME maxBytes \in Nat \ {0}, NEW kinds
  PROVE  /\ BeforeLast(kinds) \in 0 .. maxBytes - 1
         /\ BeforeLast(kinds) > 0 => remaining[BeforeLast(kinds) + 1] \in kinds
         /\ BeforeLast(kinds) = 0 => \A i \in 2 .. maxBytes : remaining[i] \notin kinds
<1> DEFINE S == {0} \cup {i \in 0 .. maxBytes - 1 : remaining[i + 1] \in kinds}
<1>1. maxBytes - 1 \in Nat /\ S \in SUBSET (0 .. maxBytes - 1) /\ S # {}
  OBVIOUS
<1>2. BeforeLast(kinds) = Max(S)
  BY Zenon DEF BeforeLast
<1>3. BeforeLast(kinds) \in S /\ \A x \in S : x <= BeforeLast(kinds)
  <2> HIDE DEF S
  <2> QED BY <1>1, <1>2, LargestExists
<1>4. ASSUME BeforeLast(kinds) = 0, NEW i \in 2 .. maxBytes, remaining[i] \in kinds PROVE FALSE
  <2>1. i - 1 \in 0 .. maxBytes - 1 /\ (i - 1) + 1 = i /\ ~ (i - 1 <= 0)
    OBVIOUS
  <2>2. i - 1 \in S
    BY <1>4, <2>1
  <2> QED
    BY <1>3, <1>4, <2>1, <2>2
<1> QED
  BY <1>3, <1>4

LEMMA SentenceEndFacts ==
  ASSUME maxBytes \in Nat \ {0}
  PROVE  /\ SentenceEnd \in 0 .. maxBytes - 1
         /\ SentenceEnd > 0 => remaining[SentenceEnd + 1] = " "
<1> DEFINE Ended(i) == remaining[i] = "." /\ remaining[i + 1] = " "
           S == {0} \cup {i \in 1 .. maxBytes - 1 : Ended(i)}
<1>1. SentenceEnd = Max(S)
  BY Zenon DEF SentenceEnd
<1>2. \A i : Ended(i) => remaining[i + 1] = " "
  OBVIOUS
<1> HIDE DEF Ends
<1>3. maxBytes - 1 \in Nat /\ S \in SUBSET (0 .. maxBytes - 1) /\ S # {}
  <2>1. 1 .. maxBytes - 1 \in SUBSET (0 .. maxBytes - 1) /\ 0 \in 0 .. maxBytes - 1
    OBVIOUS
  <2>2. maxBytes - 1 \in Nat
    OBVIOUS
  <2> QED
    BY <2>1, <2>2, Zenon
<1>4. SentenceEnd \in S
  <2> HIDE DEF S
  <2> QED BY <1>1, <1>3, LargestExists
<1>5. SentenceEnd \in 0 .. maxBytes - 1 /\ (SentenceEnd > 0 => Ended(SentenceEnd))
  <2>1. SentenceEnd = 0 \/ Ended(SentenceEnd)
    BY <1>4, Zenon
  <2>2. SentenceEnd \in 0 .. maxBytes - 1
    BY <1>3, <1>4, Zenon
  <2>3. SentenceEnd > 0 => SentenceEnd # 0
    BY <2>2
  <2> QED
    BY <2>1, <2>2, <2>3, Zenon
<1> QED
  BY <1>2, <1>5

LEMMA LookAheadFacts ==
  ASSUME maxBytes \in Nat \ {0}, Len(remaining) \in Nat
  PROVE  /\ LookAhead \in 0 .. maxBytes + maxBytes \div 5
         /\ LookAhead > 0 =>
              /\ LookAhead < Len(remaining) /\ remaining[LookAhead + 1] \in Spaces
              /\ LookAhead < maxBytes + maxBytes \div 5
              /\ \A i \in maxBytes + 1 .. LookAhead : remaining[i] \notin Spaces
<1> DEFINE limit == maxBytes + maxBytes \div 5
           last == IF limit < Len(remaining) THEN limit ELSE Len(remaining)
           found == {i \in maxBytes .. last - 1 : remaining[i + 1] \in Spaces}
<1>1. limit \in Nat /\ maxBytes \div 5 \in Nat
  OBVIOUS
<1>2. LookAhead = IF found = {} THEN 0 ELSE Min(found)
  BY Zenon DEF LookAhead
<1> HIDE DEF limit
<1>3. /\ found \in SUBSET Nat
      /\ \A i \in found : /\ i \in 0 .. limit /\ i < limit /\ i < Len(remaining)
                           /\ i <= last - 1 /\ remaining[i + 1] \in Spaces
  BY <1>1
<1>4. CASE found = {}
  BY <1>1, <1>2, <1>4 DEF limit
<1>5. CASE found # {}
  <2>1. LookAhead \in found /\ \A x \in found : LookAhead <= x
    <3> HIDE DEF found
    <3> QED
      BY <1>2, <1>3, <1>5, SmallestExists
  <2>2. LookAhead \in Nat /\ LookAhead <= last - 1
    BY <1>3, <2>1
  <2>3. last \in Nat
    BY <1>1
  <2>4. ASSUME NEW i \in maxBytes + 1 .. LookAhead, remaining[i] \in Spaces PROVE FALSE
    <3> HIDE DEF last
    <3>1. i - 1 \in maxBytes .. last - 1 /\ (i - 1) + 1 = i /\ ~ (LookAhead <= i - 1)
      BY <2>2, <2>3
    <3>2. i - 1 \in found
      BY <2>4, <3>1
    <3> QED
      BY <2>1, <3>1, <3>2
  <2> HIDE DEF found, last
  <2> QED
    BY <1>3, <2>1, <2>4 DEF limit
<1> QED
  BY <1>4, <1>5

LEMMA HardCutFacts ==
  ASSUME maxBytes \in Nat \ {0}
  PROVE  /\ HardCut \in 1 .. maxBytes
         /\ \/ remaining[HardCut + 1] # "c"
            \/ \A i \in 1 .. maxBytes : remaining[i + 1] = "c"
<1> DEFINE starts == {i \in 1 .. maxBytes : remaining[i + 1] # "c"}
<1>1. HardCut = IF starts = {} THEN maxBytes ELSE Max(starts)
  BY Zenon DEF HardCut
<1>2. starts \in SUBSET (0 .. maxBytes)
  OBVIOUS
<1>3. CASE starts = {}
  <2>1. \A i \in 1 .. maxBytes : i \notin starts
    BY <1>3
  <2>2. HardCut = maxBytes
    BY <1>1, <1>3
  <2> QED
    BY <2>1, <2>2
<1>4. CASE starts # {}
  <2>1. HardCut \in starts
    <3> HIDE DEF starts
    <3> QED BY <1>1, <1>2, <1>4, LargestExists
  <2> QED
    BY <2>1
<1> QED
  BY <1>3, <1>4

\* What a cut behind m bytes that are more than the limit says of them, from the
\* byte numbered from on.
OneWord(from, m) ==
  m > maxBytes => /\ m < maxBytes + maxBytes \div 5
                  /\ \A i \in from .. m : remaining[i] \notin Spaces
                  /\ \A i \in 2 .. maxBytes : remaining[i] # ","

\* The cut is inside the text and between runes, unless there is a rune that is
\* longer than the limit; a cut past the limit is at the end of a word.
LEMMA CutFacts ==
  ASSUME maxBytes \in Nat \ {0}, Len(remaining) \in Nat, Len(remaining) > maxBytes
  PROVE  /\ CutAt \in 1 .. maxBytes + maxBytes \div 5
         /\ CutAt < Len(remaining)
         /\ \/ remaining[CutAt + 1] # "c"
            \/ \A i \in 1 .. maxBytes : remaining[i + 1] = "c"
         /\ OneWord(2, CutAt)
<1> DEFINE rules == << BeforeLast({"n"}), SentenceEnd, BeforeLast({" "}), BeforeLast({","}),
                       LookAhead, HardCut >>
           found == {i \in 1 .. 6 : rules[i] > 0} \cup {6}
           limit == maxBytes + maxBytes \div 5
           Good(k) == /\ k \in 0 .. limit
                      /\ k > 0 => /\ k < Len(remaining)
                                  /\ \/ remaining[k + 1] # "c"
                                     \/ \A i \in 1 .. maxBytes : remaining[i + 1] = "c"
<1>1. CutAt = rules[Min(found)]
  BY Zenon DEF CutAt
<1>2. limit \in Nat /\ maxBytes <= limit
  OBVIOUS
<1>3. ASSUME NEW kinds, "c" \notin kinds PROVE Good(BeforeLast(kinds))
  <2> HIDE DEF limit
  <2> QED BY <1>2, <1>3, BeforeLastFacts
<1>4. Good(SentenceEnd)
  <2> HIDE DEF limit
  <2>1. " " # "c"
    OBVIOUS
  <2>2. SentenceEnd \in 0 .. maxBytes - 1 /\ (SentenceEnd > 0 => remaining[SentenceEnd + 1] = " ")
    BY SentenceEndFacts
  <2>3. SentenceEnd \in 0 .. limit /\ SentenceEnd < Len(remaining)
    <3> DEFINE e == SentenceEnd
    <3>1. e \in 0 .. maxBytes - 1
      BY <2>2
    <3> HIDE DEF e
    <3>2. e \in 0 .. limit /\ e < Len(remaining)
      BY <1>2, <3>1
    <3> QED
      BY <3>2 DEF e
  <2> QED
    BY <2>1, <2>2, <2>3
<1>5. Good(LookAhead)
  BY LookAheadFacts DEF Spaces
<1>6. Good(HardCut) /\ HardCut > 0
  <2> HIDE DEF limit
  <2> QED BY <1>2, HardCutFacts
<1>7. /\ rules[1] = BeforeLast({"n"}) /\ rules[2] = SentenceEnd /\ rules[3] = BeforeLast({" "})
      /\ rules[4] = BeforeLast({","}) /\ rules[5] = LookAhead /\ rules[6] = HardCut
  OBVIOUS
<1>8. Good(BeforeLast({"n"})) /\ Good(BeforeLast({" "})) /\ Good(BeforeLast({","}))
  <2> HIDE DEF Good
  <2> QED BY <1>3
<1> HIDE DEF rules
<1>9. \A i \in 1 .. 6 : Good(rules[i])
  <2> HIDE DEF Good
  <2>1. ASSUME NEW i \in 1 .. 6 PROVE Good(rules[i])
    <3>1. i = 1 \/ i = 2 \/ i = 3 \/ i = 4 \/ i = 5 \/ i = 6
      OBVIOUS
    <3> QED
      BY <1>4, <1>5, <1>6, <1>7, <1>8, <3>1
  <2> QED
    BY <2>1
<1>10. Min(found) \in found
  <2>1. found \in SUBSET Nat /\ found # {}
    OBVIOUS
  <2> HIDE DEF found
  <2> QED
    BY <2>1, SmallestExists
<1> DEFINE m == Min(found)
<1>11. m \in found /\ \A i \in found : m <= i
  <2>1. found \in SUBSET Nat /\ found # {}
    OBVIOUS
  <2> HIDE DEF found
  <2> QED
    BY <2>1, SmallestExists
<1> HIDE DEF m
<1>12. m \in 1 .. 6 /\ rules[m] > 0
  <2>1. m = 6 \/ m \in {i \in 1 .. 6 : rules[i] > 0}
    BY <1>11, Zenon
  <2>2. rules[6] > 0
    BY <1>6, <1>7
  <2> QED
    BY <2>1, <2>2
<1>13. CutAt = rules[m]
  BY <1>1 DEF m
<1>14. Good(CutAt) /\ CutAt > 0
  <2> HIDE DEF Good, found
  <2> QED BY <1>9, <1>12, <1>13
<1>15. ASSUME CutAt > maxBytes
       PROVE  /\ CutAt < maxBytes + maxBytes \div 5
              /\ \A i \in 2 .. CutAt : remaining[i] \notin Spaces
              /\ \A i \in 2 .. maxBytes : remaining[i] # ","
  <2> HIDE DEF limit, found
  <2>1. \A i \in {1, 2, 3, 4, 6} : rules[i] \in 0 .. maxBytes
    <3>1. \A kinds : BeforeLast(kinds) \in 0 .. maxBytes - 1
      BY BeforeLastFacts, Zenon
    <3>2. SentenceEnd \in 0 .. maxBytes - 1 /\ HardCut \in 1 .. maxBytes
      BY SentenceEndFacts, HardCutFacts, Zenon
    <3>3. \A x : x \in 0 .. maxBytes - 1 \/ x \in 1 .. maxBytes => x \in 0 .. maxBytes
      OBVIOUS
    <3>4. rules[1] \in 0 .. maxBytes /\ rules[2] \in 0 .. maxBytes /\ rules[3] \in 0 .. maxBytes
          /\ rules[4] \in 0 .. maxBytes /\ rules[6] \in 0 .. maxBytes
      BY <1>7, <3>1, <3>2, <3>3, Zenon
    <3> QED
      BY <3>4, Zenon
  <2>2. m = 5
    <3>1. m \notin {1, 2, 3, 4, 6}
      BY <1>13, <1>15, <2>1
    <3> QED
      BY <1>12, <3>1
  <2>3. CutAt = LookAhead /\ LookAhead > 0
    BY <1>7, <1>12, <1>13, <2>2
  <2>4. ~ (rules[1] > 0) /\ ~ (rules[3] > 0) /\ ~ (rules[4] > 0)
    <3>1. 1 \notin found /\ 3 \notin found /\ 4 \notin found
      BY <1>11, <2>2
    <3> QED
      BY <3>1 DEF found
  <2>5. BeforeLast({"n"}) = 0 /\ BeforeLast({" "}) = 0 /\ BeforeLast({","}) = 0
    <3>1. \A x : x \in 0 .. maxBytes /\ ~ (x > 0) => x = 0
      OBVIOUS
    <3>2. rules[1] = 0 /\ rules[3] = 0 /\ rules[4] = 0
      BY <2>1, <2>4, <3>1, Zenon
    <3> QED
      BY <1>7, <3>2, Zenon
  <2>6. \A i \in 2 .. maxBytes : /\ remaining[i] \notin {"n"} /\ remaining[i] \notin {" "}
                                 /\ remaining[i] \notin {","}
    BY <2>5, BeforeLastFacts, Zenon
  <2>7. LookAhead \in Nat
    <3>1. LookAhead \in 0 .. limit
      BY LookAheadFacts DEF limit
    <3> QED
      BY <1>2, <3>1
  <2>8. ASSUME NEW i \in 2 .. CutAt PROVE remaining[i] \notin Spaces
    <3>1. i \in 2 .. maxBytes \/ i \in maxBytes + 1 .. CutAt
      BY <2>3, <2>7
    <3>2. CASE i \in 2 .. maxBytes
      BY <2>6, <3>2, Zenon DEF Spaces
    <3>3. CASE i \in maxBytes + 1 .. CutAt
      BY <2>3, <3>3, LookAheadFacts, Zenon
    <3> QED
      BY <3>1, <3>2, <3>3
  <2>9. CutAt < maxBytes + maxBytes \div 5
    BY <2>3, LookAheadFacts, Zenon
  <2>10. \A i \in 2 .. maxBytes : remaining[i] # ","
    BY <2>6, Zenon
  <2> QED
    BY <2>8, <2>9, <2>10
<1>16. OneWord(2, CutAt)
  BY <1>15, Zenon DEF OneWord
<1>17. /\ CutAt \in 1 .. limit
       /\ CutAt < Len(remaining)
       /\ remaining[CutAt + 1] # "c" \/ \A i \in 1 .. maxBytes : remaining[i + 1] = "c"
  <2> HIDE DEF found, limit
  <2> QED
    BY <1>2, <1>14
<1> QED
  BY <1>16, <1>17

\* Bytes a to b are what is left when the spaces at both ends are gone.
Trimmed(s, a, b) ==
  /\ s[a] \notin Spaces /\ s[b] \notin Spaces
  /\ \A i \in 1 .. Len(s) : i < a \/ i > b => s[i] \in Spaces
  /\ TrimSpace(s) = SubSeq(s, a, b)

\* Trimming leaves the stretch from the first byte that is no space to the last.
LEMMA TrimFacts ==
  ASSUME NEW s \in Seq(Bytes), NEW k \in 1 .. Len(s), s[k] \notin Spaces
  PROVE  \E a, b \in 1 .. Len(s) : a <= k /\ k <= b /\ Trimmed(s, a, b)
<1> DEFINE n == Len(s)
           solid == {i \in 1 .. n : s[i] \notin Spaces}
           a == Min(solid)
           b == Max(solid)
<1>1. n \in Nat /\ k \in solid /\ solid \in SUBSET (0 .. n) /\ solid \in SUBSET Nat
  OBVIOUS
<1>2. TrimSpace(s) = SubSeq(s, a, b)
  BY <1>1, Zenon DEF TrimSpace
<1>3. /\ a \in solid /\ \A x \in solid : a <= x
      /\ b \in solid /\ \A x \in solid : x <= b
  <2> HIDE DEF n, solid
  <2> QED
    BY <1>1, SmallestExists, LargestExists
<1> HIDE DEF a, b
<1>4. a \in 1 .. n /\ b \in 1 .. n /\ s[a] \notin Spaces /\ s[b] \notin Spaces /\ a <= k /\ k <= b
  BY <1>1, <1>3
<1>5. \A i \in 1 .. n : i < a \/ i > b => s[i] \in Spaces
  BY <1>3, <1>4
<1>6. Trimmed(s, a, b)
  BY <1>2, <1>4, <1>5 DEF Trimmed
<1> QED
  BY <1>4, <1>6

\* A cut takes a piece from the front and leaves the rest, with spaces between.
LEMMA SplitOnceFacts ==
  ASSUME SplitInv, SplitOnce
  PROVE  \E m, q \in 1 .. Len(remaining) :
           /\ m < q
           /\ OneWord(1, m)
           /\ chunks' = Append(chunks, SubSeq(remaining, 1, m))
           /\ remaining' = SubSeq(remaining, q, Len(remaining))
           /\ remaining[m] \notin Spaces /\ remaining[q] \notin Spaces
           /\ \A i \in m + 1 .. q - 1 : remaining[i] \in Spaces
           /\ remaining[q] = "c" => \/ remaining[q - 1] \in Spaces
                                    \/ \A i \in 1 .. maxBytes : remaining[i + 1] = "c"
<1> DEFINE n == Len(remaining)
           cut == CutAt
           front == SubSeq(remaining, 1, cut)
           back == SubSeq(remaining, cut + 1, n)
<1>1. /\ maxBytes \in Nat \ {0} /\ remaining \in Seq(Bytes) /\ n \in Nat /\ n > maxBytes
      /\ remaining[1] \notin Spaces /\ remaining[n] \notin Spaces
  BY DEF SplitInv, SplitOnce
<1>2. /\ cut \in 1 .. maxBytes + maxBytes \div 5
      /\ cut < n
      /\ remaining[cut + 1] # "c" \/ \A i \in 1 .. maxBytes : remaining[i + 1] = "c"
      /\ OneWord(2, cut)
  BY <1>1, CutFacts
<1>3. chunks' = WithPiece(TrimSpace(front)) /\ remaining' = TrimSpace(back)
  BY Zenon DEF SplitOnce, Rest
<1> HIDE DEF cut
<1>4. /\ front \in Seq(Bytes) /\ Len(front) = cut /\ \A i \in 1 .. cut : front[i] = remaining[i]
      /\ back \in Seq(Bytes) /\ Len(back) = n - cut
      /\ \A i \in 1 .. n - cut : back[i] = remaining[cut + i]
  BY <1>1, <1>2
<1>5. PICK a, m \in 1 .. cut : a <= 1 /\ Trimmed(front, a, m)
  <2>1. 1 \in 1 .. Len(front) /\ front[1] \notin Spaces
    BY <1>1, <1>2, <1>4
  <2> HIDE DEF front
  <2>2. \E a, m \in 1 .. Len(front) : a <= 1 /\ 1 <= m /\ Trimmed(front, a, m)
    BY <1>4, <2>1, TrimFacts
  <2> QED
    BY <1>4, <2>2
<1>6. PICK p, b \in 1 .. n - cut : b >= n - cut /\ Trimmed(back, p, b)
  <2>1. n - cut \in 1 .. Len(back) /\ back[n - cut] \notin Spaces
    BY <1>1, <1>2, <1>4
  <2> HIDE DEF back
  <2>2. \E p, b \in 1 .. Len(back) : p <= n - cut /\ n - cut <= b /\ Trimmed(back, p, b)
    BY <1>4, <2>1, TrimFacts
  <2> QED
    BY <1>1, <1>2, <1>4, <2>2
<1> DEFINE q == cut + p
<1>7. a = 1 /\ b = n - cut /\ q \in cut + 1 .. n /\ m <= cut /\ cut \in Nat
  BY <1>1, <1>2, <1>5, <1>6
<1>8. TrimSpace(front) = SubSeq(remaining, 1, m) /\ TrimSpace(front) # << >>
  <2>1. SubSeq(SubSeq(remaining, 1, cut), 1, m) = SubSeq(remaining, 1 + 1 - 1, 1 + m - 1)
    BY <1>1, <1>2, <1>7, StretchOfStretch
  <2>2. TrimSpace(front) = SubSeq(remaining, 1, m)
    BY <1>5, <1>7, <2>1 DEF Trimmed
  <2>3. Len(SubSeq(remaining, 1, m)) = m
    BY <1>1, <1>2, <1>7
  <2> QED
    BY <2>2, <2>3
<1>9. TrimSpace(back) = SubSeq(remaining, q, n)
  <2>1. SubSeq(SubSeq(remaining, cut + 1, n), p, n - cut)
          = SubSeq(remaining, (cut + 1) + p - 1, (cut + 1) + (n - cut) - 1)
    BY <1>1, <1>2, <1>7, StretchOfStretch
  <2>2. (cut + 1) + p - 1 = q /\ (cut + 1) + (n - cut) - 1 = n
    BY <1>1, <1>7
  <2> QED
    BY <1>6, <1>7, <2>1, <2>2 DEF Trimmed
<1>10. remaining[m] \notin Spaces /\ remaining[q] \notin Spaces
  BY <1>4, <1>5, <1>6 DEF Trimmed
<1>11. ASSUME NEW i \in m + 1 .. q - 1 PROVE remaining[i] \in Spaces
  <2>1. CASE i <= cut
    <3>1. i \in 1 .. cut /\ i > m
      BY <1>7, <2>1
    <3> QED
      BY <1>4, <1>5, <3>1 DEF Trimmed
  <2>2. CASE i > cut
    <3>1. i - cut \in 1 .. n - cut /\ i - cut < p /\ cut + (i - cut) = i
      BY <1>1, <1>7, <2>2
    <3>2. back[i - cut] \in Spaces
      BY <1>4, <1>6, <3>1 DEF Trimmed
    <3> QED
      BY <1>4, <3>1, <3>2
  <2> QED
    BY <1>7, <2>1, <2>2
<1>12. ASSUME remaining[q] = "c"
       PROVE  remaining[q - 1] \in Spaces \/ \A i \in 1 .. maxBytes : remaining[i + 1] = "c"
  <2>1. CASE q = cut + 1
    BY <1>2, <1>12, <2>1
  <2>2. CASE q # cut + 1
    <3>1. q - 1 \in m + 1 .. q - 1
      BY <1>7, <2>2
    <3> QED
      BY <1>11, <3>1
  <2> QED
    BY <2>1, <2>2
<1>13. /\ chunks' = Append(chunks, SubSeq(remaining, 1, m))
       /\ remaining' = SubSeq(remaining, q, n)
  BY <1>3, <1>8, <1>9, Zenon DEF WithPiece
<1>14. m \in 1 .. n /\ q \in 1 .. n /\ m < q
  BY <1>1, <1>2, <1>7
<1>15. OneWord(1, m)
  <2>1. ASSUME m > maxBytes
        PROVE  /\ m < maxBytes + maxBytes \div 5
               /\ \A i \in 1 .. m : remaining[i] \notin Spaces
               /\ \A i \in 2 .. maxBytes : remaining[i] # ","
    <3>1. cut > maxBytes /\ m \in Nat
      BY <1>1, <1>7, <1>14, <2>1
    <3>2. /\ cut < maxBytes + maxBytes \div 5
          /\ \A i \in 2 .. cut : remaining[i] \notin Spaces
          /\ \A i \in 2 .. maxBytes : remaining[i] # ","
      BY <1>2, <3>1, Zenon DEF OneWord
    <3>3. m < maxBytes + maxBytes \div 5
      <4> DEFINE limit == maxBytes + maxBytes \div 5
      <4>1. limit \in Nat
        BY <1>1
      <4>2. cut < limit
        BY <3>2, Zenon
      <4> HIDE DEF limit
      <4>3. m < limit
        BY <1>7, <3>1, <4>1, <4>2
      <4> QED
        BY <4>3, Zenon DEF limit
    <3>4. ASSUME NEW i \in 1 .. m PROVE remaining[i] \notin Spaces
      <4>1. i = 1 \/ i \in 2 .. cut
        BY <1>7, <3>1
      <4> QED
        BY <1>1, <3>2, <4>1, Zenon
    <3> QED
      BY <3>2, <3>3, <3>4, Zenon
  <2> QED
    BY <2>1, Zenon DEF OneWord
<1> HIDE DEF q, n
<1> QED
  BY <1>10, <1>11, <1>12, <1>13, <1>14, <1>15 DEF n

\* What a rest keeps of what it is the end of.
LEMMA RestKeepsRunes ==
  ASSUME NEW s \in Seq(Bytes), NEW q \in 1 .. Len(s), RunesInside(s)
  PROVE  RunesInside(SubSeq(s, q, Len(s)))
<1> DEFINE n == Len(s)
           r == SubSeq(s, q, n)
           m == n - q + 1
<1>1. n \in Nat /\ m \in Nat /\ q \in Nat /\ q > 0 /\ q <= n
  OBVIOUS
<1>2. Len(r) = m /\ \A i \in 1 .. m : r[i] = s[q + i - 1]
  OBVIOUS
<1> HIDE DEF r
<1>3. ASSUME NEW i \in 2 .. m, r[i] = "c" PROVE r[i - 1] \in {"r", "c"}
  <2>1. /\ i \in 1 .. m /\ i - 1 \in 1 .. m /\ q + i - 1 \in 2 .. n
        /\ q + (i - 1) - 1 = (q + i - 1) - 1
    BY <1>1
  <2>2. r[i] = s[q + i - 1] /\ r[i - 1] = s[(q + i - 1) - 1]
    BY <1>2, <2>1
  <2> QED
    BY <1>3, <2>1, <2>2 DEF RunesInside
<1>4. ASSUME NEW i \in 1 .. m - 3 PROVE \E j \in i .. i + 3 : r[j] # "c"
  <2>1. q + i - 1 \in 1 .. n - 3
    BY <1>1
  <2>2. PICK k \in q + i - 1 .. q + i - 1 + 3 : s[k] # "c"
    BY <2>1 DEF RunesInside
  <2>3. k - q + 1 \in i .. i + 3 /\ k - q + 1 \in 1 .. m /\ q + (k - q + 1) - 1 = k
    BY <1>1
  <2> QED
    BY <1>2, <2>2, <2>3
<1> HIDE DEF m
<1> QED
  BY <1>2, <1>3, <1>4 DEF RunesInside, r

\* A sequence with one more piece that is sound.
LEMMA PieceAdded ==
  ASSUME SplitInv, NEW piece \in Seq(Bytes), chunks' = Append(chunks, piece),
         maxBytes' = maxBytes, text' = text, PieceSound(piece)
  PROVE  chunks' \in Seq(Seq(Bytes)) /\ PiecesSound'
<1> DEFINE n == Len(chunks)
<1>1. /\ chunks \in Seq(Seq(Bytes)) /\ n \in Nat
      /\ \A i \in 1 .. n : PieceSound(chunks[i])
  BY Zenon, LenProperties DEF SplitInv, PiecesSound
<1>2. /\ chunks' \in Seq(Seq(Bytes)) /\ Len(chunks') = n + 1
      /\ \A i \in 1 .. n : chunks'[i] = chunks[i]
      /\ chunks'[n + 1] = piece
  BY <1>1, AppendProperties
<1> HIDE DEF n
<1>3. \A i \in 1 .. n + 1 : PieceSound(chunks'[i])
  BY <1>1, <1>2
<1>4. \A i \in 1 .. Len(chunks') : PieceSound(chunks'[i])
  BY <1>2, <1>3
<1>5. WholeRunes(text)' = WholeRunes(text)
  BY Zenon DEF WholeRunes
<1>6. PiecesSound'
  BY <1>4, <1>5, Zenon DEF PiecesSound, PieceSound, TakenWhole
<1> QED
  BY <1>2, <1>6

LEMMA SplitStep ==
  ASSUME SplitInv, SplitNext
  PROVE  SplitInv'
<1>0. /\ maxBytes \in Nat \ {0} /\ remaining \in Seq(Bytes) /\ Len(remaining) \in Nat
      /\ chunks \in Seq(Seq(Bytes)) /\ text \in Seq(Bytes)
      /\ remaining # << >> => remaining[1] \notin Spaces /\ remaining[Len(remaining)] \notin Spaces
      /\ WholeRunes(text) => /\ RunesInside(remaining)
                             /\ maxBytes >= 4 /\ remaining # << >> => remaining[1] # "c"
  BY DEF SplitInv
<1>1. maxBytes' = maxBytes /\ text' = text
  BY DEF SplitNext, SplitOnce, Return
<1>2. WholeRunes(text)' = WholeRunes(text)
  BY <1>1, Zenon DEF WholeRunes
<1>3. ASSUME SplitOnce PROVE SplitInv'
  <2> DEFINE n == Len(remaining)
  <2>1. PICK m, q \in 1 .. n :
          /\ m < q
          /\ OneWord(1, m)
          /\ chunks' = Append(chunks, SubSeq(remaining, 1, m))
          /\ remaining' = SubSeq(remaining, q, n)
          /\ remaining[m] \notin Spaces /\ remaining[q] \notin Spaces
          /\ remaining[q] = "c" => \/ remaining[q - 1] \in Spaces
                                   \/ \A i \in 1 .. maxBytes : remaining[i + 1] = "c"
    BY <1>3, SplitOnceFacts
  <2>2. n > maxBytes /\ n > 0 /\ remaining # << >>
    BY <1>0, <1>3 DEF SplitOnce
  <2> DEFINE piece == SubSeq(remaining, 1, m)
  <2>3. /\ piece \in Seq(Bytes) /\ Len(piece) = m
        /\ \A i \in 1 .. m : piece[i] = remaining[i]
    BY <1>0
  <2> HIDE DEF piece
  <2>4. chunks' \in Seq(Seq(Bytes)) /\ PiecesSound'
    <3>1. \E k \in 1 .. Len(piece) : piece[k] \notin Spaces
      BY <1>0, <2>1, <2>3
    <3>2. piece[1] = remaining[1]
      BY <1>0, <2>3
    <3>3. ASSUME Len(piece) > maxBytes PROVE TakenWhole(piece)
      <4>1. m > maxBytes /\ \A k \in 2 .. maxBytes : k \in 1 .. m
        BY <1>0, <2>3, <3>3
      <4>2. /\ m < maxBytes + maxBytes \div 5
            /\ \A k \in 1 .. m : remaining[k] \notin Spaces
            /\ \A k \in 2 .. maxBytes : remaining[k] # ","
        BY <2>1, <4>1, Zenon DEF OneWord
      <4>3. \A k \in 2 .. maxBytes : piece[k] # ","
        BY <2>3, <4>1, <4>2, Zenon
      <4>4. \A k \in 1 .. m : piece[k] \notin Spaces
        BY <2>3, <4>2, Zenon
      <4> QED
        BY <2>3, <4>2, <4>3, <4>4, Zenon DEF TakenWhole
    <3>4. maxBytes >= 4 /\ WholeRunes(text) => piece[1] # "c"
      BY <1>0, <2>2, <3>2, Zenon
    <3>5. chunks' = Append(chunks, piece)
      BY <2>1 DEF piece
    <3> QED
      BY <1>1, <2>3, <3>1, <3>3, <3>4, <3>5, PieceAdded, Zenon DEF PieceSound
  <2>5. /\ remaining' \in Seq(Bytes) /\ remaining' # << >>
        /\ remaining'[1] = remaining[q] /\ remaining'[Len(remaining')] = remaining[n]
    <3>1. /\ SubSeq(remaining, q, n) \in Seq(Bytes) /\ Len(SubSeq(remaining, q, n)) = n - q + 1
          /\ SubSeq(remaining, q, n)[1] = remaining[q]
          /\ SubSeq(remaining, q, n)[n - q + 1] = remaining[n]
      BY <1>0
    <3>2. n - q + 1 > 0
      BY <1>0
    <3>3. remaining' = SubSeq(remaining, q, n)
      BY <2>1, Zenon
    <3>4. SubSeq(remaining, q, n) # << >>
      <4>1. Len(<< >>) = 0
        OBVIOUS
      <4>2. \A k : k = n - q + 1 /\ k > 0 => k # 0
        BY <1>0
      <4> QED
        BY <3>1, <3>2, <4>1, <4>2, Zenon
    <3> QED
      BY <3>1, <3>3, <3>4, Zenon
  <2>6. ASSUME WholeRunes(text)
        PROVE  RunesInside(remaining') /\ (maxBytes >= 4 => remaining'[1] # "c")
    <3>1. RunesInside(remaining)
      BY <1>0, <2>6
    <3>2. RunesInside(remaining')
      BY <1>0, <2>1, <3>1, RestKeepsRunes
    <3>3. ASSUME maxBytes >= 4, remaining[q] = "c" PROVE FALSE
      <4>1. q \in 2 .. n
        BY <1>0, <2>1
      <4>2. remaining[q - 1] \in {"r", "c"}
        BY <3>1, <3>3, <4>1 DEF RunesInside
      <4>3. \A i \in 1 .. maxBytes : remaining[i + 1] = "c"
        BY <2>1, <3>3, <4>2 DEF Spaces
      <4>4. 2 \in 1 .. n - 3
        BY <1>0, <2>2, <3>3
      <4>5. PICK j \in 2 .. 2 + 3 : remaining[j] # "c"
        BY <3>1, <4>4 DEF RunesInside
      <4>6. j - 1 \in 1 .. maxBytes /\ (j - 1) + 1 = j
        BY <1>0, <3>3
      <4> QED
        BY <4>3, <4>5, <4>6
    <3> QED
      BY <2>5, <3>2, <3>3
  <2> QED
    BY <1>0, <1>1, <1>2, <2>1, <2>2, <2>4, <2>5, <2>6 DEF SplitInv
<1>4. ASSUME Return PROVE SplitInv'
  <2>1. /\ Len(remaining) <= maxBytes
        /\ chunks' = WithPiece(remaining)
        /\ remaining' = << >>
    BY <1>4 DEF Return
  <2>2. RunesInside(<< >>)
    BY DEF RunesInside
  <2>3. chunks' \in Seq(Seq(Bytes)) /\ PiecesSound'
    <3>1. CASE remaining = << >>
      <4>1. chunks' = chunks
        BY <2>1, <3>1 DEF WithPiece
      <4> QED
        BY <1>0, <1>1, <1>2, <4>1, Zenon DEF SplitInv, PiecesSound, PieceSound, TakenWhole
    <3>2. CASE remaining # << >>
      <4>1. chunks' = Append(chunks, remaining)
        BY <2>1, <3>2 DEF WithPiece
      <4>2. \E k \in 1 .. Len(remaining) : remaining[k] \notin Spaces
        BY <1>0, <3>2
      <4>3. ~ (Len(remaining) > maxBytes)
        BY <1>0, <2>1
      <4>4. maxBytes >= 4 /\ WholeRunes(text) => remaining[1] # "c"
        BY <1>0, <3>2, Zenon
      <4> QED
        BY <1>0, <1>1, <4>1, <4>2, <4>3, <4>4, PieceAdded, Zenon DEF PieceSound
    <3> QED
      BY <3>1, <3>2
  <2> QED
    BY <1>0, <1>1, <1>2, <2>1, <2>2, <2>3 DEF SplitInv
<1> QED
  BY <1>3, <1>4 DEF SplitNext

-----------------------------------------------------------------------------
(* The scores and the filter *)

\* A score is nil or that of the text, and only a good text has one.
OwnScores ==
  \A i \in 1 .. N : scores[i] # "nil" => /\ mode = "task"
                                         /\ texts[i] # "bad"
                                         /\ scores[i] = texts[i]

\* The first n texts are scored, except for bad ones, unless there was trouble.
GoodScored(n) == ~trouble => \A i \in 1 .. n : texts[i] # "bad" => scores[i] = texts[i]

ScoringInv ==
  /\ texts \in Seq(Kinds) /\ mode \in {"task", "no_task", "disabled"} /\ trouble \in BOOLEAN
  /\ phase \in {"start", "batch", "single", "done"}
  /\ scores \in [1 .. N -> Kinds \cup {"nil"}]
  /\ OwnScores
  /\ phase = "start" => scores = Nils /\ vecs = << >> /\ next = 1
  /\ phase \in {"batch", "single"} => mode = "task" /\ next \in 1 .. N
  /\ phase = "batch" => /\ scores = Nils
                        /\ vecs \in Seq(Kinds) /\ Len(vecs) = next - 1
                        /\ \A i \in 1 .. next - 1 : vecs[i] = texts[i] /\ texts[i] # "bad"
  /\ phase = "single" => GoodScored(next - 1)
  /\ phase = "done" => \/ mode # "task" /\ status = mode
                       \/ mode = "task" /\ status = "embedder_unavailable" /\ trouble /\ N > 0
                       \/ mode = "task" /\ status = "scored" /\ GoodScored(N)

Reasons == {"boilerplate_system_log", "high_repetition_low_entropy", "low_shannon_entropy",
            "low_task_relevance", "low_lexical_density_boilerplate", "below_salience_threshold",
            "empty_text", "no_alphanumeric_tokens"}

AllReasons == Reasons \cup {""}

Verdicts == [score : Nat, salient : BOOLEAN, reason : AllReasons]

GateInv ==
  /\ window \in Seq(Chunks) /\ gate \in Int /\ task \in Nat \cup {-1}
  /\ verdicts \in Seq(Verdicts) /\ Len(verdicts) <= Len(window)
  /\ \A i \in 1 .. Len(verdicts) : verdicts[i] = Score(window[i], task, gate)

\* What is known of each stage; the threshold outlives the configuration it is in.
WorkInv ==
  /\ stage \in {"startup", "ready", "split", "kept", "score", "filter"}
  /\ IF stage = "startup" THEN StartInv ELSE startup = "done"
  /\ stage = "ready" => cfg.floats["SEKHA_FILTER_THRESHOLD"] \in Int
  /\ IF stage = "score" THEN ScoringInv ELSE ScoringIdle
  /\ IF stage = "filter" THEN GateInv ELSE GateIdle

-----------------------------------------------------------------------------
(* The answer to a batch *)

\* A sequence of n increasing numbers from 1 to n counts them.
LEMMA IncreasingCounts ==
  ASSUME NEW n \in Nat, NEW f \in [1 .. n -> 1 .. n],
         \A i, j \in 1 .. n : i < j => f[i] < f[j]
  PROVE  \A i \in 1 .. n : f[i] = i
<1>1. \A i \in 1 .. n : f[i] >= i
  <2> DEFINE T == {i \in 1 .. n : f[i] < i}
  <2> SUFFICES ASSUME T # {} PROVE FALSE
    OBVIOUS
  <2>0. T \in SUBSET Nat
    OBVIOUS
  <2>1. PICK i \in T : \A j \in T : i <= j
    <3> HIDE DEF T
    <3> QED
      BY <2>0, LeastNatural
  <2>2. i \in 1 .. n /\ f[i] < i /\ f[i] \in 1 .. n
    OBVIOUS
  <2>3. i - 1 \in 1 .. n
    BY <2>2
  <2>4. f[i - 1] < f[i] /\ f[i - 1] \in 1 .. n
    <3>1. i - 1 < i
      BY <2>2
    <3> HIDE DEF T
    <3> QED
      BY <2>2, <2>3, <3>1
  <2>5. i - 1 \in T
    BY <2>2, <2>3, <2>4
  <2> QED
    BY <2>1, <2>2, <2>5
<1>2. \A i \in 1 .. n : f[i] <= i
  <2> DEFINE D == {d \in 0 .. n - 1 : f[n - d] > n - d}
  <2> SUFFICES ASSUME NEW i \in 1 .. n, f[i] > i PROVE FALSE
    BY DEF D
  <2>1. n - i \in D
    BY DEF D
  <2>0. D \in SUBSET Nat
    OBVIOUS
  <2>2. PICK d \in D : \A e \in D : d <= e
    <3> HIDE DEF D
    <3> QED
      BY <2>0, <2>1, LeastNatural
  <2>3. d \in 0 .. n - 1 /\ n - d \in 1 .. n /\ f[n - d] > n - d /\ f[n - d] \in 1 .. n
    OBVIOUS
  <2>4. d - 1 \in 0 .. n - 1 /\ n - (d - 1) \in 1 .. n /\ n - (d - 1) = n - d + 1
    BY <2>3
  <2>5. f[n - d + 1] > f[n - d] /\ f[n - d + 1] \in 1 .. n
    <3>1. n - d + 1 \in 1 .. n /\ n - d < n - d + 1
      BY <2>3, <2>4
    <3> HIDE DEF D
    <3> QED
      BY <2>3, <3>1
  <2>6. f[n - (d - 1)] > n - (d - 1)
    BY <2>3, <2>4, <2>5
  <2>7. d - 1 \in D
    BY <2>4, <2>6 DEF D
  <2>8. d <= d - 1
    <3> HIDE DEF D
    <3> QED
      BY <2>2, <2>7
  <2> QED
    BY <2>3, <2>8
<1> QED
  BY <1>1, <1>2

\* In whatever order the vectors come in, sorted by index they are those of the
\* texts of the batch.
LEMMA SortedIsBatch ==
  ASSUME NEW data \in Data, Batch \in Seq(Kinds)
  PROVE  ByIndex(data) = Batch
<1> DEFINE n == Len(Batch)
           At(i) == [index |-> i, vector |-> Batch[i]]
           Ordered(s) == /\ Range(s) = Range(data)
                         /\ \A i, j \in DOMAIN data : i < j => s[i].index < s[j].index
<1>1. n \in Nat
  OBVIOUS
<1>2. PICK order \in [1 .. n -> 1 .. n] :
        Range(order) = 1 .. n /\ data = [i \in 1 .. n |-> At(order[i])]
  BY DEF Data
<1>3. DOMAIN data = 1 .. n
  BY <1>2
<1>4. Range(data) = {At(i) : i \in 1 .. n}
  <2>1. {order[x] : x \in 1 .. n} = 1 .. n
    BY <1>2 DEF Range
  <2>2. Range(data) = {data[x] : x \in 1 .. n}
    BY <1>3 DEF Range
  <2>3. \A x \in 1 .. n : data[x] = At(order[x]) /\ order[x] \in 1 .. n
    BY <1>2
  <2> HIDE DEF At
  <2>4. \A i \in 1 .. n : \E x \in 1 .. n : order[x] = i
    BY <2>1
  <2>5. \A i \in 1 .. n : At(i) \in Range(data)
    BY <2>2, <2>3, <2>4
  <2>6. \A r \in Range(data) : r \in {At(i) : i \in 1 .. n}
    BY <2>2, <2>3
  <2> QED
    BY <2>5, <2>6
<1> HIDE DEF At
<1>5. [i \in 1 .. n |-> At(i)] \in [1 .. n -> {At(i) : i \in 1 .. n}]
  OBVIOUS
<1>6. Ordered([i \in 1 .. n |-> At(i)])
  BY <1>1, <1>3, <1>4 DEF At, Range
<1>7. Sorted(data) = CHOOSE s \in [1 .. n -> {At(i) : i \in 1 .. n}] : Ordered(s)
  BY <1>3, <1>4 DEF Sorted
<1>8. Sorted(data) \in [1 .. n -> {At(i) : i \in 1 .. n}] /\ Ordered(Sorted(data))
  <2> HIDE DEF Ordered
  <2> QED
    BY <1>5, <1>6, <1>7
<1>9. \A i \in 1 .. n : \E j \in 1 .. n : Sorted(data)[i] = At(j)
  BY <1>8
<1>10. \A i \in 1 .. n : /\ Sorted(data)[i].index \in 1 .. n
                         /\ Sorted(data)[i] = At(Sorted(data)[i].index)
  <2> SUFFICES ASSUME NEW i \in 1 .. n
               PROVE  /\ Sorted(data)[i].index \in 1 .. n
                      /\ Sorted(data)[i] = At(Sorted(data)[i].index)
    OBVIOUS
  <2>1. PICK j \in 1 .. n : Sorted(data)[i] = At(j)
    BY <1>9
  <2>2. At(j).index = j
    BY DEF At
  <2> QED
    BY <2>1, <2>2
<1> DEFINE f == [i \in 1 .. n |-> Sorted(data)[i].index]
<1>11. f \in [1 .. n -> 1 .. n] /\ \A i, j \in 1 .. n : i < j => f[i] < f[j]
  BY <1>3, <1>8, <1>10
<1>12. \A i \in 1 .. n : f[i] = i
  <2> HIDE DEF f
  <2> QED
    BY <1>1, <1>11, IncreasingCounts
<1>13. \A i \in 1 .. n : Sorted(data)[i].vector = Batch[i]
  <2> SUFFICES ASSUME NEW i \in 1 .. n PROVE Sorted(data)[i].vector = Batch[i]
    OBVIOUS
  <2>1. Sorted(data)[i].index = i
    BY <1>12
  <2>2. Sorted(data)[i] = At(i)
    BY <1>10, <2>1
  <2> QED
    BY <2>2 DEF At
<1>14. ByIndex(data) = [i \in 1 .. n |-> Batch[i]]
  BY <1>3, <1>13 DEF ByIndex
<1> QED
  BY <1>14

-----------------------------------------------------------------------------
(* Scoring *)

LEMMA BatchBounds ==
  ASSUME texts \in Seq(Kinds), next \in 1 .. N
  PROVE  /\ BatchEnd \in next .. N
         /\ Batch \in Seq(Kinds) /\ Len(Batch) = BatchEnd - next + 1
         /\ \A i \in 1 .. Len(Batch) : Batch[i] = texts[next + i - 1]
         /\ BatchTexts = {texts[i] : i \in next .. BatchEnd}
<1>1. N \in Nat /\ BatchSize \in Nat \ {0}
  BY ScoringAssumption DEF N
<1>2. BatchEnd \in next .. N
  BY <1>1 DEF BatchEnd
<1> DEFINE e == BatchEnd
<1> HIDE DEF e
<1>3. e \in next .. Len(texts)
  BY <1>2 DEF N, e
<1>4. /\ SubSeq(texts, next, e) \in Seq(Kinds)
      /\ Len(SubSeq(texts, next, e)) = e - next + 1
      /\ \A i \in 1 .. e - next + 1 : SubSeq(texts, next, e)[i] = texts[next + i - 1]
  BY <1>1, <1>3 DEF N
<1>5. /\ Batch \in Seq(Kinds) /\ Len(Batch) = BatchEnd - next + 1
      /\ \A i \in 1 .. Len(Batch) : Batch[i] = texts[next + i - 1]
  BY <1>4 DEF Batch, e
<1>6. \A i \in next .. BatchEnd : i - next + 1 \in 1 .. Len(Batch) /\ Batch[i - next + 1] = texts[i]
  BY <1>1, <1>2, <1>5
<1>7. \A i \in 1 .. Len(Batch) : next + i - 1 \in next .. BatchEnd
  BY <1>1, <1>2, <1>5
<1>8. BatchTexts = {texts[i] : i \in next .. BatchEnd}
  BY <1>5, <1>6, <1>7 DEF BatchTexts
<1> QED
  BY <1>2, <1>5, <1>8

\* A batch that was embedded continues the vectors, and has no bad text in it.
LEMMA VectorsGrow ==
  ASSUME texts \in Seq(Kinds), next \in 1 .. N, "ok" \in Answers(BatchTexts),
         vecs \in Seq(Kinds), Len(vecs) = next - 1,
         \A i \in 1 .. next - 1 : vecs[i] = texts[i] /\ texts[i] # "bad",
         NEW data \in Data
  PROVE  /\ vecs \o ByIndex(data) \in Seq(Kinds) /\ Len(vecs \o ByIndex(data)) = BatchEnd
         /\ \A i \in 1 .. BatchEnd : /\ (vecs \o ByIndex(data))[i] = texts[i]
                                     /\ texts[i] # "bad"
<1>1. /\ BatchEnd \in next .. N
      /\ Batch \in Seq(Kinds) /\ Len(Batch) = BatchEnd - next + 1
      /\ \A i \in 1 .. Len(Batch) : Batch[i] = texts[next + i - 1]
      /\ BatchTexts = {texts[i] : i \in next .. BatchEnd}
  BY BatchBounds
<1>2. ByIndex(data) = Batch
  BY <1>1, SortedIsBatch
<1>3. "bad" \notin BatchTexts
  BY DEF Answers
<1>4. \A i \in next .. BatchEnd : texts[i] # "bad"
  BY <1>1, <1>3
<1> DEFINE b == Batch
           e == BatchEnd
           m == N
<1>5. /\ m \in Nat /\ e \in next .. m /\ b \in Seq(Kinds) /\ Len(b) = e - next + 1
      /\ \A i \in 1 .. Len(b) : b[i] = texts[next + i - 1]
      /\ \A i \in next .. e : texts[i] # "bad"
      /\ next \in 1 .. m
  BY <1>1, <1>4 DEF N
<1> HIDE DEF b, e, m
<1>6. vecs \o b \in Seq(Kinds) /\ Len(vecs \o b) = e
  <2>1. vecs \in Seq(Kinds) /\ Len(vecs) = next - 1
    OBVIOUS
  <2>2. vecs \o b \in Seq(Kinds) /\ Len(vecs \o b) = Len(vecs) + Len(b)
    BY <1>5, <2>1
  <2>3. (next - 1) + (e - next + 1) = e
    BY <1>5
  <2> QED
    BY <1>5, <2>1, <2>2, <2>3
<1>7. ASSUME NEW i \in 1 .. e PROVE (vecs \o b)[i] = texts[i] /\ texts[i] # "bad"
  <2>1. CASE i < next
    <3>1. i \in 1 .. Len(vecs) /\ i \in 1 .. next - 1
      BY <1>5, <2>1
    <3>2. (vecs \o b)[i] = vecs[i]
      BY <1>5, <3>1
    <3> QED
      BY <3>1, <3>2
  <2>2. CASE ~ (i < next)
    <3>1. i \in next .. e /\ i - Len(vecs) \in 1 .. Len(b) /\ next + (i - Len(vecs)) - 1 = i
      BY <1>5, <2>2
    <3>2. (vecs \o b)[i] = b[i - Len(vecs)]
      BY <1>5, <1>6, <2>2, <3>1
    <3>3. b[i - Len(vecs)] = texts[next + (i - Len(vecs)) - 1]
      BY <1>5, <3>1
    <3> QED
      BY <1>5, <3>1, <3>2, <3>3
  <2> QED
    BY <2>1, <2>2
<1> QED
  BY <1>2, <1>6, <1>7 DEF b, e

\* Every step of the scorer keeps its invariant.
LEMMA ScoringStep ==
  ASSUME ScoringInv, ScoringNext
  PROVE  ScoringInv'
<1>1. N \in Nat
  BY DEF ScoringInv, N
<1>2. ASSUME NothingToScore PROVE ScoringInv'
  <2>1. /\ phase = "start" /\ phase' = "done" /\ (mode # "task" \/ N = 0)
        /\ status' = IF mode = "task" THEN "scored" ELSE mode
        /\ UNCHANGED << texts, mode, next, vecs, scores, trouble >>
    BY <1>2 DEF NothingToScore
  <2>2. mode = "task" => GoodScored(N)'
    BY <2>1 DEF GoodScored, N
  <2> QED
    BY <2>1, <2>2 DEF ScoringInv, OwnScores, GoodScored, N
<1>3. ASSUME EmbedTask PROVE ScoringInv'
  <2>1. /\ phase = "start" /\ mode = "task" /\ N > 0
        /\ UNCHANGED << texts, mode, next, vecs, scores >>
    BY <1>3 DEF EmbedTask
  <2>2. \/ phase' = "batch" /\ trouble' \in BOOLEAN
        \/ phase' = "done" /\ status' = "embedder_unavailable" /\ trouble' = TRUE
    <3>1. PICK answer \in Answers({}) :
            /\ IF answer = "ok" THEN phase' = "batch"
                                ELSE phase' = "done" /\ status' = "embedder_unavailable"
            /\ trouble' = (trouble \/ answer = "down" \/ (answer = "status" /\ "bad" \notin {}))
      BY <1>3 DEF EmbedTask, Observe
    <3>2. answer = "ok" \/ answer = "status" \/ answer = "down"
      BY DEF Answers
    <3>3. trouble' \in BOOLEAN
      BY <3>1
    <3>4. answer # "ok" => trouble' = TRUE
      BY <3>1, <3>2
    <3> QED
      BY <3>1, <3>3, <3>4
  <2>3. CASE phase' = "batch" /\ trouble' \in BOOLEAN
    BY <1>1, <2>1, <2>3 DEF ScoringInv, OwnScores, Nils, N
  <2>4. CASE phase' = "done" /\ status' = "embedder_unavailable" /\ trouble' = TRUE
    BY <2>1, <2>4 DEF ScoringInv, OwnScores, N
  <2> QED
    BY <2>2, <2>3, <2>4
<1>4. ASSUME EmbedBatch PROVE ScoringInv'
  <2>1. /\ phase = "batch" /\ BatchEnd < N /\ "ok" \in Answers(BatchTexts)
        /\ next' = BatchEnd + 1
        /\ UNCHANGED << texts, mode, phase, scores, status, trouble >>
    BY <1>4 DEF EmbedBatch
  <2>2. PICK data \in Data : vecs' = vecs \o ByIndex(data)
    BY <1>4 DEF EmbedBatch
  <2>3. BatchEnd \in next .. N /\ next \in 1 .. N
    BY <2>1, BatchBounds DEF ScoringInv
  <2>4. /\ vecs' \in Seq(Kinds) /\ Len(vecs') = BatchEnd
        /\ \A i \in 1 .. BatchEnd : vecs'[i] = texts[i] /\ texts[i] # "bad"
    BY <2>1, <2>2, VectorsGrow DEF ScoringInv
  <2> DEFINE e == BatchEnd
  <2> HIDE DEF e
  <2>5. /\ e \in Nat /\ e < N /\ next' = e + 1 /\ vecs' \in Seq(Kinds) /\ Len(vecs') = e
        /\ \A i \in 1 .. e : vecs'[i] = texts[i] /\ texts[i] # "bad"
    BY <1>1, <2>1, <2>3, <2>4 DEF e
  <2>6. next' \in 1 .. N /\ next' - 1 = e
    BY <1>1, <2>5
  <2> QED
    BY <2>1, <2>5, <2>6 DEF ScoringInv, OwnScores, Nils, N
<1>5. ASSUME EmbedLastBatch PROVE ScoringInv'
  <2>1. /\ phase = "batch" /\ BatchEnd = N /\ "ok" \in Answers(BatchTexts)
        /\ phase' = "done" /\ status' = "scored"
        /\ UNCHANGED << texts, mode, next, vecs, trouble >>
    BY <1>5 DEF EmbedLastBatch
  <2>2. PICK data \in Data : scores' = vecs \o ByIndex(data)
    BY <1>5 DEF EmbedLastBatch
  <2>3. /\ scores' \in Seq(Kinds) /\ Len(scores') = N
        /\ \A i \in 1 .. N : scores'[i] = texts[i] /\ texts[i] # "bad"
    BY <2>1, <2>2, VectorsGrow DEF ScoringInv
  <2>4. scores' \in [1 .. N -> Kinds \cup {"nil"}]
    BY <1>1, <2>3
  <2>5. mode = "task" /\ GoodScored(N)'
    BY <2>1, <2>3 DEF ScoringInv, GoodScored, N
  <2> QED
    BY <2>1, <2>3, <2>4, <2>5 DEF ScoringInv, OwnScores, N
<1>6. ASSUME BatchRejected PROVE ScoringInv'
  <2>1. /\ phase = "batch" /\ phase' = AfterRejection /\ next' = 1
        /\ (AfterRejection = "done" => status' = "scored")
        /\ UNCHANGED << texts, mode, scores >>
        /\ trouble' = (trouble \/ "bad" \notin BatchTexts)
    BY <1>6 DEF BatchRejected, Observe
  <2>2. /\ trouble' \in BOOLEAN /\ mode = "task" /\ N >= 1 /\ next \in 1 .. N
        /\ texts \in Seq(Kinds) /\ scores = Nils
    BY <1>1, <2>1 DEF ScoringInv
  <2>3. CASE N = 1
    <3>1. phase' = "done" /\ status' = "scored"
      BY <2>1, <2>3 DEF AfterRejection
    <3>2. BatchTexts = {texts[i] : i \in next .. BatchEnd} /\ BatchEnd \in next .. N
      BY <2>2, BatchBounds
    <3>3. ~ trouble' => texts[1] = "bad"
      <4>1. next = 1 /\ BatchEnd = 1
        BY <2>2, <2>3, <3>2
      <4>2. BatchTexts = {texts[1]}
        BY <3>2, <4>1
      <4> QED
        BY <2>1, <4>2
    <3>4. GoodScored(N)'
      BY <2>1, <2>3, <3>3 DEF GoodScored, N
    <3> QED
      BY <2>1, <2>2, <3>1, <3>4 DEF ScoringInv, OwnScores, N
  <2>4. CASE N # 1
    <3>1. phase' = "single"
      BY <2>1, <2>4 DEF AfterRejection
    <3>2. GoodScored(next - 1)'
      BY <2>1 DEF GoodScored
    <3>3. next' \in 1 .. N
      BY <1>1, <2>1, <2>2
    <3> QED
      BY <2>1, <2>2, <3>1, <3>2, <3>3 DEF ScoringInv, OwnScores, N
  <2> QED
    BY <2>3, <2>4
<1>7. ASSUME BatchUnanswered PROVE ScoringInv'
  <2>1. /\ phase = "batch" /\ phase' = "done" /\ status' = "scored" /\ trouble' = TRUE
        /\ UNCHANGED << texts, mode, next, scores >>
    BY <1>7 DEF BatchUnanswered, Observe
  <2> QED
    BY <2>1 DEF ScoringInv, OwnScores, GoodScored, N
<1>8. ASSUME EmbedSingle PROVE ScoringInv'
  <2>1. /\ phase = "single"
        /\ \/ next < N /\ next' = next + 1 /\ phase' = "single"
           \/ ~ (next < N) /\ next' = next /\ phase' = "done" /\ status' = "scored"
        /\ UNCHANGED << texts, mode, vecs >>
    BY <1>8 DEF EmbedSingle
  <2>2. PICK answer \in Answers({texts[next]}) :
          /\ scores' = IF answer = "ok" THEN [scores EXCEPT ![next] = texts[next]] ELSE scores
          /\ trouble' = (trouble \/ answer = "down" \/ (answer = "status" /\ "bad" \notin {texts[next]}))
    BY <1>8 DEF EmbedSingle, Observe
  <2>3. /\ mode = "task" /\ next \in 1 .. N /\ texts \in Seq(Kinds)
        /\ scores \in [1 .. N -> Kinds \cup {"nil"}] /\ trouble \in BOOLEAN
        /\ OwnScores /\ GoodScored(next - 1)
    BY <2>1 DEF ScoringInv
  <2>4. texts[next] \in Kinds
    BY <2>3 DEF N
  <2>5. answer = "ok" => texts[next] # "bad"
    BY DEF Answers
  <2>6. trouble' \in BOOLEAN /\ (~ trouble' => ~ trouble)
    BY <2>2, <2>3
  <2>7. ~ trouble' => answer = "ok" \/ texts[next] = "bad"
    <3>1. answer = "ok" \/ answer = "status" \/ answer = "down"
      BY DEF Answers
    <3> QED
      BY <2>2, <3>1
  <2>8. scores' \in [1 .. N -> Kinds \cup {"nil"}]
    BY <2>2, <2>3, <2>4
  <2>9. \A i \in 1 .. N : i # next => scores'[i] = scores[i]
    BY <2>2, <2>3
  <2>10. scores'[next] = IF answer = "ok" THEN texts[next] ELSE scores[next]
    BY <2>2, <2>3
  <2>11. OwnScores'
    BY <2>1, <2>3, <2>5, <2>9, <2>10 DEF OwnScores, N
  <2>12. ~ trouble' => \A i \in 1 .. next : texts[i] # "bad" => scores'[i] = texts[i]
    <3> SUFFICES ASSUME ~ trouble', NEW i \in 1 .. next, texts[i] # "bad"
                 PROVE  scores'[i] = texts[i]
      OBVIOUS
    <3>1. CASE i = next
      BY <2>7, <2>10, <3>1
    <3>2. CASE i # next
      <4>1. i \in 1 .. next - 1 /\ i \in 1 .. N
        BY <1>1, <2>3, <3>2
      <4>2. scores[i] = texts[i]
        BY <2>3, <2>6, <4>1 DEF GoodScored
      <4> QED
        BY <2>9, <3>2, <4>1, <4>2
    <3> QED
      BY <3>1, <3>2
  <2>13. CASE next < N /\ next' = next + 1 /\ phase' = "single"
    <3>1. next' \in 1 .. N /\ next' - 1 = next
      BY <1>1, <2>3, <2>13
    <3>2. GoodScored(next - 1)'
      BY <2>1, <2>12, <3>1 DEF GoodScored
    <3> QED
      BY <2>1, <2>3, <2>6, <2>8, <2>11, <2>13, <3>1, <3>2 DEF ScoringInv, N
  <2>14. CASE ~ (next < N) /\ next' = next /\ phase' = "done" /\ status' = "scored"
    <3>1. next = N
      BY <1>1, <2>3, <2>14
    <3>2. GoodScored(N)'
      BY <2>1, <2>12, <3>1 DEF GoodScored, N
    <3> QED
      BY <2>1, <2>3, <2>6, <2>8, <2>11, <2>14, <3>2 DEF ScoringInv, N
  <2> QED
    BY <2>1, <2>13, <2>14
<1> QED
  BY <1>2, <1>3, <1>4, <1>5, <1>6, <1>7, <1>8 DEF ScoringNext

LEMMA InvRoutes ==
  ASSUME ScoringInv
  PROVE  RoutedByOwnScore
<1> SUFFICES ASSUME phase = "done", NEW i \in 1 .. N
             PROVE  /\ Strong(i) => texts[i] = "strong"
                    /\ RecordStatus(i) = "scored" => mode = "task" /\ scores[i] = texts[i]
  BY DEF RoutedByOwnScore
<1>1. RecordStatus(i) = "scored" => scores[i] # "nil"
  BY DEF RecordStatus
<1>2. RecordStatus(i) = "scored" => mode = "task" /\ scores[i] = texts[i]
  BY <1>1 DEF ScoringInv, OwnScores
<1> QED
  BY <1>2 DEF Strong

LEMMA InvScoresGood ==
  ASSUME ScoringInv
  PROVE  OnlyBadUnscored
<1> SUFFICES ASSUME phase = "done", mode = "task", ~ trouble, NEW i \in 1 .. N
             PROVE  RecordStatus(i) = "scored" <=> texts[i] # "bad"
  BY DEF OnlyBadUnscored
<1>1. status = "scored" /\ GoodScored(N) /\ texts[i] \in Kinds
  BY DEF ScoringInv, N
<1>2. scores[i] = "nil" <=> texts[i] = "bad"
  BY <1>1 DEF ScoringInv, OwnScores, GoodScored, Kinds
<1> QED
  BY <1>1, <1>2 DEF RecordStatus

LEMMA InvReports ==
  ASSUME ScoringInv
  PROVE  ReportsAgree
<1> DEFINE all == 1 .. N
           unavailable == {i \in all : RecordStatus(i) = "embedder_unavailable"}
           nils == {i \in all : scores[i] = "nil"}
<1> SUFFICES ASSUME phase = "done"
             PROVE  /\ Unscored = Cardinality(unavailable)
                    /\ ResponseStatus = "partial" <=> unavailable \notin {{}, all}
                    /\ (ResponseStatus = "embedder_unavailable" /\ N > 0) => unavailable = all
                    /\ ResponseStatus = "scored" => unavailable = {}
  BY DEF ReportsAgree
<1>1. N \in Nat
  BY DEF ScoringInv, N
<1>2. IsFiniteSet(all) /\ Cardinality(all) = N /\ Cardinality({}) = 0 /\ IsFiniteSet({})
  BY <1>1, FS_Interval, FS_EmptySet
<1>3. CASE mode # "task"
  <2>1. status = mode /\ status # "scored" /\ status # "embedder_unavailable" /\ status # "partial"
    BY <1>3 DEF ScoringInv
  <2>2. unavailable = {}
    BY <2>1 DEF RecordStatus
  <2>3. Unscored = 0 /\ ResponseStatus = status
    BY <2>1 DEF Unscored, ResponseStatus
  <2> QED
    BY <1>2, <2>1, <2>2, <2>3
<1>4. CASE mode = "task" /\ status = "embedder_unavailable" /\ N > 0
  <2>1. unavailable = all
    BY <1>4 DEF RecordStatus
  <2>2. Unscored = N /\ ResponseStatus = "embedder_unavailable"
    BY <1>4 DEF Unscored, ResponseStatus
  <2> QED
    BY <1>2, <2>1, <2>2
<1>5. CASE status = "scored"
  <2>1. unavailable = nils
    BY <1>5 DEF RecordStatus
  <2>2. Unscored = Cardinality(nils)
    BY <1>5 DEF Unscored
  <2> DEFINE c == Cardinality(nils)
  <2>3. /\ nils \subseteq all /\ IsFiniteSet(nils) /\ c \in Nat /\ c <= N
        /\ (c = N => nils = all)
    BY <1>2, FS_Subset, FS_CardinalityType
  <2>4. c = 0 <=> nils = {}
    BY <2>3, FS_EmptySet
  <2>5. ResponseStatus = IF c > 0 THEN (IF c = N THEN "embedder_unavailable" ELSE "partial")
                         ELSE "scored"
    BY <1>5, <2>2 DEF ResponseStatus
  <2>6. nils = all => c = N
    BY <1>2
  <2> HIDE DEF c, nils, all, unavailable
  <2>7. ResponseStatus = "partial" <=> nils # {} /\ nils # all
    <3>1. c > 0 <=> c # 0
      BY <2>3
    <3>2. nils # {} /\ nils # all => c # 0 /\ c # N
      BY <2>3, <2>4
    <3>3. c # 0 /\ c # N => nils # {} /\ nils # all
      BY <2>4, <2>6
    <3> QED
      BY <2>5, <3>1, <3>2, <3>3
  <2>8. ResponseStatus = "embedder_unavailable" => nils = all
    BY <2>3, <2>5
  <2>9. ResponseStatus = "scored" => nils = {}
    BY <2>3, <2>4, <2>5
  <2>10. Unscored = Cardinality(unavailable)
    BY <2>1, <2>2
  <2> QED
    BY <2>1, <2>7, <2>8, <2>9, <2>10
<1> QED
  BY <1>3, <1>4, <1>5 DEF ScoringInv

-----------------------------------------------------------------------------
(* The gate of the filter *)

LEMMA SmallerOf ==
  ASSUME NEW a \in Int, NEW b \in Int
  PROVE  Min({a, b}) = IF a <= b THEN a ELSE b
<1> DEFINE S == {a, b}
<1>1. \E x \in S : \A y \in S : x <= y
  OBVIOUS
<1>2. Min(S) \in S /\ \A y \in S : Min(S) <= y
  <2> HIDE DEF S
  <2> QED
    BY <1>1 DEF Min
<1> QED
  BY <1>2

LEMMA LargerOf ==
  ASSUME NEW a \in Int, NEW b \in Int
  PROVE  Max({a, b}) = IF a <= b THEN b ELSE a
<1> DEFINE S == {a, b}
<1>1. \E x \in S : \A y \in S : x >= y
  OBVIOUS
<1>2. Max(S) \in S /\ \A y \in S : Max(S) >= y
  <2> HIDE DEF S
  <2> QED
    BY <1>1 DEF Max
<1> QED
  BY <1>2

\* The ratios that are computed from ratios are ratios.
LEMMA DensityIsRatio ==
  ASSUME NEW t \in Chunks
  PROVE  LexicalDensity(t) \in Ratios
<1>1. PICK u \in Ratios, c \in Ratios : u = t.unique /\ c = t.content
  BY DEF Chunks
<1>2. (6 * u + 4 * c) \div 10 \in Ratios
  BY DEF Ratios
<1> QED
  BY <1>1, <1>2 DEF LexicalDensity

LEMMA RelevanceIsRatio ==
  ASSUME NEW t \in Chunks, NEW words \in Nat \cup {-1}
  PROVE  TaskRelevance(t, words) \in Ratios
<1>1. CASE words <= 0
  BY <1>1 DEF TaskRelevance, Ratios
<1>2. CASE ~ (words <= 0)
  <2>1. PICK d \in {1, 2} : d = Min({2, words})
    BY <1>2, SmallerOf
  <2>2. PICK h \in Nat : h = t.hits
    BY DEF Chunks
  <2>3. (1000 * h) \div 1 \in Nat /\ (1000 * h) \div 2 \in Nat
    OBVIOUS
  <2>4. PICK q \in Nat : q = (1000 * h) \div d
    BY <2>3
  <2>5. TaskRelevance(t, words) = Min({1000, q})
    BY <1>2, <2>1, <2>2, <2>4 DEF TaskRelevance
  <2>6. Min({1000, q}) = IF 1000 <= q THEN 1000 ELSE q
    BY SmallerOf
  <2> QED
    BY <2>5, <2>6 DEF Ratios
<1> QED
  BY <1>1, <1>2

LEMMA Clamped ==
  ASSUME NEW x \in Int
  PROVE  /\ Max({0, Min({100000, x})}) \in Nat
         /\ x <= 60000 => Max({0, Min({100000, x})}) <= 60000
<1>1. Min({100000, x}) = IF 100000 <= x THEN 100000 ELSE x
  BY SmallerOf
<1>2. PICK m \in Int : m = Min({100000, x}) /\ (x <= 60000 => m <= 60000)
  BY <1>1
<1>3. Max({0, m}) = IF 0 <= m THEN m ELSE 0
  BY LargerOf
<1> QED
  BY <1>2, <1>3

LEMMA PartsBounded ==
  ASSUME NEW t \in Chunks, NEW words \in Nat \cup {-1}
  PROVE  Parts(t, words) \in Nat /\ Parts(t, words) <= 100000
<1> DEFINE e == t.entropy
           l == LexicalDensity(t)
           d == t.entities
           r == TaskRelevance(t, words)
<1>1. e \in Ratios /\ d \in Ratios
  BY DEF Chunks
<1>2. l \in Ratios /\ r \in Ratios
  BY DensityIsRatio, RelevanceIsRatio
<1>3. \/ Parts(t, words) = 20 * e + 25 * l + 20 * d + 25 * r
      \/ Parts(t, words) = 35 * e + 35 * l + 30 * d
  BY Zenon DEF Parts
<1> HIDE DEF e, l, d, r
<1>4. /\ 20 * e + 25 * l + 20 * d + 25 * r \in Nat
      /\ 20 * e + 25 * l + 20 * d + 25 * r <= 100000
      /\ 35 * e + 35 * l + 30 * d \in Nat
      /\ 35 * e + 35 * l + 30 * d <= 100000
  BY <1>1, <1>2 DEF Ratios
<1> QED
  BY <1>3, <1>4

\* What a boilerplate line that is no alert scores at best, with everything else
\* in its favour.
BestBoilerplate == 60000

\* The score is not negative, and the ratios, the boost for prose and the penalty
\* together leave a boilerplate line at 0.6 at most.
LEMMA SalienceBounded ==
  ASSUME NEW t \in Chunks, NEW words \in Nat \cup {-1}
  PROVE  /\ Salience(t, words) \in Nat
         /\ t.boilerplate /\ ~ t.alert => Salience(t, words) <= BestBoilerplate
<1>1. Boost(t) \in Nat /\ (~ t.alert => Boost(t) <= 20000)
  BY DEF Boost
<1>2. Repetition(t) \in Nat
  BY DEF Repetition
<1>3. Boilerplate(t) \in Nat /\ (t.boilerplate /\ ~ t.alert => Boilerplate(t) = 60000)
  BY DEF Boilerplate
<1>4. PICK sum \in Int : /\ sum = Parts(t, words) + Boost(t) - Repetition(t) - Boilerplate(t)
                         /\ t.boilerplate /\ ~ t.alert => sum <= 60000
  BY <1>1, <1>2, <1>3, PartsBounded
<1>5. Salience(t, words) = Max({0, Min({100000, sum})})
  BY <1>4 DEF Salience
<1> QED
  BY <1>4, <1>5, Clamped DEF BestBoilerplate

\* What a verdict says of the exact score that the gate compared.
LEMMA ReasonFacts ==
  ASSUME NEW t \in Chunks, NEW words \in Nat \cup {-1}
  PROVE  /\ Reason(t, words) \in Reasons
         /\ t.alert => /\ Reason(t, words) # "boilerplate_system_log"
                       /\ Reason(t, words) # "high_repetition_low_entropy"
<1>1. Reason(t, words) \in Reasons
  BY Zenon DEF Reason, Reasons
<1>2. t.alert => Boilerplate(t) = 0 /\ Repetition(t) = 0
  BY DEF Boilerplate, Repetition
<1>3. ASSUME Boilerplate(t) = 0, Repetition(t) = 0
      PROVE  /\ Reason(t, words) # "boilerplate_system_log"
             /\ Reason(t, words) # "high_repetition_low_entropy"
  BY <1>3 DEF Reason
<1> QED
  BY <1>1, <1>2, <1>3

LEMMA VerdictFacts ==
  ASSUME NEW t \in Chunks, NEW words \in Nat \cup {-1}, NEW threshold \in Int,
         NEW v, v = Score(t, words, threshold)
  PROVE  /\ v \in Verdicts
         /\ \/ /\ v.salient /\ v.reason = ""
               /\ Passes(t, words, threshold) /\ v.score = Rounded(t, words)
            \/ /\ ~ v.salient /\ v.reason # ""
               /\ v.score = 0 \/ (~ Passes(t, words, threshold) /\ v.score = Rounded(t, words))
               /\ t.alert => /\ v.reason # "boilerplate_system_log"
                             /\ v.reason # "high_repetition_low_entropy"
<1>1. Salience(t, words) \in Nat
  BY SalienceBounded
<1>2. Rounded(t, words) \in Nat
  BY <1>1 DEF Rounded
<1>3. /\ Reason(t, words) \in Reasons
      /\ t.alert => /\ Reason(t, words) # "boilerplate_system_log"
                    /\ Reason(t, words) # "high_repetition_low_entropy"
  BY ReasonFacts
<1>4. /\ "" \in AllReasons /\ Reason(t, words) \in AllReasons
      /\ "empty_text" \in AllReasons /\ "no_alphanumeric_tokens" \in AllReasons
      /\ "" \notin Reasons /\ "empty_text" # "" /\ "no_alphanumeric_tokens" # ""
      /\ \A r \in {"empty_text", "no_alphanumeric_tokens"} :
           r # "boilerplate_system_log" /\ r # "high_repetition_low_entropy"
  BY <1>3 DEF Reasons, AllReasons
<1>5. \/ v = Discarded(0, "empty_text")
      \/ v = Discarded(0, "no_alphanumeric_tokens")
      \/ Passes(t, words, threshold) /\ v = Admitted(Rounded(t, words))
      \/ ~ Passes(t, words, threshold) /\ v = Discarded(Rounded(t, words), Reason(t, words))
  BY Zenon DEF Score
<1>6. ASSUME NEW q \in Nat, NEW r \in AllReasons, v = Discarded(q, r)
      PROVE  v \in Verdicts /\ ~ v.salient /\ v.score = q /\ v.reason = r
  BY <1>6 DEF Discarded, Verdicts
<1>7. ASSUME NEW q \in Nat, NEW r \in AllReasons,
             v = [score |-> q, salient |-> TRUE, reason |-> r]
      PROVE  v \in Verdicts /\ v.salient /\ v.score = q /\ v.reason = r
  BY <1>7 DEF Verdicts
<1>8. CASE Passes(t, words, threshold) /\ v = Admitted(Rounded(t, words))
  <2>1. v = [score |-> Rounded(t, words), salient |-> TRUE, reason |-> ""]
    BY <1>8 DEF Admitted
  <2>2. v \in Verdicts /\ v.salient /\ v.score = Rounded(t, words) /\ v.reason = ""
    BY <1>2, <1>4, <1>7, <2>1
  <2> QED
    BY <1>8, <2>2
<1>9. CASE ~ Passes(t, words, threshold) /\ v = Discarded(Rounded(t, words), Reason(t, words))
  BY <1>2, <1>3, <1>4, <1>6, <1>9
<1>10. CASE v = Discarded(0, "empty_text")
  BY <1>4, <1>6, <1>10
<1>11. CASE v = Discarded(0, "no_alphanumeric_tokens")
  BY <1>4, <1>6, <1>11
<1> QED
  BY <1>5, <1>8, <1>9, <1>10, <1>11

LEMMA GateStep ==
  ASSUME GateInv, GateNext
  PROVE  GateInv'
<1>1. CASE GateChunk
  <2> DEFINE n == Len(verdicts)
  <2>1. /\ n < Len(window) /\ UNCHANGED << window, gate, task >>
        /\ verdicts' = Append(verdicts, Score(window[n + 1], task, gate))
    BY <1>1 DEF GateChunk
  <2>2. /\ window \in Seq(Chunks) /\ gate \in Int /\ task \in Nat \cup {-1}
        /\ verdicts \in Seq(Verdicts)
        /\ \A i \in 1 .. Len(verdicts) : verdicts[i] = Score(window[i], task, gate)
    BY DEF GateInv
  <2>3. window[n + 1] \in Chunks
    BY <2>1, <2>2
  <2>4. PICK v \in Verdicts : v = Score(window[n + 1], task, gate)
    BY <2>2, <2>3, VerdictFacts
  <2>5. verdicts' = Append(verdicts, v)
    BY <2>1, <2>4
  <2>6. /\ verdicts' \in Seq(Verdicts) /\ Len(verdicts') = n + 1 /\ verdicts'[n + 1] = v
        /\ \A i \in 1 .. n : verdicts'[i] = verdicts[i]
    BY <2>2, <2>5
  <2>7. Len(verdicts') <= Len(window)
    BY <2>1, <2>2, <2>6
  <2>8. \A i \in 1 .. Len(verdicts') : verdicts'[i] = Score(window[i], task, gate)
    BY <2>2, <2>4, <2>6
  <2>9. \A i : Score(window[i], task, gate)' = Score(window[i], task, gate)
    BY <2>1, Zenon
  <2> QED
    BY <2>1, <2>2, <2>6, <2>7, <2>8, <2>9 DEF GateInv
<1>2. CASE GateReply
  BY <1>2 DEF GateReply, GateInv
<1> QED
  BY <1>1, <1>2 DEF GateNext

LEMMA InvGates ==
  ASSUME GateInv
  PROVE  GateSound
<1> SUFFICES ASSUME NEW i \in 1 .. Len(verdicts)
             PROVE  /\ verdicts[i].salient <=> verdicts[i].reason = ""
                    /\ verdicts[i].salient =>
                         \A j \in Judged(FALSE) : verdicts[j].score <= verdicts[i].score
                    /\ window[i].alert => verdicts[i].reason \notin
                         {"boilerplate_system_log", "high_repetition_low_entropy"}
                    /\ window[i].boilerplate /\ ~window[i].alert /\ gate > 60 =>
                         ~verdicts[i].salient
  BY DEF GateSound
<1>1. gate \in Int /\ task \in Nat \cup {-1}
  BY DEF GateInv
<1>2. ASSUME NEW j \in 1 .. Len(verdicts)
      PROVE  window[j] \in Chunks /\ verdicts[j] = Score(window[j], task, gate)
  BY DEF GateInv
<1>3. ASSUME NEW j \in 1 .. Len(verdicts)
      PROVE  \/ /\ verdicts[j].salient /\ verdicts[j].reason = ""
                /\ Passes(window[j], task, gate)
                /\ verdicts[j].score = Rounded(window[j], task)
             \/ /\ ~ verdicts[j].salient /\ verdicts[j].reason # ""
                /\ \/ verdicts[j].score = 0
                   \/ /\ ~ Passes(window[j], task, gate)
                      /\ verdicts[j].score = Rounded(window[j], task)
                /\ window[j].alert => /\ verdicts[j].reason # "boilerplate_system_log"
                                      /\ verdicts[j].reason # "high_repetition_low_entropy"
  BY <1>1, <1>2, VerdictFacts
<1>4. ASSUME NEW j \in 1 .. Len(verdicts)
      PROVE  /\ Salience(window[j], task) \in Nat
             /\ window[j].boilerplate /\ ~ window[j].alert =>
                  Salience(window[j], task) <= BestBoilerplate
  <2>1. window[j] \in Chunks
    BY <1>2
  <2>2. task \in Nat \cup {-1}
    BY <1>1
  <2> QED
    BY <2>1, <2>2, SalienceBounded
<1>5. ASSUME verdicts[i].salient, NEW j \in Judged(FALSE)
      PROVE  verdicts[j].score <= verdicts[i].score
  <2>1. j \in 1 .. Len(verdicts) /\ ~ verdicts[j].salient
    BY DEF Judged
  <2>2. Passes(window[i], task, gate) /\ verdicts[i].score = Rounded(window[i], task)
    BY <1>3, <1>5
  <2>3. PICK a \in Nat : a = Salience(window[i], task)
    BY <1>4
  <2>4. PICK b \in Nat : b = Salience(window[j], task)
    BY <1>4, <2>1
  <2>5. \/ verdicts[j].score = 0
        \/ ~ Passes(window[j], task, gate) /\ verdicts[j].score = Rounded(window[j], task)
    BY <1>3, <2>1
  <2>6. ~ Passes(window[j], task, gate) => b <= a
    BY <1>1, <2>2, <2>3, <2>4 DEF Passes
  <2>7. verdicts[i].score = (a + 50) \div 100
    BY <2>2, <2>3 DEF Rounded
  <2>8. 0 <= (a + 50) \div 100
    OBVIOUS
  <2>9. b <= a => (b + 50) \div 100 <= (a + 50) \div 100
    OBVIOUS
  <2> QED
    BY <2>4, <2>5, <2>6, <2>7, <2>8, <2>9 DEF Rounded
<1>6. ASSUME window[i].boilerplate, ~window[i].alert, gate > 60, verdicts[i].salient
      PROVE  FALSE
  <2>1. Passes(window[i], task, gate)
    BY <1>3, <1>6
  <2>2. Salience(window[i], task) \in Nat /\ Salience(window[i], task) <= BestBoilerplate
    BY <1>4, <1>6
  <2> QED
    BY <1>1, <1>6, <2>1, <2>2 DEF Passes, BestBoilerplate
<1> QED
  BY <1>3, <1>5, <1>6

-----------------------------------------------------------------------------
(* The process *)

LEMMA WorkInitInv ==
  ASSUME WorkInit
  PROVE  WorkInv
<1>1. StartInv
  BY DEF WorkInit, StartupInit, StartInv, HasStarted
<1> QED
  BY <1>1 DEF WorkInit, WorkInv

\* What a started process has for a threshold is a number.
LEMMA ThresholdTyped ==
  ASSUME StartInv, startup = "serving"
  PROVE  cfg.floats["SEKHA_FILTER_THRESHOLD"] \in Int
<1>1. cfg = Loaded /\ env \in Environments
  BY DEF StartInv
<1>2. "SEKHA_FILTER_THRESHOLD" \in FloatKeys
  BY DEF FloatKeys, FloatTable
<1>3. cfg.floats["SEKHA_FILTER_THRESHOLD"] = FloatVal("SEKHA_FILTER_THRESHOLD")
  BY <1>1, <1>2 DEF Loaded
<1>4. FloatTable["SEKHA_FILTER_THRESHOLD"].min \in Int /\ FloatTable["SEKHA_FILTER_THRESHOLD"].max \in Int
  BY DEF FloatTable
<1> QED
  BY <1>1, <1>2, <1>3, <1>4, FloatVals DEF NaN

LEMMA ScoringIdleStays ==
  ASSUME ScoringIdle, UNCHANGED scoringVars
  PROVE  ScoringIdle'
  BY DEF ScoringIdle, scoringVars

LEMMA GateIdleStays ==
  ASSUME GateIdle, UNCHANGED gateVars
  PROVE  GateIdle'
  BY DEF GateIdle, gateVars

LEMMA ScoringInvStays ==
  ASSUME ScoringInv, UNCHANGED scoringVars
  PROVE  ScoringInv'
  BY DEF ScoringInv, OwnScores, GoodScored, Nils, N, scoringVars

LEMMA GateInvStays ==
  ASSUME GateInv, UNCHANGED gateVars
  PROVE  GateInv'
<1>1. UNCHANGED << window, gate, task, verdicts >>
  BY DEF gateVars
<1>2. \A i : Score(window[i], task, gate)' = Score(window[i], task, gate)
  BY <1>1, Zenon
<1> QED
  BY <1>1, <1>2 DEF GateInv

\* The scorer begins with what the floor has kept.
LEMMA ScoringBegins ==
  ASSUME ScoringIdle, BeginScoring
  PROVE  ScoringInv'
<1>1. /\ texts' \in Inputs /\ Len(texts') = kept /\ mode' \in Modes
      /\ scores' = [i \in 1 .. kept |-> "nil"]
      /\ UNCHANGED << phase, next, vecs, status, trouble >>
  BY DEF BeginScoring
<1>2. texts' \in Seq(Kinds) /\ mode' \in {"task", "no_task", "disabled"}
  BY <1>1, ScoringAssumption DEF Modes
<1>3. phase' = "start" /\ vecs' = << >> /\ next' = 1 /\ trouble' = FALSE
  BY <1>1 DEF ScoringIdle
<1> QED
  BY <1>1, <1>2, <1>3 DEF ScoringInv, OwnScores, Nils, N

LEMMA GateBegins ==
  ASSUME NEW r \in FilterRequests, BeginGate(r), GateIdle,
         cfg.floats["SEKHA_FILTER_THRESHOLD"] \in Int
  PROVE  GateInv'
<1> DEFINE configured == cfg.floats["SEKHA_FILTER_THRESHOLD"]
<1>1. r.url \in Int /\ r.body \in Int /\ r.task \in Nat \cup {-1} /\ r.window \in Seq(Chunks)
  BY FilterAssumption
<1>2. window' = r.window /\ task' = r.task /\ gate' = Threshold(r.url, r.body, configured)
  BY DEF BeginGate
<1>3. verdicts' = << >>
  BY DEF BeginGate, GateIdle
<1>4. gate' \in Int
  BY <1>1, <1>2 DEF Threshold, DefaultThreshold
<1>5. /\ verdicts' \in Seq(Verdicts) /\ Len(verdicts') = 0 /\ Len(window') \in Nat
  BY <1>1, <1>2, <1>3
<1> QED
  BY <1>1, <1>2, <1>4, <1>5 DEF GateInv

LEMMA WorkStepKeepsInv ==
  ASSUME WorkInv, [WorkNext]_workVars
  PROVE  WorkInv'
<1>1. ASSUME Start PROVE WorkInv'
  <2>1. stage = "startup" /\ StartupNext /\ stage' = "startup"
        /\ UNCHANGED scoringVars /\ UNCHANGED gateVars
    BY <1>1 DEF Start
  <2>2. StartInv'
    BY <2>1, StartStepKeepsInv DEF WorkInv
  <2> QED
    BY <2>1, <2>2, ScoringIdleStays, GateIdleStays DEF WorkInv
<1>2. ASSUME Ready PROVE WorkInv'
  <2>1. /\ stage = "startup" /\ startup = "serving" /\ stage' = "ready" /\ startup' = "done"
        /\ cfg' = [NoConfig EXCEPT
             !.provider = cfg.provider,
             !.floats["SEKHA_FILTER_THRESHOLD"] = cfg.floats["SEKHA_FILTER_THRESHOLD"]]
        /\ UNCHANGED scoringVars /\ UNCHANGED gateVars
    BY <1>2 DEF Ready
  <2>2. cfg.floats["SEKHA_FILTER_THRESHOLD"] \in Int
    BY <2>1, ThresholdTyped DEF WorkInv
  <2>3. "SEKHA_FILTER_THRESHOLD" \in FloatKeys
    BY DEF FloatKeys, FloatTable
  <2>4. cfg'.floats["SEKHA_FILTER_THRESHOLD"] = cfg.floats["SEKHA_FILTER_THRESHOLD"]
    BY <2>1, <2>3 DEF NoConfig
  <2> QED
    BY <2>1, <2>2, <2>4, ScoringIdleStays, GateIdleStays DEF WorkInv
<1>3. ASSUME stage \notin {"startup", "score", "filter"}, stage' \in {"split", "kept"},
             startup' = startup, UNCHANGED scoringVars, UNCHANGED gateVars
      PROVE  WorkInv'
  BY <1>3, ScoringIdleStays, GateIdleStays DEF WorkInv
<1>4. ASSUME BeginSplit PROVE WorkInv'
  BY <1>3, <1>4 DEF BeginSplit
<1>5. ASSUME CutUp PROVE WorkInv'
  BY <1>3, <1>5 DEF CutUp, startupVars
<1>6. ASSUME Keep PROVE WorkInv'
  BY <1>3, <1>6 DEF Keep, startupVars
<1>7. ASSUME BeginScoring PROVE WorkInv'
  <2>1. /\ stage = "kept" /\ stage' = "score" /\ startup' = startup /\ UNCHANGED gateVars
    BY <1>7 DEF BeginScoring, startupVars
  <2>2. ScoringInv'
    BY <1>7, <2>1, ScoringBegins DEF WorkInv
  <2> QED
    BY <2>1, <2>2, GateIdleStays DEF WorkInv
<1>8. ASSUME ScoreUp PROVE WorkInv'
  <2>1. /\ stage = "score" /\ stage' = "score" /\ startup' = startup /\ UNCHANGED gateVars
        /\ ScoringNext
    BY <1>8 DEF ScoreUp, startupVars
  <2>2. ScoringInv'
    BY <2>1, ScoringStep DEF WorkInv
  <2> QED
    BY <2>1, <2>2, GateIdleStays DEF WorkInv
<1>9. ASSUME BeginFilter PROVE WorkInv'
  <2>1. /\ stage = "ready" /\ stage' = "filter" /\ startup' = startup /\ UNCHANGED scoringVars
    BY <1>9 DEF BeginFilter
  <2>2. PICK r \in FilterRequests : BeginGate(r)
    BY <1>9 DEF BeginFilter
  <2>3. GateInv'
    BY <2>1, <2>2, GateBegins DEF WorkInv
  <2> QED
    BY <2>1, <2>3, ScoringIdleStays DEF WorkInv
<1>10. ASSUME Filter PROVE WorkInv'
  <2>1. /\ stage = "filter" /\ stage' = "filter" /\ startup' = startup /\ UNCHANGED scoringVars
        /\ GateNext
    BY <1>10 DEF Filter, startupVars
  <2>2. GateInv'
    BY <2>1, GateStep DEF WorkInv
  <2> QED
    BY <2>1, <2>2, ScoringIdleStays DEF WorkInv
<1>11. ASSUME UNCHANGED workVars PROVE WorkInv'
  <2>1. UNCHANGED << startupVars, scoringVars, gateVars, stage >>
    BY <1>11 DEF workVars
  <2>2. StartInv => StartInv'
    BY <2>1, StartStepKeepsInv
  <2>3. cfg' = cfg /\ startup' = startup /\ stage' = stage
    BY <2>1 DEF startupVars
  <2> QED
    BY <2>1, <2>2, <2>3, ScoringIdleStays, ScoringInvStays, GateIdleStays, GateInvStays
    DEF WorkInv
<1> QED
  BY <1>1, <1>2, <1>4, <1>5, <1>6, <1>7, <1>8, <1>9, <1>10, <1>11 DEF WorkNext

\* Each stage of a process keeps its own invariant, and finds the others idle.
THEOREM WorkInvariance == WorkSpec => []WorkInv
<1>1. WorkInit => WorkInv
  BY WorkInitInv
<1>2. WorkInv /\ [WorkNext]_workVars => WorkInv'
  BY WorkStepKeepsInv
<1> QED
  BY <1>1, <1>2, PTL DEF WorkSpec

-----------------------------------------------------------------------------
(* What follows *)

\* Whatever the environment: a process that gets as far as its buffer meets the
\* assumptions of the other modules, here with all that a process does afterwards.
THEOREM WorkStartsSound == WorkSpec => []StartsSound
<1>1. ASSUME WorkInv PROVE StartsSound
  <2>1. CASE stage = "startup"
    BY <1>1, <2>1, InvStartsSound DEF WorkInv
  <2>2. CASE stage # "startup"
    BY <1>1, <2>2 DEF WorkInv, StartsSound, HasStarted
  <2> QED
    BY <2>1, <2>2
<1> QED
  BY <1>1, WorkInvariance, PTL

\* What runs has the value that was written for every key that was given, but for a
\* product that is no word and for NaN.
THEOREM WorkRunsAsWritten == WorkSpec => []RunsAsWritten
<1>1. ASSUME WorkInv PROVE RunsAsWritten
  <2>1. CASE stage = "startup"
    BY <1>1, <2>1, InvRunsAsWritten DEF WorkInv
  <2>2. CASE stage # "startup"
    BY <1>1, <2>2 DEF WorkInv, RunsAsWritten, HasStarted
  <2> QED
    BY <2>1, <2>2
<1> QED
  BY <1>1, WorkInvariance, PTL

\* Whatever the embedder does, and in whatever order: a chunk has its own score or none.
THEOREM AlwaysRoutedByOwnScore == WorkSpec => []RoutedByOwnScore
<1>1. ScoringIdle => RoutedByOwnScore
  BY DEF ScoringIdle, RoutedByOwnScore
<1>2. WorkInv => RoutedByOwnScore
  BY <1>1, InvRoutes DEF WorkInv
<1> QED
  BY <1>2, WorkInvariance, PTL

\* An embedder that rejects bad texts only leaves only these unscored.
THEOREM OnlyBadAlwaysUnscored == WorkSpec => []OnlyBadUnscored
<1>1. ScoringIdle => OnlyBadUnscored
  BY DEF ScoringIdle, OnlyBadUnscored
<1>2. WorkInv => OnlyBadUnscored
  BY <1>1, InvScoresGood DEF WorkInv
<1> QED
  BY <1>2, WorkInvariance, PTL

\* Records, telemetry and reply always agree on what is scored.
THEOREM ReportsAlwaysAgree == WorkSpec => []ReportsAgree
<1>1. ScoringIdle => ReportsAgree
  BY DEF ScoringIdle, ReportsAgree
<1>2. WorkInv => ReportsAgree
  BY <1>1, InvReports DEF WorkInv
<1> QED
  BY <1>2, WorkInvariance, PTL

\* Verdict, reason and rounded score of the filter fit together, for every
\* combination of features and every threshold.
THEOREM GateAlwaysSound == WorkSpec => []GateSound
<1>1. GateIdle => GateSound
  <2>1. GateIdle => 1 .. Len(verdicts) = {}
    BY DEF GateIdle
  <2> QED
    BY <2>1, Zenon DEF GateSound
<1>2. WorkInv => GateSound
  BY <1>1, InvGates DEF WorkInv
<1> QED
  BY <1>2, WorkInvariance, PTL

\* The invariant of the splitter, in its stage and outside.
LEMMA CutStep ==
  ASSUME CutInv, [WorkNext]_workVars
  PROVE  CutInv'
<1>1. ASSUME stage' = stage, UNCHANGED splitVars PROVE CutInv'
  <2>1. text' = text /\ maxBytes' = maxBytes /\ remaining' = remaining /\ chunks' = chunks /\ done' = done
    BY <1>1 DEF splitVars
  <2> QED
    BY <1>1, <2>1, Zenon DEF CutInv, SplitInv, PiecesSound, PieceSound, TakenWhole,
                             WholeRunes, RunesInside
<1>2. ASSUME stage # "split", stage' # "split", UNCHANGED << chunks, done >> PROVE CutInv'
  BY <1>2 DEF CutInv
<1>3. ASSUME BeginSplit PROVE CutInv'
  <2>1. /\ stage = "ready" /\ stage' = "split"
        /\ text' \in Texts /\ maxBytes' \in Limits /\ remaining' = text' /\ chunks' = chunks
    BY <1>3 DEF BeginSplit
  <2>2. chunks' = << >>
    BY <2>1 DEF CutInv
  <2>3. /\ maxBytes' \in Nat \ {0} /\ text' \in Seq(Bytes)
        /\ text' # << >> => text'[1] \notin Spaces /\ text'[Len(text')] \notin Spaces
    BY <2>1, TextAssumption
  <2>4. WholeRunes(text)' => RunesInside(remaining)' /\ (remaining' # << >> => remaining'[1] # "c")
    BY <2>1, Zenon DEF WholeRunes, RunesInside
  <2>5. PiecesSound'
    <3>1. 1 .. Len(chunks') = {}
      BY <2>2
    <3> QED
      BY <3>1, Zenon DEF PiecesSound
  <2>6. chunks' \in Seq(Seq(Bytes))
    BY <2>2
  <2>7. SplitInv'
    <3>1. remaining' \in Seq(Bytes)
      BY <2>1, <2>3
    <3> QED
      BY <2>1, <2>3, <2>4, <2>5, <2>6, <3>1, Zenon DEF SplitInv
  <2> QED
    BY <2>1, <2>7 DEF CutInv
<1>4. ASSUME CutUp PROVE CutInv'
  <2>1. SplitInv /\ SplitNext /\ stage' = "split"
    BY <1>4 DEF CutUp, CutInv
  <2> QED
    BY <2>1, SplitStep DEF CutInv
<1>5. ASSUME Keep PROVE CutInv'
  BY <1>5 DEF Keep, CutInv
<1>6. ASSUME Start \/ Ready \/ BeginScoring \/ ScoreUp \/ BeginFilter \/ Filter
      PROVE  CutInv'
  <2>1. stage # "split" /\ stage' # "split" /\ UNCHANGED << chunks, done >>
    BY <1>6 DEF Start, Ready, BeginScoring, ScoreUp, BeginFilter, Filter, splitVars
  <2> QED
    BY <1>2, <2>1
<1>7. ASSUME UNCHANGED workVars PROVE CutInv'
  <2>1. stage' = stage /\ UNCHANGED splitVars
    BY <1>7 DEF workVars, splitVars
  <2> QED
    BY <1>1, <2>1
<1> QED
  BY <1>3, <1>4, <1>5, <1>6, <1>7, Zenon DEF WorkNext

\* What remains of a text begins and ends with something solid, with a whole rune, in
\* every iteration, for every text and every limit.
THEOREM CutInvariance == WorkSpec => []CutInv
<1>1. WorkInit => CutInv
  BY DEF WorkInit, SplitIdle, CutInv
<1>2. CutInv /\ [WorkNext]_workVars => CutInv'
  BY CutStep
<1> QED
  BY <1>1, <1>2, PTL DEF WorkSpec

\* No piece is blank or begins inside a rune, and only a word that was taken whole is
\* longer than the limit, for every text, every limit and every rule that makes a cut.
THEOREM PiecesAlwaysSound == WorkSpec => []PiecesSound
<1>1. CutInv => PiecesSound
  <2>1. ASSUME chunks = << >> PROVE PiecesSound
    <3>1. 1 .. Len(chunks) = {}
      BY <2>1
    <3> QED
      BY <3>1, Zenon DEF PiecesSound
  <2> QED
    BY <2>1 DEF CutInv, SplitInv
<1> QED
  BY <1>1, CutInvariance, PTL

\* What one iteration of the splitter does, as NothingLost says it.
LostNothing ==
  LET added == SubSeq(chunks', Len(chunks) + 1, Len(chunks'))
      piece == IF added = << >> THEN << >> ELSE added[1]
      rest  == Len(remaining) - Len(remaining')
  IN  /\ Len(added) <= 1
      /\ chunks' = chunks \o added
      /\ piece = SubSeq(remaining, 1, Len(piece))
      /\ remaining' = SubSeq(remaining, rest + 1, Len(remaining))
      /\ \A i \in 1 .. rest : i > Len(piece) => remaining[i] \in Spaces

LEMMA AppendedPiece ==
  ASSUME NEW S, NEW s \in Seq(Seq(S)), NEW p \in Seq(S)
  PROVE  /\ SubSeq(Append(s, p), Len(s) + 1, Len(Append(s, p))) = << p >>
         /\ s \o << p >> = Append(s, p)
         /\ SubSeq(s, Len(s) + 1, Len(s)) = << >>
         /\ s \o << >> = s
<1> DEFINE T == Seq(S)
<1>0. s \in Seq(T) /\ p \in T
  OBVIOUS
<1> HIDE DEF T
<1>1. Len(s) \in Nat /\ Append(s, p) \in Seq(T) /\ Len(Append(s, p)) = Len(s) + 1
      /\ Append(s, p)[Len(s) + 1] = p
  BY <1>0
<1>2. SubSeq(Append(s, p), Len(s) + 1, Len(Append(s, p))) = << p >>
  <2> DEFINE a == Append(s, p)
             k == Len(s) + 1
  <2>1. a \in Seq(T) /\ k \in 1 .. Len(a) /\ Len(a) = k /\ a[k] = p
    BY <1>1
  <2> HIDE DEF a, k
  <2>2. SubSeq(a, k, k) \in Seq(T) /\ Len(SubSeq(a, k, k)) = 1 /\ SubSeq(a, k, k)[1] = p
    BY <2>1
  <2>3. SubSeq(a, k, k) = << p >>
    <3> DEFINE u == SubSeq(a, k, k)
               v == << p >>
    <3>1. v \in Seq(T) /\ Len(v) = 1 /\ v[1] = p
      BY <1>0
    <3>2. u \in Seq(T) /\ Len(u) = 1 /\ u[1] = p
      BY <2>2
    <3> HIDE DEF u, v
    <3>3. \A i \in 1 .. Len(u) : u[i] = v[i]
      BY <3>1, <3>2
    <3>4. u = v
      BY <3>1, <3>2, <3>3, SeqEqual
    <3> QED
      BY <3>4 DEF u, v
  <2> QED
    BY <2>1, <2>3 DEF a, k
<1>3. s \o << p >> = Append(s, p)
  BY <1>0
<1>4. SubSeq(s, Len(s) + 1, Len(s)) = << >>
  BY <1>0
<1>5. s \o << >> = s
  BY <1>0
<1> QED
  BY <1>2, <1>3, <1>4, <1>5

LEMMA StepLosesNothing ==
  ASSUME SplitInv, SplitNext
  PROVE  LostNothing
<1> DEFINE added == SubSeq(chunks', Len(chunks) + 1, Len(chunks'))
           piece == IF added = << >> THEN << >> ELSE added[1]
           n == Len(remaining)
           rest == n - Len(remaining')
<1>0. chunks \in Seq(Seq(Bytes)) /\ remaining \in Seq(Bytes) /\ n \in Nat
  BY DEF SplitInv
<1>1. ASSUME NEW p \in Seq(Bytes), p # << >>, chunks' = Append(chunks, p)
      PROVE  Len(added) <= 1 /\ chunks' = chunks \o added /\ piece = p
  <2>1. added = << p >>
    BY <1>0, <1>1, AppendedPiece
  <2>2. chunks' = chunks \o << p >>
    BY <1>0, <1>1, AppendedPiece
  <2> HIDE DEF added
  <2> QED
    BY <2>1, <2>2
<1>2. ASSUME SplitOnce PROVE LostNothing
  <2>1. PICK m, q \in 1 .. n :
          /\ m < q
          /\ chunks' = Append(chunks, SubSeq(remaining, 1, m))
          /\ remaining' = SubSeq(remaining, q, n)
          /\ \A i \in m + 1 .. q - 1 : remaining[i] \in Spaces
    BY <1>2, SplitOnceFacts
  <2> DEFINE p == SubSeq(remaining, 1, m)
  <2>2. p \in Seq(Bytes) /\ Len(p) = m /\ p # << >>
    <3>1. p \in Seq(Bytes) /\ Len(p) = m
      BY <1>0
    <3>2. m # 0
      BY <1>0
    <3> HIDE DEF p
    <3> QED
      BY <3>1, <3>2
  <2>3. Len(remaining') = n - q + 1 /\ rest = q - 1 /\ rest + 1 = q
    BY <1>0, <2>1
  <2>4. Len(added) <= 1 /\ chunks' = chunks \o added /\ piece = p
    <3> HIDE DEF added, piece, p
    <3>1. chunks' = Append(chunks, p)
      BY <2>1 DEF p
    <3> QED
      BY <1>1, <2>2, <3>1
  <2> HIDE DEF added, piece, rest
  <2>5. piece = SubSeq(remaining, 1, Len(piece)) /\ Len(piece) = m
    BY <2>2, <2>4
  <2>6. remaining' = SubSeq(remaining, rest + 1, n)
    BY <2>1, <2>3
  <2>7. \A i \in 1 .. rest : i > Len(piece) => remaining[i] \in Spaces
    BY <1>0, <2>1, <2>3, <2>5
  <2> QED
    BY <2>4, <2>5, <2>6, <2>7, Zenon DEF LostNothing, added, piece, rest, n
<1>3. ASSUME Return PROVE LostNothing
  <2>1. chunks' = WithPiece(remaining) /\ remaining' = << >>
    BY <1>3 DEF Return
  <2>2. rest = n /\ SubSeq(remaining, rest + 1, n) = << >> /\ SubSeq(remaining, 1, n) = remaining
    BY <1>0, <2>1
  <2>3. Len(added) <= 1 /\ chunks' = chunks \o added /\ piece = remaining
    <3>1. CASE remaining = << >>
      <4>1. chunks' = chunks
        BY <2>1, <3>1 DEF WithPiece
      <4>2. added = << >> /\ chunks' = chunks \o << >>
        BY <1>0, <4>1, AppendedPiece
      <4> HIDE DEF added
      <4> QED
        BY <3>1, <4>2
    <3>2. CASE remaining # << >>
      <4>1. chunks' = Append(chunks, remaining)
        BY <2>1, <3>2 DEF WithPiece
      <4> HIDE DEF added, piece
      <4> QED
        BY <1>0, <1>1, <3>2, <4>1
    <3> QED
      BY <3>1, <3>2
  <2> HIDE DEF added, piece, rest
  <2>4. /\ piece = SubSeq(remaining, 1, Len(piece))
        /\ remaining' = SubSeq(remaining, rest + 1, n)
        /\ \A i \in 1 .. rest : i > Len(piece) => remaining[i] \in Spaces
    BY <1>0, <2>1, <2>2, <2>3
  <2> QED
    BY <2>3, <2>4, Zenon DEF LostNothing, added, piece, rest, n
<1> QED
  BY <1>2, <1>3 DEF SplitNext

\* No iteration loses, repeats or moves anything but white space, for every text and
\* every limit.
THEOREM NothingEverLost == WorkSpec => NothingLost
<1>1. ASSUME CutInv, [WorkNext]_workVars PROVE [~done => LostNothing]_splitVars
  <2>1. CASE CutUp
    <3>1. SplitInv /\ SplitNext
      BY <1>1, <2>1 DEF CutUp, CutInv
    <3> QED
      BY <3>1, StepLosesNothing
  <2>2. CASE BeginSplit
    BY <1>1, <2>2 DEF BeginSplit, CutInv
  <2>3. CASE Keep
    BY <2>3 DEF Keep
  <2>4. CASE Start \/ Ready \/ BeginScoring \/ ScoreUp \/ BeginFilter \/ Filter
    BY <2>4, Zenon DEF Start, Ready, BeginScoring, ScoreUp, BeginFilter, Filter, splitVars
  <2>5. CASE UNCHANGED workVars
    BY <2>5 DEF workVars, splitVars
  <2> QED
    BY <1>1, <2>1, <2>2, <2>3, <2>4, <2>5 DEF WorkNext
<1>2. NothingLost <=> [][~done => LostNothing]_splitVars
  BY PTL DEF NothingLost, LostNothing
<1> QED
  BY <1>1, <1>2, CutInvariance, PTL DEF WorkSpec

=============================================================================
