---------------------------- MODULE Configuration ----------------------------
(***************************************************************************)
(* Start-up: Load of internal/config/config.go and the first half of main  *)
(* (cmd/server/main.go), up to the server that listens.                    *)
(*                                                                         *)
(* The text of a variable is abstracted to what the parsers tell apart:    *)
(* blank; an integer; a decimal number, in hundredths; NaN, which          *)
(* ParseFloat accepts; a list of types; a name; or none of these.  Integers*)
(* and durations have the width of a word, which is scaled down, and       *)
(* products wrap around.  Left out are the keys that any text is valid for *)
(* (host, API keys, model, embedding URL).                                 *)
(***************************************************************************)
EXTENDS Integers

CONSTANTS
  Environments,  \* the environments main may be started in: keys to texts
  FlagSets,      \* the flags it may be started with: names to integers
  WordMax,       \* the largest int, int64 and time.Duration
  Millisecond,   \* time.Millisecond
  Megabyte       \* 1024 * 1024

Second == 1000 * Millisecond

Types == {"dialogue", "document", "log"}

IntKey(def, min, unit) == [def |-> def, min |-> min, unit |-> unit]

\* Default and minimum of every key that intVal reads, and what Load (or, for the
\* capacity, main) multiplies the value by.
IntTable == [
  SEKHA_PORT                       |-> IntKey(8081, 1, 1),
  SEKHA_CAPACITY_MB                |-> IntKey(64, 1, Megabyte),
  SEKHA_MAX_BODY_BYTES             |-> IntKey(16777216, 1, 1),
  SEKHA_HTTP_WRITE_TIMEOUT_S       |-> IntKey(120, 1, Second),
  SEKHA_CHUNK_MAX_BYTES            |-> IntKey(1024, 64, 1),
  SEKHA_EMBED_DIM                  |-> IntKey(384, 1, 1),
  SEKHA_EMBED_TIMEOUT_MS           |-> IntKey(10000, 1, Millisecond),
  SEKHA_EMBED_BATCH_SIZE           |-> IntKey(32, 1, 1),
  SEKHA_DRAIN_MAX_DEFAULT          |-> IntKey(256, 1, 1),
  SEKHA_DRAIN_MAX_LIMIT            |-> IntKey(4096, 1, 1),
  SEKHA_BACKPRESSURE_RETRY_AFTER_S |-> IntKey(5, 0, 1),
  SEKHA_PUSH_BATCH                 |-> IntKey(256, 1, 1),
  SEKHA_PUSH_INTERVAL_MS           |-> IntKey(1000, 10, Millisecond),
  SEKHA_PUSH_MAX_BACKOFF_MS        |-> IntKey(30000, 10, Millisecond),
  SEKHA_PUSH_TIMEOUT_MS            |-> IntKey(10000, 1, Millisecond),
  SEKHA_PUSH_MAX_BODY_BYTES        |-> IntKey(8388608, 4096, 1)]

IntKeys == DOMAIN IntTable

DurationKeys == {"SEKHA_HTTP_WRITE_TIMEOUT_S", "SEKHA_EMBED_TIMEOUT_MS", "SEKHA_PUSH_INTERVAL_MS",
                 "SEKHA_PUSH_MAX_BACKOFF_MS", "SEKHA_PUSH_TIMEOUT_MS"}

\* Of these Config has the value itself; of a duration only the product.
PlainKeys == IntKeys \ DurationKeys

FloatTable == [
  SEKHA_STRONG_THRESHOLD |-> [def |-> 30, min |-> -100, max |-> 100],
  SEKHA_FILTER_THRESHOLD |-> [def |-> 75, min |-> 1, max |-> 99]]

FloatKeys == DOMAIN FloatTable

TypeTable == [
  SEKHA_FLOOR_HEARTBEAT_TYPES |-> {"log"},
  SEKHA_FLOOR_DEDUP_TYPES     |-> Types]

TypeKeys == DOMAIN TypeTable

RegexKeys == {"SEKHA_FLOOR_SEPARATOR_PATTERN", "SEKHA_FLOOR_HEARTBEAT_PATTERN",
              "SEKHA_FLOOR_HEARTBEAT_EXCLUDE_PATTERN"}

NameKeys == {"SEKHA_EMBED_PROVIDER", "SEKHA_PUSH_URL"}

Keys == IntKeys \cup FloatKeys \cup TypeKeys \cup RegexKeys \cup NameKeys

\* Regular expressions and names: "regex" compiles, "bad regex" does not.
Names == {"regex", "bad regex", "openai", "none", "http url", "other"}

\* A type list names members of Types and, as "chat", anything else.
EnvTexts == [kind  : {"blank", "int", "decimal", "nan", "types", "name"},
             n     : Int,
             types : SUBSET (Types \cup {"chat"}),
             name  : Names \cup {""}]

ASSUME ConfigurationAssumption ==
  /\ \A e \in Environments : DOMAIN e \subseteq Keys /\ \A k \in DOMAIN e : e[k] \in EnvTexts
  /\ \A f \in FlagSets : DOMAIN f \subseteq {"port", "capacity-mb"}
                         /\ \A k \in DOMAIN f : f[k] \in -WordMax .. WordMax
  /\ WordMax \in Nat /\ Millisecond \in Nat \ {0} /\ Megabyte \in Nat \ {0}
  /\ \A k \in IntKeys : IntTable[k].def * IntTable[k].unit <= WordMax

VARIABLES
  env,      \* what os.LookupEnv finds
  flags,    \* the command line
  cfg,      \* the result of Load
  errs,     \* the keys its error names
  buffer,   \* capacity of the buffer in bytes, 0 before there is one
  startup   \* "start", "loaded", "refused" (exit 1), "panic", "wired", "serving"

startupVars == << env, flags, cfg, errs, buffer, startup >>

-----------------------------------------------------------------------------
(* The loader *)

Wrapped(n) == ((n + WordMax + 1) % (2 * (WordMax + 1))) - (WordMax + 1)

\* raw: a variable that is set to white space counts as not set.
IsGiven(k) == k \in DOMAIN env /\ env[k].kind # "blank"

\* intVal and floatVal: the error, and the value.
BadInt(k) ==
  IsGiven(k) /\ ~(env[k].kind = "int" /\ env[k].n \in IntTable[k].min .. WordMax)

IntVal(k) == IF IsGiven(k) /\ ~BadInt(k) THEN env[k].n ELSE IntTable[k].def

\* Not a number: it is neither below nor above any bound.
NaN == -1000

Float(text) ==
  CASE text.kind = "int"     -> 100 * text.n
    [] text.kind = "decimal" -> text.n
    [] OTHER                 -> NaN

BadFloat(k) ==
  /\ IsGiven(k)
  /\ \/ env[k].kind \in {"types", "name"}
     \/ env[k].kind # "nan" /\ Float(env[k]) \notin FloatTable[k].min .. FloatTable[k].max

FloatVal(k) == IF IsGiven(k) /\ ~BadFloat(k) THEN Float(env[k]) ELSE FloatTable[k].def

BadRegex(k) == IsGiven(k) /\ env[k].name = "bad regex"

\* typeSet looks the variable up itself: one that is set, but blank, is the empty
\* set and not the default.
Listed(k) ==
  IF k \notin DOMAIN env THEN TypeTable[k]
  ELSE IF env[k].kind = "types" THEN env[k].types
  ELSE IF env[k].kind = "blank" THEN {} ELSE {"chat"}

TypeSet(k) == Listed(k) \cap Types

Provider ==
  IF IsGiven("SEKHA_EMBED_PROVIDER") THEN env["SEKHA_EMBED_PROVIDER"].name ELSE "openai"

PushURL == IF IsGiven("SEKHA_PUSH_URL") THEN env["SEKHA_PUSH_URL"].name ELSE ""

Duration(k) == Wrapped(IntVal(k) * IntTable[k].unit)

\* The checks that follow the look-ups.
BadTogether ==
  (IF Provider \notin {"openai", "none"} THEN {"SEKHA_EMBED_PROVIDER"} ELSE {})
    \cup (IF IntVal("SEKHA_DRAIN_MAX_DEFAULT") > IntVal("SEKHA_DRAIN_MAX_LIMIT")
            THEN {"SEKHA_DRAIN_MAX_DEFAULT"} ELSE {})
    \cup (IF IsGiven("SEKHA_PUSH_URL") /\ PushURL # "http url" THEN {"SEKHA_PUSH_URL"} ELSE {})
    \cup (IF Duration("SEKHA_PUSH_MAX_BACKOFF_MS") < Duration("SEKHA_PUSH_INTERVAL_MS")
            THEN {"SEKHA_PUSH_MAX_BACKOFF_MS"} ELSE {})

\* (mutant) typeSet skips an unknown type without an error.
Errors_UnknownTypesSkipped ==
  {k \in IntKeys : BadInt(k)}
    \cup {k \in FloatKeys : BadFloat(k)}
    \cup {k \in RegexKeys : BadRegex(k)}
    \cup BadTogether

\* The keys that the error of Load names: all that are at fault, not the first.
Errors ==
  {k \in IntKeys : BadInt(k)}
    \cup {k \in FloatKeys : BadFloat(k)}
    \cup {k \in RegexKeys : BadRegex(k)}
    \cup {k \in TypeKeys : ~(Listed(k) \subseteq Types)}
    \cup BadTogether

Loaded == [ints      |-> [k \in PlainKeys |-> IntVal(k)],
           durations |-> [k \in DurationKeys |-> Duration(k)],
           floats    |-> [k \in FloatKeys |-> FloatVal(k)],
           types     |-> [k \in TypeKeys |-> TypeSet(k)],
           provider  |-> Provider,
           pushURL   |-> PushURL]

-----------------------------------------------------------------------------
(* main *)

\* Load; an error ends the process with the list of all offending keys.
LoadConfig ==
  /\ startup = "start"
  /\ cfg' = Loaded
  /\ errs' = Errors
  /\ startup' = IF Errors = {} THEN "loaded" ELSE "refused"
  /\ UNCHANGED << env, flags, buffer >>

\* A flag replaces what Load made of the variable, and only the capacity is
\* checked again.
CapacityMB ==
  IF "capacity-mb" \in DOMAIN flags THEN flags["capacity-mb"]
                                    ELSE cfg.ints["SEKHA_CAPACITY_MB"]

Port == IF "port" \in DOMAIN flags THEN flags["port"] ELSE cfg.ints["SEKHA_PORT"]

\* (mutant) New takes any capacity.
OpenBuffer_NoPanic ==
  /\ startup = "loaded"
  /\ CapacityMB > 0
  /\ buffer' = Wrapped(CapacityMB * Megabyte)
  /\ startup' = "wired"
  /\ UNCHANGED << env, flags, cfg, errs >>

\* The buffer is made; buffer.New panics on a capacity that is not positive.
OpenBuffer ==
  /\ startup = "loaded"
  /\ IF CapacityMB <= 0
       THEN startup' = "refused" /\ UNCHANGED buffer
       ELSE /\ buffer' = Wrapped(CapacityMB * Megabyte)
            /\ startup' = IF buffer' <= 0 THEN "panic" ELSE "wired"
  /\ UNCHANGED << env, flags, cfg, errs >>

\* What a socket can listen on.
Ports == 0 .. 65535

\* ListenAndServe fails on what is no port, and may fail on one that is in use.
Listen ==
  /\ startup = "wired"
  /\ \/ startup' = "refused"
     \/ Port \in Ports /\ startup' = "serving"
  /\ UNCHANGED << env, flags, cfg, errs, buffer >>

\* Before Load there is no cfg.
NoConfig == [ints      |-> [k \in PlainKeys |-> 0],
             durations |-> [k \in DurationKeys |-> 0],
             floats    |-> [k \in FloatKeys |-> 0],
             types     |-> [k \in TypeKeys |-> {}],
             provider  |-> "",
             pushURL   |-> ""]

StartupInit ==
  /\ env \in Environments
  /\ flags \in FlagSets
  /\ cfg = NoConfig
  /\ errs = {}
  /\ buffer = 0
  /\ startup = "start"

StartupNext == LoadConfig \/ OpenBuffer \/ Listen

StartupSpec == StartupInit /\ [][StartupNext]_startupVars

-----------------------------------------------------------------------------
(* What makes a start-up correct *)

HasStarted == startup \in {"wired", "serving"}

\* The product of the value of k with its unit is a word.
Fits(k) == IntVal(k) * IntTable[k].unit <= WordMax

\* A process that gets as far as its buffer meets the assumptions of the other
\* modules: CapacityAssumption, PushAssumption, PullAssumption and
\* ScoringAssumption.  The capacity is positive and the delays are in order even
\* if a product overflowed.  That an overflowed delay is still a delay, and that
\* a threshold is not NaN, the code does not see to.
StartsSound ==
  HasStarted =>
    /\ buffer \in 1 .. WordMax
    /\ cfg.ints["SEKHA_DRAIN_MAX_DEFAULT"] \in 1 .. cfg.ints["SEKHA_DRAIN_MAX_LIMIT"]
    /\ cfg.durations["SEKHA_PUSH_INTERVAL_MS"] <= cfg.durations["SEKHA_PUSH_MAX_BACKOFF_MS"]
    /\ \A k \in DurationKeys :
         Fits(k) => cfg.durations[k] \in IntTable[k].min * IntTable[k].unit .. WordMax
    /\ \A k \in PlainKeys : cfg.ints[k] \in IntTable[k].min .. WordMax
    /\ \A k \in FloatKeys :
         cfg.floats[k] \in FloatTable[k].min .. FloatTable[k].max \cup {NaN}
    /\ \A k \in TypeKeys : cfg.types[k] \subseteq Types
    /\ cfg.provider \in {"openai", "none"}
    /\ cfg.pushURL \in {"", "http url"}

\* config.go: "Invalid values are a startup error rather than a silent fallback".
\* What a process runs with is what was written for every key that was given,
\* times the unit where there is one, whatever the other keys are.  Two kinds of
\* value are no error although they do not fit, and are the exceptions: of a
\* duration or a capacity whose product is no word the process has what is left
\* of it, and NaN is a threshold.
RunsAsWritten ==
  HasStarted =>
    /\ \A k \in PlainKeys : IsGiven(k) => cfg.ints[k] = env[k].n
    /\ \A k \in DurationKeys :
         IsGiven(k) /\ Fits(k) => cfg.durations[k] = env[k].n * IntTable[k].unit
    /\ CapacityMB * Megabyte <= WordMax => buffer = CapacityMB * Megabyte
    /\ \A k \in FloatKeys :
         IsGiven(k) => cfg.floats[k] = IF env[k].kind = "nan" THEN NaN ELSE Float(env[k])
    /\ \A k \in TypeKeys \cap DOMAIN env :
         cfg.types[k] = IF env[k].kind = "types" THEN env[k].types ELSE {}
    /\ IsGiven("SEKHA_PUSH_URL") <=> cfg.pushURL # ""

=============================================================================
