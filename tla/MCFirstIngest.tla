---------------------------- MODULE MCFirstIngest ----------------------------
(***************************************************************************)
(* Environments with up to two keys set, to every kind of text and to the  *)
(* values on both sides of a bound; texts of up to four tokens (words of   *)
(* one and of ten bytes, a rune of three, spaces, line breaks, punctuation)*)
(* in every order, which with the limits 1, 5 and 10 meet every rule of    *)
(* the splitter; and up to five pieces of every kind, in batches of two.   *)
(* One chunk with every combination of features on both sides of a limit,  *)
(* or up to two of a few that the rounding or the task makes alike.        *)
(***************************************************************************)
EXTENDS FirstIngest

\* Every default product fits a word; 33554432 = 2 ^ 25 is the first that does not.
MCWordMax     == 33554431
MCMillisecond == 2
MCMegabyte    == 1024

Text(kind) == [kind |-> kind, n |-> 0, types |-> {}, name |-> ""]
Number(k, i) == [Text(k) EXCEPT !.n = i]
Listing(s) == [Text("types") EXCEPT !.types = s]
Name(s) == [Text("name") EXCEPT !.name = s]

\* Values whose product with the unit of the key wraps around: to a negative one,
\* to zero or nearly so, and to a small one.
WrappingValues(unit) ==
  CASE unit = Megabyte    -> {32768, 65536, 65537}
    [] unit = Millisecond -> {16777216, 33554431}
    [] unit = Second      -> {16778, 33555}
    [] OTHER              -> {33554431}

\* At the minimum and below, above the default, and too large.
IntTexts(k) ==
  {Text("blank"), Number("decimal", 50), Name("other")}
    \cup {Number("int", i) :
            i \in {IntTable[k].min - 1, IntTable[k].min, 8000} \cup WrappingValues(IntTable[k].unit)}

FloatTexts == {Text("nan"), Number("decimal", 101), Number("decimal", 42), Number("int", 1), Name("other")}

TextsFor(k) ==
  CASE k \in IntKeys   -> IntTexts(k)
    [] k \in FloatKeys -> FloatTexts
    [] k \in TypeKeys  -> {Text("blank"), Listing({"log", "document"}), Listing({"log", "chat"})}
    [] k \in RegexKeys -> {Name("regex"), Name("bad regex")}
    [] OTHER           -> {Text("blank"), Name("none"), Name("http url"), Name("other")}

Singles == UNION {[{k} -> TextsFor(k)] : k \in Keys}

\* The keys that Load compares with one another, and the embedder.
Pairs ==
  UNION {{e \in [ks -> UNION {TextsFor(k) : k \in ks}] : \A k \in ks : e[k] \in TextsFor(k)} :
           ks \in {{"SEKHA_DRAIN_MAX_DEFAULT", "SEKHA_DRAIN_MAX_LIMIT"},
                   {"SEKHA_PUSH_INTERVAL_MS", "SEKHA_PUSH_MAX_BACKOFF_MS"},
                   {"SEKHA_EMBED_PROVIDER", "SEKHA_STRONG_THRESHOLD"}}}

NoKey == [k \in {} |-> Text("blank")]

MCEnvironments == {NoKey} \cup Singles \cup Pairs

MCFlagSets ==
  {[k \in {} |-> 0]} \cup [{"port"} -> {-1, 8080, 65536}] \cup [{"capacity-mb"} -> {0, 32768, 65537}]

Tokens == {<< "a" >>, [i \in 1 .. 10 |-> "a"], << "r", "c", "c" >>,
           << " " >>, << "n" >>, << "." >>, << "," >>}

Joined(tokens) == FoldLeft(LAMBDA a, b : a \o b, << >>, tokens)

MCTexts ==
  {s \in {Joined(tokens) : tokens \in UNION {[1 .. n -> Tokens] : n \in 0 .. 4}} :
     s # << >> => s[1] \notin Spaces /\ s[Len(s)] \notin Spaces}

MCLimits == {1, 5, 10}

\* Two words in three are repeated, or none; a task is hit by none or two.
Features ==
  {t \in [tokens : {1, 6, 12}, unique : {333, 1000}, content : {0, 1000}, entropy : {399, 1000},
          entities : {0, 1000}, repeats : BOOLEAN, alert : BOOLEAN, boilerplate : BOOLEAN,
          long : BOOLEAN, hits : {0, 2}] :
     /\ t.tokens = 1 => t.unique = 1000 /\ t.hits = 0
     /\ t.hits = 2 => t.content = 1000}

Plain == [tokens |-> 6, unique |-> 1000, content |-> 500, entropy |-> 600, entities |-> 0,
          repeats |-> FALSE, alert |-> FALSE, boilerplate |-> FALSE, long |-> FALSE, hits |-> 1]

\* Their scores are next to 0.45 or 0.75 and to one another; blank and wordless ones.
Alike ==
  {Plain, [Plain EXCEPT !.tokens = -1], [Plain EXCEPT !.tokens = 0], [Plain EXCEPT !.entities = 868],
   [Plain EXCEPT !.entities = 867], [Plain EXCEPT !.entities = 866], [Plain EXCEPT !.alert = TRUE]}

MCFilterRequests ==
  [url : {0}, body : {0}, task : {-1, 2}, window : {<< t >> : t \in Features}]
    \cup [url : {0, -1, 45}, body : {0, 60}, task : {-1, 0, 1}, window : {<< a, b >> : a, b \in Alike}]

MCInputs == UNION {[1 .. n -> Kinds] : n \in 0 .. 5}

=============================================================================
