----------------------------- MODULE MCCommand -----------------------------
(***************************************************************************)
(* Command lines of every kind, directories with one thing wrong at each   *)
(* place or none, and all topics and filters of a few characters.          *)
(***************************************************************************)
EXTENDS Command

good(name) ==
  [name |-> name, flags |-> "good", args |-> 0, first |-> <<>>, depth |-> 1,
   count |-> 0, window |-> 30, env |-> TRUE]

discover == [good("discover") EXCEPT !.args = 1, !.first = <<"a">>, !.depth = 2]
capture  == [good("capture") EXCEPT !.args = 1, !.first = <<"#">>]

MCLine ==
  {good("run"), good("verify"), good("healthcheck"), good("version"), discover, capture,
   good("none"), [good("run") EXCEPT !.flags = "bad"], [good("run") EXCEPT !.flags = "help"],
   [good("verify") EXCEPT !.args = 1], [good("verify") EXCEPT !.env = FALSE],
   [discover EXCEPT !.depth = 0], [capture EXCEPT !.args = 0, !.first = <<>>],
   [capture EXCEPT !.count = 0 - 1]}

address(host, port) == [host |-> host, port |-> port]

mainAt(listen) ==
  [read |-> "decoded", sources |-> "sources/*.yaml", bad |-> FALSE, listen |-> listen]

usual == mainAt(address("", 9100))

source(name) == [read |-> "decoded", name |-> name, bad |-> FALSE]

directory(mainFile, sourceFiles) == [main |-> mainFile, files |-> sourceFiles]

MCDirectory ==
  {directory(usual, <<source("s"), source("t")>>),
   directory(usual, <<source("t"), source("s")>>),
   directory(mainAt(address("192.0.2.1", 9200)), <<source("s")>>),
   directory(mainAt(address("nonsense", 0)), <<source("s")>>),
   directory([usual EXCEPT !.read = "unset variable"], <<source("s")>>),
   directory([usual EXCEPT !.sources = ""], <<source("s")>>),
   directory([usual EXCEPT !.sources = "malformed"], <<source("s")>>),
   directory([usual EXCEPT !.bad = TRUE], <<source("s")>>),
   directory(usual, <<>>),
   directory(usual, <<source("s"), [source("t") EXCEPT !.read = "no YAML"]>>),
   directory(usual, <<source("s"), [source("t") EXCEPT !.bad = TRUE]>>)}

texts(chars, n) == UNION {[1 .. k -> chars] : k \in 1 .. n}

MCTopic == texts({"a", "b", "/"}, 4)

MCFilter ==
  LET plain == {filter \in texts({"a", "/", "+", "#"}, 4) : isFilter(filter)}
  IN  plain \cup {<<Shared>> \o filter : filter \in plain}
=============================================================================
