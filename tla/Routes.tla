------------------------------- MODULE Routes -------------------------------
(***************************************************************************)
(* HttpServer::handle_request: from the method and the path of a request   *)
(* to the handler it is given to.  The paths are strings here, because the *)
(* table compares prefixes whose lengths it writes down as numbers.        *)
(***************************************************************************)
EXTENDS Integers, Sequences, TLC

\* path.substr(0, n)
Substr(path, n) == SubSeq(path, 1, IF n < Len(path) THEN n ELSE Len(path))

\* A row: the whole path or, if first is not 0, its first characters.
Row(methods, first, path, handler) ==
  [methods |-> methods, first |-> first, path |-> path, handler |-> handler]

AnyMethod == {"GET", "POST"}

Table ==
  << Row(AnyMethod, 0, "/",                   "root"),
     Row(AnyMethod, 0, "/index.html",         "root"),
     Row({"GET"},  0, "/api/tasks",          "tasks"),
     Row({"POST"}, 0, "/api/query",          "query"),
     Row({"GET"}, 11, "/api/query?",         "query_status"),
     Row({"GET"},  0, "/metrics",            "metrics"),
     Row({"GET"},  0, "/api/stats",          "stats"),
     Row({"GET"},  0, "/api/history",        "history"),
     Row({"GET"}, 18, "/api/history/search", "history_search"),
     Row({"GET"}, 15, "/api/debate/",        "debate"),
     Row({"GET"}, 14, "/api/metrics/",       "advanced_metrics") >>

Matches(row, method, path) ==
  /\ method \in row.methods
  /\ IF row.first = 0 THEN path = row.path ELSE Substr(path, row.first) = row.path

\* The first row that matches; "none" is answered with 404 and a text that is
\* no JSON.
Route(method, path) ==
  LET rows == {k \in DOMAIN Table : Matches(Table[k], method, path)}
  IN  IF rows = {}
        THEN "none"
        ELSE Table[CHOOSE k \in rows : \A i \in rows : k <= i].handler
=============================================================================
