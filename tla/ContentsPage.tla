----------------------------- MODULE ContentsPage -----------------------------
(***************************************************************************)
(* The contents page of the web client: its table (contents-table.tsx) and *)
(* its semantic search (semantic-search-bar.tsx), both kept under keys     *)
(* that do not name the user (useContents, useSearchContents).  The API    *)
(* lists other contents to each user; when nobody is signed in a stand-in  *)
(* replaces its answer: the demonstration contents, or an empty result.    *)
(* One text is searched for.                                               *)
(***************************************************************************)
EXTENDS FiniteSets

CONSTANTS Users,
          Requests,        \* GETs under way at once
          Nobody

ASSUME ContentsPageAssumption == IsFiniteSet(Requests) /\ Nobody \notin Users

VARIABLES
  signedIn,   \* a user or Nobody
  shown,      \* each query: what its rows are of, and if its last request failed
  request,    \* under way; current: the one its query waits for
  filtered,   \* a tab or a text narrows the table
  searchBar,  \* whether its text is long enough to search, its focus
  (* History. *)
  lately      \* each query: its rows, or a request, are of the time of another user

contentsPage == <<signedIn, shown, request, filtered, searchBar, lately>>

Queries == {"contents", "contents-search"}
Sources == Users \cup {"standIn", "none"}
NoRequest == [what |-> "contents", by |-> "none", at |-> "idle", current |-> FALSE]

ContentsInit ==
  /\ signedIn = Nobody /\ shown = [w \in Queries |-> [of |-> "none", error |-> FALSE]]
  /\ request = [q \in Requests |-> NoRequest]
  /\ filtered = FALSE /\ searchBar = [long |-> FALSE, focused |-> FALSE]
  /\ lately = [w \in Queries |-> FALSE]

-----------------------------------------------------------------------------
(* The queries *)

Asked(w) == \E q \in Requests : request[q].current /\ request[q].what = w

\* Asked by the page, or asked again; an earlier answer under way is dropped.
\* The token is that of the moment.
Ask(q, w) ==
  /\ request[q].at = "idle"
  /\ request' = [r \in Requests |->
       IF r = q THEN [what |-> w, by |-> IF signedIn = Nobody THEN "standIn" ELSE signedIn,
                      at |-> "sent", current |-> TRUE]
       ELSE [request[r] EXCEPT !.current = (@ /\ request[r].what # w)]]
  /\ UNCHANGED <<signedIn, shown, filtered, searchBar, lately>>

useContents(q) == Ask(q, "contents")

useSearchContents(q) == searchBar.long /\ Ask(q, "contents-search")

\* strictWhenAuthenticated: the rows stay, with an error below them.
FallsBack(q) ==
  IF request[q].by = "standIn" THEN [of |-> "standIn", error |-> FALSE]
  ELSE [shown[request[q].what] EXCEPT !.error = TRUE]

\* The demonstration contents the API does not list are appended to those it
\* lists.  Only a cookie without a token would have it list any to nobody.
answers(q, ok) ==
  LET w == request[q].what IN
  /\ request[q].at = "sent"
  /\ ok => request[q].by # "standIn"
  /\ shown' = IF ~request[q].current THEN shown
              ELSE [shown EXCEPT ![w] = IF ok THEN [of |-> request[q].by, error |-> FALSE] ELSE FallsBack(q)]
  /\ lately' = IF ok /\ request[q].current /\ request[q].by = signedIn
               THEN [lately EXCEPT ![w] = FALSE] ELSE lately
  /\ request' = [request EXCEPT ![q] = NoRequest]
  /\ UNCHANGED <<signedIn, filtered, searchBar>>

\* Signing in or out leaves the rows that were fetched.
signs(u) ==
  /\ u # signedIn /\ signedIn' = u
  /\ lately' = [w \in Queries |-> lately[w] \/ shown[w].of # "none" \/ Asked(w)]
  /\ UNCHANGED <<shown, request, filtered, searchBar>>

setFilter ==
  /\ filtered' = ~filtered
  /\ UNCHANGED <<signedIn, shown, request, searchBar, lately>>

\* Typed, focused, or left 150 ms ago.
setSearch(long, focused) ==
  /\ searchBar' = [long |-> long, focused |-> focused] /\ searchBar' # searchBar
  /\ UNCHANGED <<signedIn, shown, request, filtered, lately>>

ContentsNext ==
  \/ \E q \in Requests :
       \/ useContents(q) \/ useSearchContents(q)
       \/ \E ok \in BOOLEAN : answers(q, ok)
  \/ \E long, focused \in BOOLEAN : setSearch(long, focused)
  \/ \E u \in Users \cup {Nobody} : signs(u)
  \/ setFilter

-----------------------------------------------------------------------------
ContentsTypeOK ==
  /\ signedIn \in Users \cup {Nobody} /\ shown \in [Queries -> [of : Sources, error : BOOLEAN]]
  /\ request \in [Requests -> [what : Queries, by : Sources, at : {"idle", "sent"}, current : BOOLEAN]]
  /\ lately \in [Queries -> BOOLEAN] /\ filtered \in BOOLEAN
  /\ searchBar \in [long : BOOLEAN, focused : BOOLEAN]

\* The rows on screen are those the API lists to who is signed in, and never
\* the stand-in for its answer (api-client.ts 211-259, queries/index.ts
\* 322-335 and 479-491): except from a change of user to the first rows asked
\* for after it.
RowsAreTheUsers ==
  \A w \in Queries : signedIn # Nobody /\ ~lately[w] => shown[w].of \in {"none", signedIn}
=============================================================================
