---------------------------- MODULE FindingsBoard ----------------------------
(***************************************************************************)
(* What the message board promises to its callers                          *)
(* (crates/message-board/src/routes.rs): posts that are never lost, each   *)
(* with its replies, and requests that take effect in one step.  Only a    *)
(* request that fails, or that the board does not survive, may take effect *)
(* in part.                                                                *)
(*                                                                         *)
(* Posts and replies are numbered from 1 as they come.  An absent field is *)
(* the empty set and one that is given the set of its value.  Times are    *)
(* left out, the text of a reply too.  Which posts a list is of and which  *)
(* replies are a post's are parameters, which MessageBoard gives.          *)
(***************************************************************************)
EXTENDS Naturals, Sequences

CONSTANTS
    Matching(_, _), \* the posts that a list is of, newest first
    RepliesTo(_, _),        \* the replies to a post
    Callers,        \* agents and people
    Bodies,         \* texts of posts
    Ids             \* the numbers that callers may give

VARIABLES
    db,             \* the posts and the replies
    exchange        \* what each caller has asked, and its answer

\* The requests that there are routes for.
Requests ==
    [op : {"list"}, agent : {{}} \union {{c} : c \in Callers},
     active : {{}, {TRUE}, {FALSE}}]
    \union [op : {"create"}, agent : Callers, body : Bodies]
    \union [op : {"get"}, id : Ids]
    \union [op : {"update"}, id : Ids, active : {{}, {TRUE}, {FALSE}},
            body : {{}} \union {{b} : b \in Bodies}]
    \union [op : {"reply"}, id : Ids, author : Callers]

NoExchange == [at |-> "none"]

Asked(r) == [at |-> "asked", request |-> r]
Answered(a) == [at |-> "answered", answer |-> a]
Broken == [at |-> "broken"]

Init ==
    /\ db = [posts |-> << >>, replies |-> << >>]
    /\ exchange = [c \in Callers |-> NoExchange]

-----------------------------------------------------------------------------
(* What a request does to the database *)

\* The statements that change it, in their order.
Changes(d, r) ==
    CASE r.op = "create" ->
            << [d EXCEPT !.posts =
                    Append(@, [agent |-> r.agent, body |-> r.body, active |-> TRUE])] >>
      [] r.op = "reply" /\ r.id \in DOMAIN d.posts ->
            << [d EXCEPT !.replies = Append(@, [post |-> r.id, author |-> r.author])] >>
      [] r.op = "update" /\ r.id \in DOMAIN d.posts ->
            LET opened == IF r.active = {} THEN d
                          ELSE [d EXCEPT !.posts[r.id].active = TRUE \in r.active]
            IN  << opened, IF r.body = {} THEN opened
                           ELSE [opened EXCEPT !.posts[r.id].body =
                                    CHOOSE b \in Bodies : b \in r.body] >>
      [] OTHER -> << >>

Effect(d, r) ==
    LET done == Changes(d, r) IN IF done = << >> THEN d ELSE done[Len(done)]

Detail(d, id) == [id |-> id, post |-> d.posts[id], replies |-> RepliesTo(d.replies, id)]

\* The answer, given what the database is after the request.
Result(d, r) ==
    CASE r.op = "list" -> [status |-> 200, list |-> Matching(d.posts, r)]
      [] r.op = "create" -> [status |-> 201, detail |-> Detail(d, Len(d.posts))]
      [] r.op \in {"get", "update"} /\ r.id \in DOMAIN d.posts ->
            [status |-> 200, detail |-> Detail(d, r.id)]
      [] r.op = "reply" /\ r.id \in DOMAIN d.posts ->
            [status |-> 201, reply |-> Len(d.replies)]
      [] OTHER -> [status |-> 404]

\* What is answered when the database fails.
Failure(r) == [status |-> IF r.op \in {"list", "create"} THEN 500 ELSE 404]

-----------------------------------------------------------------------------
Ask(c, r) ==
    /\ exchange[c] = NoExchange
    /\ exchange' = [exchange EXCEPT ![c] = Asked(r)]
    /\ UNCHANGED db

Serve(c) ==
    /\ exchange[c].at = "asked"
    /\ LET r == exchange[c].request IN
       /\ db' = Effect(db, r)
       /\ exchange' = [exchange EXCEPT ![c] = Answered(Result(db', r))]

\* What may be done of a request that is not completed.
Partial(d, r) == {d} \union {Changes(d, r)[i] : i \in DOMAIN Changes(d, r)}

Fail(c) ==
    /\ exchange[c].at = "asked"
    /\ LET r == exchange[c].request IN
       /\ db' \in Partial(db, r)
       /\ exchange' = [exchange EXCEPT ![c] = Answered(Failure(r))]

\* The board ends, and with it every connection.
Restart ==
    /\ \/ UNCHANGED db
       \/ \E c \in Callers :
             /\ exchange[c].at = "asked"
             /\ db' \in Partial(db, exchange[c].request)
    /\ exchange' = [c \in Callers |->
            IF exchange[c] = NoExchange THEN NoExchange ELSE Broken]

\* The connection is lost before the request arrives or on the answer's way.
Lose(c) ==
    /\ exchange[c].at \in {"asked", "answered"}
    /\ exchange' = [exchange EXCEPT ![c] = Broken]
    /\ UNCHANGED db

Return(c) ==
    /\ exchange[c].at \in {"answered", "broken"}
    /\ exchange' = [exchange EXCEPT ![c] = NoExchange]
    /\ UNCHANGED db

Next ==
    \/ \E c \in Callers :
          \/ \E r \in Requests : Ask(c, r)
          \/ Serve(c) \/ Fail(c) \/ Lose(c) \/ Return(c)
    \/ Restart

Spec == Init /\ [][Next]_<<db, exchange>>
=============================================================================
