---------------------------- MODULE MessageBoard ----------------------------
(***************************************************************************)
(* The message board (crates/message-board/src/db.rs, routes.rs): handlers *)
(* that share one SQLite connection behind a mutex, and the statements     *)
(* that each of them runs while it holds it.  Every statement commits by   *)
(* itself.  Any of them may fail, and the process may end between any two. *)
(***************************************************************************)
EXTENDS Naturals, Sequences, SequencesExt, FiniteSets

CONSTANTS Callers, Bodies, Ids

ASSUME BoardAssumption == Ids \subseteq Nat

VARIABLES
    posts, replies, \* the tables
    exchange,       \* what each caller has asked, and its answer
    holder          \* the caller whose handler has the mutex, and how far it is

boardVars == <<posts, replies, exchange, holder>>

db == [posts |-> posts, replies |-> replies]
Free == [of |-> {}]

(* What the statements that read find. *)

\* Rows in the order of their numbers, each at the place that the rows before it leave
\* to it.
Ascending(rows) ==
    [n \in 1..Cardinality(rows) |->
        CHOOSE i \in rows : Cardinality({j \in rows : j <= i}) = n]
Descending(rows) ==
    [n \in 1..Cardinality(rows) |->
        CHOOSE i \in rows : Cardinality({j \in rows : j >= i}) = n]

\* The posts that a list is of, newest first.
Matching(rows, r) ==
    Descending({i \in DOMAIN rows : /\ \A a \in r.agent : rows[i].agent = a
                                    /\ \A v \in r.active : rows[i].active = v})

\* Mutant: the wrong column is compared.
RepliesToById(rows, id) == Ascending({k \in DOMAIN rows : k = id})

RepliesTo(rows, id) == Ascending({k \in DOMAIN rows : rows[k].post = id})

\* While a handler is at work, nobody else sees what it has done.
Board == INSTANCE FindingsBoard WITH
    db <- IF holder = Free THEN db ELSE holder.before

BoardInit ==
    /\ posts = << >> /\ replies = << >>
    /\ exchange = [c \in Callers |-> Board!NoExchange]
    /\ holder = Free

-----------------------------------------------------------------------------
(* The handlers *)

\* The statements that each handler runs: the first, and the one after another.
Then(r, statement) ==
    CASE statement = "set active" -> IF r.body = {} THEN "select post" ELSE "set body"
      [] statement \in {"insert post", "set body"} -> "select post"
      [] statement = "select post" -> "select replies"
      [] statement = "find post" -> "insert reply"
      [] OTHER -> "select reply"

FirstStatement(r) ==
    CASE r.op = "list"   -> "select posts"
      [] r.op = "create" -> "insert post"
      [] r.op = "get"    -> "select post"
      [] r.op = "reply"  -> "find post"
      [] OTHER -> IF r.active = {} THEN Then(r, "set active") ELSE "set active"

\* The mutex is taken.  id: the row that the request is about; read: the post
\* that was selected
Lock(c) ==
    /\ holder = Free
    /\ exchange[c].at = "asked"
    /\ LET r == exchange[c].request IN
       holder' = [of |-> {c}, before |-> db, next |-> FirstStatement(r),
                  id |-> IF r.op \in {"list", "create"} THEN {} ELSE {r.id}, read |-> {}]
    /\ UNCHANGED <<posts, replies, exchange>>

Doing(c, statement) ==
    /\ c \in holder.of
    /\ holder.next = statement
Request(c) == exchange[c].request

\* The handler goes on, about the row in id, with the post in read.
Goes(c, id, read) ==
    /\ holder' = [holder EXCEPT !.next = Then(Request(c), @), !.id = id, !.read = read]
    /\ UNCHANGED exchange

\* The handler returns.
Answers(c, answer) ==
    /\ holder' = Free
    /\ exchange' = [exchange EXCEPT ![c] = Board!Answered(answer)]
    /\ UNCHANGED <<posts, replies>>

SelectPosts(c) ==
    /\ Doing(c, "select posts")
    /\ Answers(c, [status |-> 200, list |-> Matching(posts, Request(c))])

InsertPost(c) ==
    /\ Doing(c, "insert post")
    /\ posts' = Append(posts, [agent |-> Request(c).agent, body |-> Request(c).body,
                              active |-> TRUE])
    /\ Goes(c, {Len(posts')}, {})
    /\ UNCHANGED replies

\* Without such a row an UPDATE does nothing.
SetActive(c) ==
    /\ Doing(c, "set active")
    /\ posts' = [i \in DOMAIN posts |->
                    IF i \in holder.id
                    THEN [posts[i] EXCEPT !.active = TRUE \in Request(c).active]
                    ELSE posts[i]]
    /\ Goes(c, holder.id, {})
    /\ UNCHANGED replies

\* Mutant: the statement lacks its condition.
SetBodyOfAll(c) ==
    /\ Doing(c, "set body")
    /\ \E b \in Request(c).body :
          posts' = [i \in DOMAIN posts |-> [posts[i] EXCEPT !.body = b]]
    /\ Goes(c, holder.id, {})
    /\ UNCHANGED replies

SetBody(c) ==
    /\ Doing(c, "set body")
    /\ \E b \in Request(c).body :
          posts' = [i \in DOMAIN posts |->
                      IF i \in holder.id THEN [posts[i] EXCEPT !.body = b] ELSE posts[i]]
    /\ Goes(c, holder.id, {})
    /\ UNCHANGED replies

SelectPost(c) ==
    /\ Doing(c, "select post")
    /\ IF holder.id \subseteq DOMAIN posts
       THEN /\ Goes(c, holder.id, {posts[i] : i \in holder.id})
            /\ UNCHANGED <<posts, replies>>
       ELSE Answers(c, [status |-> 404])

SelectReplies(c) ==
    /\ Doing(c, "select replies")
    /\ \E i \in holder.id, post \in holder.read :
          Answers(c, [status |-> IF Request(c).op = "create" THEN 201 ELSE 200,
                      detail |-> [id |-> i, post |-> post,
                                  replies |-> RepliesTo(replies, i)]])

FindPost(c) ==
    /\ Doing(c, "find post")
    /\ IF holder.id \subseteq DOMAIN posts
       THEN Goes(c, holder.id, {}) /\ UNCHANGED <<posts, replies>>
       ELSE Answers(c, [status |-> 404])

InsertReply(c) ==
    /\ Doing(c, "insert reply")
    /\ \E i \in holder.id :
          replies' = Append(replies, [post |-> i, author |-> Request(c).author])
    /\ Goes(c, holder.id, {})
    /\ UNCHANGED posts

SelectReply(c) ==
    /\ Doing(c, "select reply")
    /\ Answers(c, [status |-> 201, reply |-> Len(replies)])

\* A statement fails.
StatementFails(c) ==
    /\ c \in holder.of
    /\ Answers(c, Board!Failure(Request(c)))

Handle(c) ==
    \/ Lock(c)
    \/ SelectPosts(c)
    \/ InsertPost(c) \/ SetActive(c) \/ SetBody(c)
    \/ SelectPost(c) \/ SelectReplies(c)
    \/ FindPost(c) \/ InsertReply(c) \/ SelectReply(c)

-----------------------------------------------------------------------------
(* The callers, over HTTP *)

Ask(c, r) ==
    /\ exchange[c] = Board!NoExchange
    /\ exchange' = [exchange EXCEPT ![c] = Board!Asked(r)]
    /\ UNCHANGED <<posts, replies, holder>>

Return(c) ==
    /\ exchange[c].at \in {"answered", "broken"}
    /\ exchange' = [exchange EXCEPT ![c] = Board!NoExchange]
    /\ UNCHANGED <<posts, replies, holder>>

\* The connection is lost before the request is read, or with the answer.
LoseExchange(c) ==
    /\ exchange[c].at \in {"asked", "answered"}
    /\ c \notin holder.of
    /\ exchange' = [exchange EXCEPT ![c] = Board!Broken]
    /\ UNCHANGED <<posts, replies, holder>>

\* The process ends and is started again: what was committed is there.
RestartBoard ==
    /\ holder' = Free
    /\ exchange' = [c \in Callers |->
            IF exchange[c] = Board!NoExchange THEN Board!NoExchange
            ELSE Board!Broken]
    /\ UNCHANGED <<posts, replies>>
=============================================================================
