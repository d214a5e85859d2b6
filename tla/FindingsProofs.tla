---------------------------- MODULE FindingsProofs ----------------------------
(***************************************************************************)
(* What holds of the message board for any callers and any number of posts *)
(* and replies.                                                            *)
(*                                                                         *)
(* The invariant says how far the handler that holds the mutex has come:   *)
(* which statements of its request are done, that the tables are what they *)
(* make of the tables that it found, and which row it will read next.  To  *)
(* it come, for posts: how many each agent may still have on the way; for  *)
(* replies: where a reply that an agent is to hear of is now, in the list  *)
(* of its posts that is on the way, on a post still to be fetched, in the  *)
(* answer that is on the way, or among those the agent was told of.        *)
(***************************************************************************)
EXTENDS Findings, FiniteSetTheorems, TLAPS

Posts == [agent : Callers, body : Bodies, active : BOOLEAN]
Made(r) == [agent |-> r.agent, body |-> r.body, active |-> TRUE]

-----------------------------------------------------------------------------
(* What a request makes of a database *)

Databases == [posts : Seq(Posts), replies : Seq([post : Ids, author : Callers])]

Opened(d, r) ==
    IF r.active = {} THEN d ELSE [d EXCEPT !.posts[r.id].active = TRUE \in r.active]
Edited(d, r) ==
    IF r.body = {} THEN Opened(d, r)
    ELSE [Opened(d, r) EXCEPT !.posts[r.id].body = CHOOSE b \in Bodies : b \in r.body]
Posted(d, r) == [d EXCEPT !.posts = Append(@, Made(r))]
Replied(d, r) == [d EXCEPT !.replies = Append(@, [post |-> r.id, author |-> r.author])]

\* The fields that the requests have.
LEMMA RequestFields ==
    ASSUME NEW r \in Board!Requests
    PROVE  /\ r.op \in {"list", "create", "get", "update", "reply"}
           /\ r.op = "create" => r.agent \in Callers /\ r.body \in Bodies
           /\ r.op \in {"get", "update", "reply"} => r.id \in Ids
           /\ r.op = "update" => /\ r.active \in {{}, {TRUE}, {FALSE}}
                                 /\ r.body # {} => \E b \in Bodies : r.body = {b}
           /\ r.op = "reply" => r.author \in Callers
BY DEF Board!Requests

\* What the statements change, by the request.
LEMMA CreateChanges ==
    ASSUME NEW d, NEW r, r.op = "create"
    PROVE  Board!Effect(d, r) = Posted(d, r) /\ Board!Partial(d, r) = {d, Posted(d, r)}
<1>1. Board!Changes(d, r) = << Posted(d, r) >>
  BY DEF Board!Changes, Posted, Made
<1> QED
  BY <1>1 DEF Board!Effect, Board!Partial

LEMMA ReplyChanges ==
    ASSUME NEW d, NEW r, r.op = "reply", r.id \in DOMAIN d.posts
    PROVE  Board!Effect(d, r) = Replied(d, r) /\ Board!Partial(d, r) = {d, Replied(d, r)}
<1>1. Board!Changes(d, r) = << Replied(d, r) >>
  BY DEF Board!Changes, Replied
<1> QED
  BY <1>1 DEF Board!Effect, Board!Partial

LEMMA UpdateChanges ==
    ASSUME NEW d, NEW r, r.op = "update", r.id \in DOMAIN d.posts
    PROVE  /\ Board!Effect(d, r) = Edited(d, r)
           /\ Board!Partial(d, r) = {d, Opened(d, r), Edited(d, r)}
<1>1. Board!Changes(d, r) = << Opened(d, r), Edited(d, r) >>
  BY DEF Board!Changes, Opened, Edited
<1> QED
  BY <1>1 DEF Board!Effect, Board!Partial

LEMMA NothingChanges ==
    ASSUME NEW d, NEW r,
           r.op \in {"list", "get"} \/ (r.op \in {"update", "reply"} /\ r.id \notin DOMAIN d.posts)
    PROVE  Board!Effect(d, r) = d /\ Board!Partial(d, r) = {d}
<1>1. Board!Changes(d, r) = << >>
  BY DEF Board!Changes
<1> QED
  BY <1>1 DEF Board!Effect, Board!Partial

\* A post that is not there is not changed.
LEMMA MissingIsUnchanged ==
    ASSUME NEW d \in Databases, NEW r, r.id \notin DOMAIN d.posts
    PROVE  Opened(d, r) = d /\ Edited(d, r) = d
BY DEF Databases, Opened, Edited

\* The databases are well formed.
LEMMA PostedIsDatabase ==
    ASSUME NEW d \in Databases, NEW r \in Board!Requests, r.op = "create"
    PROVE  /\ Posted(d, r) \in Databases
           /\ Posted(d, r).posts = Append(d.posts, Made(r))
           /\ Len(Posted(d, r).posts) \in DOMAIN Posted(d, r).posts
<1>1. Made(r) \in Posts
  BY RequestFields DEF Made, Posts
<1> HIDE DEF Posts
<1> QED
  BY <1>1 DEF Posted, Databases

LEMMA RepliedIsDatabase ==
    ASSUME NEW d \in Databases, NEW r \in Board!Requests, r.op = "reply"
    PROVE  /\ Replied(d, r) \in Databases
           /\ Replied(d, r).replies = Append(d.replies, [post |-> r.id, author |-> r.author])
           /\ Replied(d, r).posts = d.posts
<1> DEFINE Replies == [post : Ids, author : Callers]
           reply == [post |-> r.id, author |-> r.author]
<1>1. reply \in Replies
  BY RequestFields
<1>2. d.replies \in Seq(Replies)
  BY DEF Databases
<1> HIDE DEF reply, Replies
<1>3. Append(d.replies, reply) \in Seq(Replies)
  BY <1>1, <1>2
<1> QED
  BY <1>3 DEF Replied, Databases, reply, Replies

\* Rows that are changed in place.
LEMMA SameLength ==
    ASSUME NEW P, NEW s \in Seq(P), NEW t, t = [i \in DOMAIN s |-> t[i]],
           \A i \in DOMAIN s : t[i] \in P
    PROVE  t \in Seq(P)
<1>1. DOMAIN s = 1..Len(s) /\ Len(s) \in Nat
  OBVIOUS
<1>2. t \in [1..Len(s) -> P]
  BY <1>1
<1> QED
  BY <1>1, <1>2

LEMMA OpenedIsDatabase ==
    ASSUME NEW d \in Databases, NEW r \in Board!Requests, r.op = "update"
    PROVE  /\ Opened(d, r) \in Databases
           /\ DOMAIN Opened(d, r).posts = DOMAIN d.posts
           /\ Opened(d, r).replies = d.replies
           /\ r.active # {} =>
                Opened(d, r).posts = [i \in DOMAIN d.posts |->
                    IF i \in {r.id} THEN [d.posts[i] EXCEPT !.active = TRUE \in r.active]
                    ELSE d.posts[i]]
<1>1. CASE r.active = {}
  BY <1>1 DEF Opened
<1>2. CASE r.active # {}
  <2> DEFINE on == TRUE \in r.active
             new == [i \in DOMAIN d.posts |->
                        IF i \in {r.id} THEN [d.posts[i] EXCEPT !.active = on] ELSE d.posts[i]]
  <2>1. on \in BOOLEAN
    OBVIOUS
  <2>2. Opened(d, r) = [d EXCEPT !.posts[r.id].active = on]
    BY <1>2 DEF Opened
  <2> HIDE DEF on
  <2>3. Opened(d, r) = [d EXCEPT !.posts = new]
    BY <2>2 DEF Databases
  <2>4. \A p \in Posts : [p EXCEPT !.active = on] \in Posts
    BY <2>1 DEF Posts
  <2>5. new \in Seq(Posts)
    <3>1. d.posts \in Seq(Posts)
      BY DEF Databases
    <3>2. \A i \in DOMAIN d.posts : d.posts[i] \in Posts
      BY <3>1
    <3>3. \A i \in DOMAIN d.posts : new[i] \in Posts
      BY <2>4, <3>2
    <3> QED
      BY <3>1, <3>3, SameLength
  <2> QED
    BY <2>3, <2>5 DEF Databases, on
<1> QED
  BY <1>1, <1>2

LEMMA EditedIsDatabase ==
    ASSUME NEW d \in Databases, NEW r \in Board!Requests, r.op = "update"
    PROVE  /\ Edited(d, r) \in Databases
           /\ DOMAIN Edited(d, r).posts = DOMAIN d.posts
           /\ Edited(d, r).replies = d.replies
           /\ \A b \in r.body :
                Edited(d, r).posts = [i \in DOMAIN d.posts |->
                    IF i \in {r.id} THEN [Opened(d, r).posts[i] EXCEPT !.body = b]
                    ELSE Opened(d, r).posts[i]]
<1> DEFINE o == Opened(d, r)
<1>1. o \in Databases /\ DOMAIN o.posts = DOMAIN d.posts /\ o.replies = d.replies
  BY OpenedIsDatabase
<1>2. CASE r.body = {}
  BY <1>1, <1>2 DEF Edited
<1>3. CASE r.body # {}
  <2>1. PICK b \in Bodies : r.body = {b}
    BY <1>3, RequestFields
  <2> DEFINE new == [i \in DOMAIN o.posts |->
                        IF i \in {r.id} THEN [o.posts[i] EXCEPT !.body = b] ELSE o.posts[i]]
  <2>2. Edited(d, r) = [o EXCEPT !.posts[r.id].body = b]
    BY <1>3, <2>1 DEF Edited
  <2> HIDE DEF o
  <2>3. Edited(d, r) = [o EXCEPT !.posts = new]
    BY <1>1, <2>2 DEF Databases
  <2>4. \A p \in Posts : [p EXCEPT !.body = b] \in Posts
    BY DEF Posts
  <2>5. new \in Seq(Posts)
    <3>1. o.posts \in Seq(Posts)
      BY <1>1 DEF Databases
    <3>2. \A i \in DOMAIN o.posts : o.posts[i] \in Posts
      BY <3>1
    <3>3. \A i \in DOMAIN o.posts : new[i] \in Posts
      BY <2>4, <3>2
    <3> QED
      BY <3>1, <3>3, SameLength
  <2>6. /\ Edited(d, r) \in Databases
        /\ DOMAIN Edited(d, r).posts = DOMAIN d.posts
        /\ Edited(d, r).replies = d.replies
        /\ Edited(d, r).posts = new
    BY <1>1, <2>3, <2>5 DEF Databases
  <2> QED
    BY <1>1, <2>1, <2>6 DEF o
<1> QED
  BY <1>2, <1>3

-----------------------------------------------------------------------------
(* The invariant *)

\* What the handler that found d, for the request r, has made of it, if its next
\* statement is the given one, about the row in id, with the post in read.
Progress(d, r, next, id, read, now) ==
    \/ r.op = "list" /\ next = "select posts" /\ now = d
    \/ /\ r.op = "create"
       /\ \/ next = "insert post" /\ now = d
          \/ /\ now = Posted(d, r) /\ id = {Len(now.posts)}
             /\ \/ next = "select post"
                \/ next = "select replies" /\ read = {now.posts[Len(now.posts)]}
    \/ /\ r.op \in {"get", "update"} /\ id = {r.id}
       /\ now = IF r.op = "get" THEN d ELSE Edited(d, r)
       /\ \/ next = "select post"
          \/ next = "select replies" /\ r.id \in DOMAIN now.posts /\ read = {now.posts[r.id]}
    \/ /\ r.op = "update" /\ id = {r.id}
       /\ \/ next = "set active" /\ r.active # {} /\ now = d
          \/ next = "set body" /\ r.body # {} /\ now = Opened(d, r)
    \/ /\ r.op = "reply" /\ id = {r.id}
       /\ \/ next = "find post" /\ now = d
          \/ next = "insert reply" /\ r.id \in DOMAIN d.posts /\ now = d
          \/ next = "select reply" /\ r.id \in DOMAIN d.posts /\ now = Replied(d, r)

Held(c) ==
    /\ holder = [of |-> {c}, before |-> holder.before, next |-> holder.next,
                 id |-> holder.id, read |-> holder.read]
    /\ holder.before \in Databases
    /\ exchange[c].at = "asked"
    /\ Progress(holder.before, Request(c), holder.next, holder.id, holder.read, db)

BoardInv ==
    /\ db \in Databases
    /\ exchange = [c \in Callers |-> exchange[c]]
    /\ \A c \in Callers : exchange[c].at = "asked" => Request(c) \in Board!Requests
    /\ holder = Free \/ \E c \in Callers : Held(c)

\* The database as the callers may know of it.
Seen == IF holder = Free THEN db ELSE holder.before

LEMMA Working ==
    ASSUME BoardInv, NEW c, c \in holder.of
    PROVE  c \in Callers /\ Held(c) /\ Request(c) \in Board!Requests /\ Seen = holder.before
<1>1. holder # Free
  BY DEF Free
<1>2. PICK k \in Callers : Held(k)
  BY <1>1 DEF BoardInv
<1>3. k = c
  BY <1>2 DEF Held
<1> QED
  BY <1>1, <1>2, <1>3 DEF BoardInv, Held, Seen

LEMMA PartlyDone ==
    ASSUME NEW d \in Databases, NEW r \in Board!Requests, NEW next, NEW id, NEW read, NEW now,
           Progress(d, r, next, id, read, now)
    PROVE  now \in Board!Partial(d, r)
<1>1. CASE r.op \in {"list", "get"}
  <2>1. now = d
    BY <1>1 DEF Progress
  <2> QED
    BY <1>1, <2>1, NothingChanges
<1>2. CASE r.op = "create"
  <2>1. now \in {d, Posted(d, r)}
    BY <1>2 DEF Progress
  <2> QED
    BY <1>2, <2>1, CreateChanges
<1>4. CASE r.op = "update"
  <2>1. now \in {d, Opened(d, r), Edited(d, r)}
    BY <1>4 DEF Progress
  <2>2. CASE r.id \in DOMAIN d.posts
    BY <1>4, <2>1, <2>2, UpdateChanges
  <2>3. CASE r.id \notin DOMAIN d.posts
    BY <1>4, <2>1, <2>3, MissingIsUnchanged, NothingChanges
  <2> QED
    BY <2>2, <2>3
<1>5. CASE r.op = "reply"
  <2>1. CASE r.id \in DOMAIN d.posts
    <3>1. now \in {d, Replied(d, r)}
      BY <1>5 DEF Progress
    <3> QED
      BY <1>5, <2>1, <3>1, ReplyChanges
  <2>2. CASE r.id \notin DOMAIN d.posts
    <3>1. now = d
      BY <1>5, <2>2 DEF Progress
    <3> QED
      BY <1>5, <2>2, <3>1, NothingChanges
  <2> QED
    BY <2>1, <2>2
<1> QED
  BY <1>1, <1>2, <1>4, <1>5, RequestFields

LEMMA GoesOn ==
    ASSUME BoardInv, NEW c, c \in holder.of, NEW id, NEW read, Goes(c, id, read)
    PROVE  /\ holder.of = {c} /\ UNCHANGED exchange
           /\ holder' = [of |-> {c}, before |-> holder.before,
                         next |-> Then(Request(c), holder.next), id |-> id, read |-> read]
<1> DEFINE next == Then(Request(c), holder.next)
           d == holder.before  n == holder.next  i == holder.id  p == holder.read
<1>1. holder' = [holder EXCEPT !.next = next, !.id = id, !.read = read] /\ UNCHANGED exchange
  BY DEF Goes
<1>2. holder = [of |-> {c}, before |-> d, next |-> n, id |-> i, read |-> p]
  BY Working DEF Held
<1> HIDE DEF next, d, n, i, p
<1>3. holder' = [of |-> {c}, before |-> d, next |-> next, id |-> id, read |-> read]
  BY <1>1, <1>2
<1>4. holder.of = {c}
  BY <1>2
<1> QED
  BY <1>1, <1>3, <1>4 DEF d, next

\* A handler goes on: nobody sees it.
LEMMA Advances ==
    ASSUME BoardInv, NEW c, c \in holder.of, NEW id, NEW read, Goes(c, id, read),
           db' \in Databases,
           Progress(holder.before, Request(c), Then(Request(c), holder.next), id, read, db')
    PROVE  BoardInv' /\ UNCHANGED <<Seen, exchange>>
<1>1. c \in Callers /\ Held(c) /\ Seen = holder.before
  BY Working
<1> DEFINE next == Then(Request(c), holder.next)
<1>2. holder' = [of |-> {c}, before |-> holder.before, next |-> next, id |-> id, read |-> read]
  BY GoesOn
<1> HIDE DEF next
<1>3. UNCHANGED exchange /\ (Request(c))' = Request(c)
  BY DEF Goes, Request
<1>4. Held(c)'
  <2>1. Progress(holder.before, Request(c), next, id, read, db)'
           <=> Progress(holder'.before, Request(c)', next', id', read', db')
    BY DEF Progress
  <2> QED
    BY <1>1, <1>2, <1>3 DEF Held, next
<1>5. holder' # Free
  BY <1>2 DEF Free
<1> QED
  BY <1>1, <1>2, <1>3, <1>4, <1>5 DEF BoardInv, Seen, Request

\* A handler returns, and what it did is seen.
LEMMA Completes ==
    ASSUME BoardInv, NEW c, c \in holder.of,
           Answers(c, Board!Result(db, Request(c))),
           db = Board!Effect(holder.before, Request(c))
    PROVE  BoardInv' /\ Board!Serve(c)
<1> DEFINE answer == Board!Answered(Board!Result(db, Request(c)))
<1>1. c \in Callers /\ Held(c) /\ Seen = holder.before
  BY Working
<1>2. holder' = Free /\ db' = db /\ exchange' = [exchange EXCEPT ![c] = answer]
  BY DEF Answers, db
<1>3. Seen' = db
  BY <1>2 DEF Seen
<1>4. Board!Serve(c)
  BY <1>1, <1>2, <1>3 DEF Held, Board!Serve, Seen, Request
<1>5. BoardInv'
  BY <1>1, <1>2 DEF BoardInv, Request, Board!Answered
<1> QED
  BY <1>4, <1>5

\* A handler returns, and what it did, in part, is seen.
LEMMA FailsInPart ==
    ASSUME BoardInv, NEW c, c \in holder.of, Answers(c, Board!Failure(Request(c)))
    PROVE  BoardInv' /\ Board!Fail(c)
<1> DEFINE answer == Board!Answered(Board!Failure(Request(c)))
<1>1. c \in Callers /\ Held(c) /\ Seen = holder.before /\ Request(c) \in Board!Requests
  BY Working
<1>2. holder' = Free /\ db' = db /\ exchange' = [exchange EXCEPT ![c] = answer]
  BY DEF Answers, db
<1>3. db \in Board!Partial(holder.before, Request(c))
  BY <1>1, PartlyDone DEF Held
<1>4. Seen' = db
  BY <1>2 DEF Seen
<1>5. Board!Fail(c)
  BY <1>1, <1>2, <1>3, <1>4 DEF Held, Board!Fail, Seen, Request
<1>6. BoardInv'
  BY <1>1, <1>2 DEF BoardInv, Request, Board!Answered
<1> QED
  BY <1>5, <1>6

-----------------------------------------------------------------------------
(* The steps of a handler *)

LEMMA HandlerSteps ==
    ASSUME BoardInv, NEW c \in Callers, Handle(c)
    PROVE  BoardInv' /\ (Board!Serve(c) \/ UNCHANGED <<Seen, exchange>>)
<1> DEFINE r == Request(c)
           d == holder.before
<1>1. CASE Lock(c)
  <2>1. /\ holder = Free /\ db' = db /\ exchange' = exchange
        /\ holder' = [of |-> {c}, before |-> db, next |-> FirstStatement(r),
                      id |-> IF r.op \in {"list", "create"} THEN {} ELSE {r.id}, read |-> {}]
    BY <1>1 DEF Lock, Request, db
  <2>2. r \in Board!Requests /\ exchange[c].at = "asked" /\ db \in Databases
    BY <1>1 DEF Lock, BoardInv
  <2>3. Progress(db, r, FirstStatement(r),
                 IF r.op \in {"list", "create"} THEN {} ELSE {r.id}, {}, db)
    <3>1. CASE r.op = "update"
      <4>1. CASE r.active = {}
        <5>1. Opened(db, r) = db
          BY <4>1 DEF Opened
        <5>2. r.body = {} => Edited(db, r) = db
          BY <5>1 DEF Edited
        <5>3. FirstStatement(r) = IF r.body = {} THEN "select post" ELSE "set body"
          BY <3>1, <4>1 DEF FirstStatement, Then
        <5> HIDE DEF r
        <5> QED
          BY <3>1, <5>1, <5>2, <5>3 DEF Progress
      <4>2. CASE r.active # {}
        <5>1. FirstStatement(r) = "set active"
          BY <3>1, <4>2 DEF FirstStatement
        <5> HIDE DEF r
        <5> QED
          BY <3>1, <4>2, <5>1 DEF Progress
      <4> QED
        BY <4>1, <4>2
    <3>2. CASE r.op # "update"
      <4> HIDE DEF r
      <4> QED
        BY <2>2, <3>2, RequestFields DEF FirstStatement, Progress
    <3> QED
      BY <3>1, <3>2
  <2>4. Held(c)'
    <3>1. /\ holder'.before = db /\ holder'.next = FirstStatement(r) /\ holder'.read = {}
          /\ holder'.id = IF r.op \in {"list", "create"} THEN {} ELSE {r.id}
          /\ Request(c)' = r
      BY <2>1 DEF Request
    <3>2. Progress(holder.before, Request(c), holder.next, holder.id, holder.read, db)'
      <4> HIDE DEF r
      <4> QED
        BY <2>1, <2>3, <3>1 DEF Progress
    <3> HIDE DEF r
    <3> QED
      BY <2>1, <2>2, <3>1, <3>2 DEF Held
  <2>5. holder' # Free
    BY <2>1 DEF Free
  <2> QED
    BY <2>1, <2>4, <2>5 DEF BoardInv, Seen, Request
<1>2. ASSUME c \in holder.of
      PROVE  /\ d \in Databases /\ r \in Board!Requests /\ db \in Databases
             /\ Progress(d, r, holder.next, holder.id, holder.read, db)
  BY <1>2, Working DEF Held, BoardInv
<1>3. CASE SelectPosts(c)
  <2>1. c \in holder.of /\ holder.next = "select posts"
    BY <1>3 DEF SelectPosts, Doing
  <2>2. r.op = "list" /\ db = d
    BY <1>2, <2>1 DEF Progress
  <2>3. db = Board!Effect(d, r)
    BY <2>2, NothingChanges
  <2>4. Board!Result(db, r) = [status |-> 200, list |-> Matching(db.posts, r)]
    BY <2>2 DEF Board!Result
  <2>5. Answers(c, Board!Result(db, r))
    BY <1>3, <2>4 DEF SelectPosts, db
  <2> QED
    BY <2>1, <2>3, <2>5, Completes
<1>4. CASE InsertPost(c)
  <2>1. c \in holder.of /\ holder.next = "insert post"
    BY <1>4 DEF InsertPost, Doing
  <2>2. r.op = "create" /\ db = d
    BY <1>2, <2>1 DEF Progress
  <2>3. db' = Posted(d, r) /\ posts' = db'.posts /\ Goes(c, {Len(db'.posts)}, {})
    <3>1. posts' = Append(posts, Made(r)) /\ replies' = replies /\ Goes(c, {Len(posts')}, {})
      BY <1>4 DEF InsertPost, Made
    <3>2. d = [posts |-> posts, replies |-> replies]
      BY <2>2 DEF db
    <3>3. Posted(d, r) = [posts |-> Append(posts, Made(r)), replies |-> replies]
      BY <3>2 DEF Posted
    <3> QED
      BY <3>1, <3>3 DEF db
  <2>4. db' \in Databases
    BY <1>2, <2>1, <2>2, <2>3, PostedIsDatabase
  <2>5. Then(r, holder.next) = "select post"
    BY <2>1 DEF Then
  <2>6. Progress(d, r, Then(r, holder.next), {Len(db'.posts)}, {}, db')
    <3> DEFINE now == db'
    <3> HIDE DEF r, d, now
    <3> QED
      BY <2>2, <2>3, <2>5 DEF Progress, now
  <2> QED
    BY <2>1, <2>3, <2>4, <2>6, Advances
<1>5. CASE SetActive(c)
  <2>1. c \in holder.of /\ holder.next = "set active"
    BY <1>5 DEF SetActive, Doing
  <2>2. r.op = "update" /\ r.active # {} /\ db = d /\ holder.id = {r.id}
    BY <1>2, <2>1 DEF Progress
  <2>3. /\ db' = [posts |-> [i \in DOMAIN d.posts |->
                        IF i \in {r.id} THEN [d.posts[i] EXCEPT !.active = TRUE \in r.active]
                        ELSE d.posts[i]],
                 replies |-> d.replies]
        /\ Goes(c, {r.id}, {})
    <3>1. d.posts = posts /\ d.replies = replies
      BY <2>2 DEF db
    <3> QED
      BY <1>5, <2>2, <3>1 DEF SetActive, db
  <2>4. Opened(d, r) \in Databases /\ db' = Opened(d, r)
    <3>1. Opened(d, r) \in Databases
      BY <1>2, <2>1, <2>2, OpenedIsDatabase
    <3>2. Opened(d, r) = [posts |-> Opened(d, r).posts, replies |-> Opened(d, r).replies]
      BY <3>1 DEF Databases
    <3> QED
      BY <1>2, <2>1, <2>2, <2>3, <3>1, <3>2, OpenedIsDatabase
  <2>5. Then(r, holder.next) = IF r.body = {} THEN "select post" ELSE "set body"
    BY <2>1 DEF Then
  <2>6. r.body = {} => Edited(d, r) = Opened(d, r)
    BY DEF Edited
  <2>7. Progress(d, r, Then(r, holder.next), {r.id}, {}, Opened(d, r))
    <3> DEFINE next == Then(r, holder.next)
    <3>1. next = IF r.body = {} THEN "select post" ELSE "set body"
      BY <2>5
    <3> HIDE DEF r, d, next
    <3>2. Progress(d, r, next, {r.id}, {}, Opened(d, r))
      BY <2>2, <2>6, <3>1 DEF Progress
    <3> QED
      BY <3>2 DEF next
  <2>8. Progress(d, r, Then(r, holder.next), {r.id}, {}, db')
    BY <2>4, <2>7
  <2> QED
    BY <2>1, <2>3, <2>4, <2>8, Advances
<1>6. CASE SetBody(c)
  <2>1. c \in holder.of /\ holder.next = "set body"
    BY <1>6 DEF SetBody, Doing
  <2>2. r.op = "update" /\ r.body # {} /\ db = Opened(d, r) /\ holder.id = {r.id}
    BY <1>2, <2>1 DEF Progress
  <2> DEFINE o == Opened(d, r)
  <2>3. PICK b \in r.body :
          /\ db' = [posts |-> [i \in DOMAIN o.posts |->
                        IF i \in {r.id} THEN [o.posts[i] EXCEPT !.body = b] ELSE o.posts[i]],
                    replies |-> o.replies]
          /\ Goes(c, {r.id}, {})
    <3>1. o.posts = posts /\ o.replies = replies
      BY <2>2 DEF db
    <3> HIDE DEF o
    <3> QED
      BY <1>6, <2>2, <3>1 DEF SetBody, db, Request
  <2>4. Edited(d, r) \in Databases /\ db' = Edited(d, r)
    <3>1. Edited(d, r) \in Databases
      BY <1>2, <2>1, <2>2, EditedIsDatabase
    <3>2. Edited(d, r) = [posts |-> Edited(d, r).posts, replies |-> Edited(d, r).replies]
      BY <3>1 DEF Databases
    <3>3. DOMAIN o.posts = DOMAIN d.posts /\ o.replies = d.replies
      BY <1>2, <2>1, <2>2, OpenedIsDatabase
    <3> QED
      <4>a. d \in Databases /\ r \in Board!Requests /\ r.op = "update" /\ b \in r.body
        BY <1>2, <2>1, <2>2, <2>3
      <4>1. /\ Edited(d, r).replies = d.replies
            /\ Edited(d, r).posts = [i \in DOMAIN d.posts |->
                  IF i \in {r.id} THEN [o.posts[i] EXCEPT !.body = b] ELSE o.posts[i]]
        <5> HIDE DEF r, d
        <5>1. /\ Edited(d, r).replies = d.replies
              /\ \A x \in r.body :
                    Edited(d, r).posts = [i \in DOMAIN d.posts |->
                      IF i \in {r.id} THEN [Opened(d, r).posts[i] EXCEPT !.body = x]
                      ELSE Opened(d, r).posts[i]]
          BY <4>a, EditedIsDatabase
        <5> QED
          BY <4>a, <5>1
      <4> HIDE DEF r, d, o
      <4>2. db' = [posts |-> Edited(d, r).posts, replies |-> Edited(d, r).replies]
        BY <2>3, <3>3, <4>1
      <4> QED
        BY <3>1, <3>2, <4>2
  <2>5. Then(r, holder.next) = "select post"
    BY <2>1 DEF Then
  <2>6. Progress(d, r, Then(r, holder.next), {r.id}, {}, db')
    <3>1. Progress(d, r, "select post", {r.id}, {}, Edited(d, r))
      <4> HIDE DEF r, d
      <4> QED
        BY <2>2 DEF Progress
    <3> QED
      BY <2>4, <2>5, <3>1
  <2> QED
    BY <2>1, <2>3, <2>4, <2>6, Advances
<1>7. CASE SelectPost(c)
  <2>1. c \in holder.of /\ holder.next = "select post"
    BY <1>7 DEF SelectPost, Doing
  <2>2. /\ \/ r.op = "create" /\ db = Posted(d, r) /\ holder.id = {Len(db.posts)}
           \/ r.op \in {"get", "update"} /\ holder.id = {r.id}
        /\ r.op \in {"get", "update"} => db = IF r.op = "get" THEN d ELSE Edited(d, r)
    BY <1>2, <2>1 DEF Progress
  <2>3. posts = db.posts
    BY DEF db
  <2>4. CASE holder.id \subseteq DOMAIN posts
    <3> DEFINE id == holder.id
               read == {posts[i] : i \in id}
    <3>1. Goes(c, id, read) /\ db' = db
      BY <1>7, <2>4 DEF SelectPost, db
    <3>2. Then(r, holder.next) = "select replies"
      BY <2>1 DEF Then
    <3>3. Progress(d, r, "select replies", id, read, db)
      <4> HIDE DEF r, d
      <4>1. CASE r.op = "create"
        BY <2>2, <2>3, <4>1 DEF Progress
      <4>2. CASE r.op \in {"get", "update"}
        BY <2>2, <2>3, <2>4, <4>2 DEF Progress
      <4> QED
        BY <2>2, <4>1, <4>2
    <3> HIDE DEF id, read
    <3>4. Progress(d, r, Then(r, holder.next), id, read, db')
      BY <3>1, <3>2, <3>3
    <3> QED
      BY <1>2, <2>1, <3>1, <3>4, Advances
  <2>5. CASE ~(holder.id \subseteq DOMAIN posts)
    <3>1. r.op # "create"
      <4> SUFFICES ASSUME r.op = "create" PROVE FALSE
        OBVIOUS
      <4>1. db = Posted(d, r) /\ holder.id = {Len(db.posts)}
        BY <2>2
      <4>2. Len(db.posts) \in DOMAIN db.posts
        BY <1>2, <2>1, <4>1, PostedIsDatabase
      <4> QED
        BY <2>3, <2>5, <4>1, <4>2
    <3>2. r.op \in {"get", "update"} /\ r.id \notin DOMAIN db.posts
      BY <2>2, <2>3, <2>5, <3>1
    <3>3. r.id \notin DOMAIN d.posts
      <4>1. CASE r.op = "get"
        BY <2>2, <3>2, <4>1
      <4>2. CASE r.op = "update"
        <5>1. db = Edited(d, r)
          BY <2>2, <4>2
        <5>2. DOMAIN Edited(d, r).posts = DOMAIN d.posts
          BY <1>2, <2>1, <4>2, EditedIsDatabase
        <5> QED
          BY <3>2, <5>1, <5>2
      <4> QED
        BY <3>2, <4>1, <4>2
    <3>4. db = d
      BY <1>2, <2>1, <2>2, <3>2, <3>3, MissingIsUnchanged
    <3>5. db = Board!Effect(d, r)
      BY <3>2, <3>3, <3>4, NothingChanges
    <3>6. Board!Result(db, r) = [status |-> 404]
      BY <3>2 DEF Board!Result
    <3>7. Answers(c, Board!Result(db, r))
      BY <1>7, <2>5, <3>6 DEF SelectPost
    <3> QED
      BY <2>1, <3>5, <3>7, Completes
  <2> QED
    BY <2>4, <2>5
<1>8. CASE SelectReplies(c)
  <2>1. c \in holder.of /\ holder.next = "select replies"
    BY <1>8 DEF SelectReplies, Doing
  <2>2. /\ db.replies = replies
        /\ \E i \in holder.id, post \in holder.read :
              Answers(c, [status |-> IF r.op = "create" THEN 201 ELSE 200,
                          detail |-> [id |-> i, post |-> post,
                                      replies |-> RepliesTo(replies, i)]])
    BY <1>8 DEF SelectReplies, db
  <2>3. CASE r.op = "create"
    <3>1. /\ db = Posted(d, r) /\ holder.id = {Len(db.posts)}
          /\ holder.read = {db.posts[Len(db.posts)]}
      BY <1>2, <2>1, <2>3 DEF Progress
    <3>2. db = Board!Effect(d, r)
      BY <2>3, <3>1, CreateChanges
    <3>3. Answers(c, [status |-> 201, detail |-> Board!Detail(db, Len(db.posts))])
      BY <2>2, <2>3, <3>1 DEF Board!Detail
    <3>4. Answers(c, Board!Result(db, r))
      BY <2>3, <3>3 DEF Board!Result
    <3> QED
      BY <2>1, <3>2, <3>4, Completes
  <2>4. CASE r.op # "create"
    <3>1. /\ r.op \in {"get", "update"} /\ holder.id = {r.id}
          /\ db = IF r.op = "get" THEN d ELSE Edited(d, r)
          /\ r.id \in DOMAIN db.posts /\ holder.read = {db.posts[r.id]}
      BY <1>2, <2>1, <2>4 DEF Progress
    <3>2. db = Board!Effect(d, r)
      <4>1. CASE r.op = "get"
        BY <3>1, <4>1, NothingChanges
      <4>2. CASE r.op = "update"
        <5>1. db = Edited(d, r) /\ r.id \in DOMAIN d.posts
          BY <1>2, <2>1, <3>1, <4>2, EditedIsDatabase
        <5> QED
          BY <4>2, <5>1, UpdateChanges
      <4> QED
        BY <3>1, <4>1, <4>2
    <3>3. Answers(c, [status |-> 200, detail |-> Board!Detail(db, r.id)])
      BY <2>2, <2>4, <3>1 DEF Board!Detail
    <3>4. Answers(c, Board!Result(db, r))
      BY <3>1, <3>3 DEF Board!Result
    <3> QED
      BY <2>1, <3>2, <3>4, Completes
  <2> QED
    BY <2>3, <2>4
<1>9. CASE FindPost(c)
  <2>1. c \in holder.of /\ holder.next = "find post"
    BY <1>9 DEF FindPost, Doing
  <2>2. r.op = "reply" /\ holder.id = {r.id} /\ db = d /\ posts = d.posts
    <3>1. r.op = "reply" /\ holder.id = {r.id} /\ db = d
      BY <1>2, <2>1 DEF Progress
    <3>2. posts = db.posts
      BY DEF db
    <3> QED
      BY <3>1, <3>2
  <2>3. CASE r.id \in DOMAIN d.posts
    <3>1. Goes(c, {r.id}, {}) /\ db' = db
      BY <1>9, <2>2, <2>3 DEF FindPost, db
    <3>2. Then(r, holder.next) = "insert reply"
      BY <2>1 DEF Then
    <3>3. Progress(d, r, "insert reply", {r.id}, {}, db)
      <4> HIDE DEF r, d
      <4> QED
        BY <2>2, <2>3 DEF Progress
    <3>4. Progress(d, r, Then(r, holder.next), {r.id}, {}, db')
      BY <3>1, <3>2, <3>3
    <3> QED
      BY <1>2, <2>1, <3>1, <3>4, Advances
  <2>4. CASE r.id \notin DOMAIN d.posts
    <3>1. db = Board!Effect(d, r)
      BY <2>2, <2>4, NothingChanges
    <3>2. Board!Result(db, r) = [status |-> 404]
      BY <2>2, <2>4 DEF Board!Result
    <3>3. Answers(c, Board!Result(db, r))
      BY <1>9, <2>2, <2>4, <3>2 DEF FindPost
    <3> QED
      BY <2>1, <3>1, <3>3, Completes
  <2> QED
    BY <2>3, <2>4
<1>10. CASE InsertReply(c)
  <2>1. c \in holder.of /\ holder.next = "insert reply"
    BY <1>10 DEF InsertReply, Doing
  <2>2. r.op = "reply" /\ holder.id = {r.id} /\ r.id \in DOMAIN d.posts /\ db = d
    BY <1>2, <2>1 DEF Progress
  <2>3. db' = Replied(d, r) /\ Goes(c, {r.id}, {})
    <3>1. /\ replies' = Append(replies, [post |-> r.id, author |-> r.author])
          /\ posts' = posts /\ Goes(c, {r.id}, {})
      BY <1>10, <2>2 DEF InsertReply
    <3>2. d = [posts |-> posts, replies |-> replies]
      BY <2>2 DEF db
    <3>3. Replied(d, r) = [posts |-> posts,
                           replies |-> Append(replies, [post |-> r.id, author |-> r.author])]
      BY <3>2 DEF Replied
    <3> QED
      BY <3>1, <3>3 DEF db
  <2>4. db' \in Databases
    BY <1>2, <2>1, <2>2, <2>3, RepliedIsDatabase
  <2>5. Then(r, holder.next) = "select reply"
    BY <2>1 DEF Then
  <2>6. Progress(d, r, Then(r, holder.next), {r.id}, {}, db')
    <3> DEFINE now == db'
    <3>1. now = Replied(d, r)
      BY <2>3
    <3> HIDE DEF r, d, now
    <3>2. Progress(d, r, Then(r, holder.next), {r.id}, {}, now)
      BY <2>2, <2>5, <3>1 DEF Progress
    <3> QED
      BY <3>2 DEF now
  <2> QED
    BY <2>1, <2>3, <2>4, <2>6, Advances
<1>11. CASE SelectReply(c)
  <2>1. c \in holder.of /\ holder.next = "select reply"
    BY <1>11 DEF SelectReply, Doing
  <2>2. r.op = "reply" /\ r.id \in DOMAIN d.posts /\ db = Replied(d, r)
    BY <1>2, <2>1 DEF Progress
  <2>3. db = Board!Effect(d, r)
    BY <2>2, ReplyChanges
  <2>4. r.id \in DOMAIN db.posts
    BY <1>2, <2>1, <2>2, RepliedIsDatabase
  <2>5. Board!Result(db, r) = [status |-> 201, reply |-> Len(db.replies)]
    BY <2>2, <2>4 DEF Board!Result
  <2>6. Answers(c, Board!Result(db, r))
    BY <1>11, <2>5 DEF SelectReply, db
  <2> QED
    BY <2>1, <2>3, <2>6, Completes
<1> QED
  BY <1>1, <1>3, <1>4, <1>5, <1>6, <1>7, <1>8, <1>9, <1>10, <1>11 DEF Handle

-----------------------------------------------------------------------------
(* The refinement *)

\* The steps of the composition, as the board has them.
BoardStep ==
    \/ \E c \in Callers :
          \/ \E r \in Board!Requests : Ask(c, r)
          \/ Return(c) \/ Handle(c) \/ StatementFails(c) \/ LoseExchange(c)
    \/ RestartBoard
    \/ UNCHANGED boardVars

LEMMA BoardSteps ==
    ASSUME Next
    PROVE  BoardStep
<1>1. ASSUME NEW a \in Agents,
             \/ BeginSession(a) \/ ListReturns(a) \/ Fetch(a) \/ FetchReturns(a)
             \/ Prompted(a) \/ CreatePost(a) \/ Call(a) \/ CallReturns(a) \/ EndSession(a)
      PROVE  BoardStep
  <2>1. a \in Callers
    BY FindingsAssumption
  <2>2. /\ BoardGetPosts(a) \in Board!Requests
        /\ \A id \in Ids : BoardGetPost(id) \in Board!Requests
        /\ \A body \in Bodies : BoardCreatePost(a, body) \in Board!Requests
        /\ \A id \in Ids : BoardClosePost(id) \in Board!Requests
        /\ \A id \in Ids : BoardReply(a, id) \in Board!Requests
        /\ \A activeOnly \in BOOLEAN : BoardGetAllPosts(activeOnly) \in Board!Requests
    <3>1. BoardGetPosts(a) \in Board!Requests
      BY <2>1 DEF BoardGetPosts, Board!Requests
    <3>2. \A id \in Ids : BoardGetPost(id) \in Board!Requests
      BY DEF BoardGetPost, Board!Requests
    <3>3. \A body \in Bodies : BoardCreatePost(a, body) \in Board!Requests
      BY <2>1 DEF BoardCreatePost, Board!Requests
    <3>4. \A id \in Ids : BoardClosePost(id) \in Board!Requests
      BY DEF BoardClosePost, Board!Requests
    <3>5. \A id \in Ids : BoardReply(a, id) \in Board!Requests
      BY <2>1 DEF BoardReply, Board!Requests
    <3>6. \A activeOnly \in BOOLEAN : BoardGetAllPosts(activeOnly) \in Board!Requests
      BY DEF BoardGetAllPosts, Board!Requests
    <3> QED
      BY <3>1, <3>2, <3>3, <3>4, <3>5, <3>6
  <2>3. CASE BeginSession(a)
    BY <2>1, <2>2, <2>3 DEF BeginSession, BoardStep
  <2>4. CASE ListReturns(a)
    BY <2>1, <2>4 DEF ListReturns, BoardStep
  <2>5. CASE Fetch(a)
    BY <2>1, <2>2, <2>5 DEF Fetch, BoardStep
  <2>6. CASE FetchReturns(a)
    BY <2>1, <2>6 DEF FetchReturns, BoardStep
  <2>7. CASE Prompted(a) \/ EndSession(a)
    BY <2>7 DEF Prompted, EndSession, BoardStep
  <2>8. CASE CreatePost(a)
    BY <2>1, <2>2, <2>8 DEF CreatePost, BoardStep
  <2>9. CASE Call(a)
    BY <2>1, <2>2, <2>9 DEF Call, BoardStep
  <2>10. CASE CallReturns(a)
    BY <2>1, <2>10 DEF CallReturns, BoardStep
  <2> QED
    BY <1>1, <2>3, <2>4, <2>5, <2>6, <2>7, <2>8, <2>9, <2>10
<1>2. ASSUME NEW p \in Callers \ Agents, Person(p)
      PROVE  BoardStep
  BY <1>2 DEF Person, BoardStep
<1>3. ASSUME NEW c \in Callers, Serving(c)
      PROVE  BoardStep
  BY <1>3 DEF Serving, BoardStep
<1>4. CASE Faults
  BY <1>4 DEF Faults, BoardStep
<1> QED
  BY <1>1, <1>2, <1>3, <1>4 DEF Next

LEMMA StepsOfTheBoard ==
    ASSUME BoardInv, BoardStep
    PROVE  BoardInv' /\ (Board!Next \/ UNCHANGED <<Seen, exchange>>)
<1>1. ASSUME NEW c \in Callers, NEW r \in Board!Requests, Ask(c, r)
      PROVE  BoardInv' /\ Board!Ask(c, r)
  <2>1. /\ exchange[c] = Board!NoExchange /\ exchange' = [exchange EXCEPT ![c] = Board!Asked(r)]
        /\ db' = db /\ holder' = holder
    BY <1>1 DEF Ask, db
  <2>2. Board!Ask(c, r)
    BY <2>1 DEF Board!Ask
  <2>3. exchange[c].at # "asked"
    BY <2>1 DEF Board!NoExchange
  <2>4. ASSUME NEW k \in Callers, Held(k)
        PROVE  Held(k)'
    BY <2>1, <2>3, <2>4 DEF Held, Request, BoardInv, Progress
  <2> QED
    BY <2>1, <2>2, <2>4 DEF BoardInv, Request, Board!Asked
<1>2. ASSUME NEW c \in Callers, Return(c)
      PROVE  BoardInv' /\ Board!Return(c)
  <2>1. /\ exchange[c].at \in {"answered", "broken"}
        /\ exchange' = [exchange EXCEPT ![c] = Board!NoExchange]
        /\ db' = db /\ holder' = holder
    BY <1>2 DEF Return, db
  <2>2. Board!Return(c)
    BY <2>1 DEF Board!Return
  <2>3. ASSUME NEW k \in Callers, Held(k)
        PROVE  Held(k)'
    BY <2>1, <2>3 DEF Held, Request, BoardInv, Progress
  <2> QED
    BY <2>1, <2>2, <2>3 DEF BoardInv, Request, Board!NoExchange
<1>3. ASSUME NEW c \in Callers, LoseExchange(c)
      PROVE  BoardInv' /\ Board!Lose(c)
  <2>1. /\ exchange[c].at \in {"asked", "answered"} /\ c \notin holder.of
        /\ exchange' = [exchange EXCEPT ![c] = Board!Broken]
        /\ db' = db /\ holder' = holder
    BY <1>3 DEF LoseExchange, db
  <2>2. Board!Lose(c)
    BY <2>1 DEF Board!Lose
  <2>3. ASSUME NEW k \in Callers, Held(k)
        PROVE  Held(k)'
    <3>1. k # c
      BY <2>1, <2>3 DEF Held
    <3> QED
      BY <2>1, <2>3, <3>1 DEF Held, Request, BoardInv, Progress
  <2> QED
    BY <2>1, <2>2, <2>3 DEF BoardInv, Request, Board!Broken
<1>4. ASSUME NEW c \in Callers, StatementFails(c)
      PROVE  BoardInv' /\ Board!Fail(c)
  BY <1>4, FailsInPart DEF StatementFails
<1>5. CASE RestartBoard
  <2> DEFINE cut == [c \in Callers |-> IF exchange[c] = Board!NoExchange THEN Board!NoExchange
                                       ELSE Board!Broken]
  <2>1. holder' = Free /\ db' = db /\ exchange' = cut
    BY <1>5 DEF RestartBoard, db
  <2>2. Seen' = db
    BY <2>1 DEF Seen
  <2>3. BoardInv'
    BY <2>1 DEF BoardInv, Board!NoExchange, Board!Broken
  <2>4. Board!Restart
    <3>1. CASE holder = Free
      BY <2>1, <2>2, <3>1 DEF Board!Restart, Seen
    <3>2. CASE holder # Free
      <4>1. PICK c \in Callers : Held(c)
        BY <3>2 DEF BoardInv
      <4>2. db \in Board!Partial(holder.before, Request(c))
        BY <4>1, PartlyDone DEF Held, BoardInv
      <4> QED
        BY <2>1, <2>2, <3>2, <4>1, <4>2 DEF Board!Restart, Seen, Held, Request
    <3> QED
      BY <3>1, <3>2
  <2> QED
    BY <2>3, <2>4 DEF Board!Next
<1>6. CASE UNCHANGED boardVars
  <2>1. db' = db /\ exchange' = exchange /\ holder' = holder
    BY <1>6 DEF boardVars, db
  <2> QED
    BY <2>1 DEF BoardInv, Held, Request, Progress, Seen
<1> QED
  BY <1>1, <1>2, <1>3, <1>4, <1>5, <1>6, HandlerSteps DEF BoardStep, Board!Next

LEMMA BoardAtFirst == Init => BoardInv
<1> SUFFICES ASSUME Init PROVE BoardInv
  OBVIOUS
<1>1. /\ db = [posts |-> << >>, replies |-> << >>] /\ holder = Free
      /\ exchange = [c \in Callers |-> Board!NoExchange]
  BY DEF Init, BoardInit, db
<1>2. db \in Databases
  BY <1>1 DEF Databases
<1> QED
  BY <1>1, <1>2 DEF BoardInv, Board!NoExchange

\* The board serves its callers as if one after the other, whichever statements are
\* interleaved with their other steps, fail, or are the last before a restart.
THEOREM Refinement == Spec => ImplementsBoard
<1>1. Init => BoardInv /\ Board!Init
  <2> SUFFICES ASSUME Init PROVE BoardInv /\ Board!Init
    OBVIOUS
  <2>1. /\ db = [posts |-> << >>, replies |-> << >>] /\ holder = Free
        /\ exchange = [c \in Callers |-> Board!NoExchange]
    BY DEF Init, BoardInit, db
  <2> QED
    BY <2>1, BoardAtFirst DEF Board!Init, Board!NoExchange
<1>2. BoardInv /\ [Next]_vars => BoardInv' /\ [Board!Next]_<<Seen, exchange>>
  BY BoardSteps, StepsOfTheBoard DEF vars, BoardStep
<1>3. Seen = IF holder = Free THEN db ELSE holder.before
  BY DEF Seen
<1> QED
  BY <1>1, <1>2, <1>3, PTL DEF Spec, ImplementsBoard, Board!Spec, Seen

-----------------------------------------------------------------------------
(* The posts of each agent *)

PostsOf(a) == {i \in DOMAIN posts : posts[i].agent = a}

\* The agent has asked for a post that is not in the table yet.
Owed(a) ==
    /\ exchange[a].at = "asked" /\ Request(a).op = "create"
    /\ a \in holder.of => holder.next = "insert post"

\* Each call of board_create_post accounts for one post, made or owed.
CountInv ==
    /\ made \in [Agents -> Nat]
    /\ \A c \in Callers : (exchange[c].at = "asked" /\ Request(c).op = "create") =>
            c \in Agents /\ Request(c).agent = c
    /\ \A a \in Agents : Cardinality(PostsOf(a)) + (IF Owed(a) THEN 1 ELSE 0) <= made[a]

\* A step that makes no post and calls for none.
Quiet ==
    /\ made' = made
    /\ \A a \in Agents : PostsOf(a)' = PostsOf(a) /\ (Owed(a)' => Owed(a))
    /\ \A c \in Callers : exchange[c]'.at = "asked" =>
            exchange[c]' = exchange[c] \/ Request(c)'.op # "create"

LEMMA PostsAreFinite ==
    ASSUME BoardInv, NEW a
    PROVE  IsFiniteSet(PostsOf(a)) /\ Cardinality(PostsOf(a)) \in Nat
<1>1. posts \in Seq(Posts)
  BY DEF BoardInv, Databases, db
<1>2. DOMAIN posts = 1..Len(posts) /\ Len(posts) \in Nat
  BY <1>1
<1>3. IsFiniteSet(1..Len(posts))
  BY <1>2, FS_Interval
<1> QED
  BY <1>2, <1>3, FS_Subset, FS_CardinalityType DEF PostsOf

LEMMA QuietSteps ==
    ASSUME BoardInv, CountInv, Quiet
    PROVE  CountInv'
<1>1. \A c \in Callers : (exchange[c].at = "asked" /\ Request(c).op = "create")' =>
        c \in Agents /\ Request(c)'.agent = c
  BY DEF CountInv, Quiet, Request
<1>2. ASSUME NEW a \in Agents
      PROVE  Cardinality(PostsOf(a))' + (IF Owed(a)' THEN 1 ELSE 0) <= made'[a]
  <2>1. Cardinality(PostsOf(a))' = Cardinality(PostsOf(a)) /\ made' = made /\ (Owed(a)' => Owed(a))
    BY DEF Quiet
  <2>2. Cardinality(PostsOf(a)) + (IF Owed(a) THEN 1 ELSE 0) <= made[a]
    BY DEF CountInv
  <2>3. CASE Owed(a) <=> Owed(a)'
    BY <2>1, <2>2, <2>3
  <2>4. CASE Owed(a) /\ ~Owed(a)'
    <3>1. Cardinality(PostsOf(a)) + 1 <= made[a]
      BY <2>2, <2>4
    <3> QED
      BY <2>1, <2>4, <3>1, PostsAreFinite DEF CountInv
  <2> QED
    BY <2>1, <2>3, <2>4
<1> QED
  BY <1>1, <1>2 DEF CountInv, Quiet

LEMMA OneExchange ==
    ASSUME BoardInv, NEW c \in Callers, NEW x, exchange' = [exchange EXCEPT ![c] = x]
    PROVE  \A k \in Callers : exchange[k]' = IF k = c THEN x ELSE exchange[k]
BY DEF BoardInv

LEMMA CountSteps ==
    ASSUME BoardInv, CountInv, Next
    PROVE  CountInv'
<1>1. ASSUME posts' = posts, made' = made, holder' = holder,
             NEW c \in Callers, NEW x, exchange' = [exchange EXCEPT ![c] = x],
             x.at = "asked" => x.request.op # "create"
      PROVE  Quiet
  <2>1. \A k \in Callers : exchange[k]' = IF k = c THEN x ELSE exchange[k]
    BY <1>1, OneExchange
  <2>2. \A a \in Agents : Owed(a)' => Owed(a)
    BY <1>1, <2>1, FindingsAssumption DEF Owed, Request
  <2> QED
    BY <1>1, <2>1, <2>2 DEF Quiet, PostsOf, Request
<1>2. ASSUME made' = made, NEW c \in Callers, NEW r, Ask(c, r), r.op # "create"
      PROVE  Quiet
  BY <1>1, <1>2 DEF Ask, Board!Asked
<1>3. ASSUME made' = made, NEW c \in Callers, Return(c) \/ LoseExchange(c)
      PROVE  Quiet
  <2>1. CASE Return(c)
    BY <1>1, <1>3, <2>1 DEF Return, Board!NoExchange
  <2>2. CASE LoseExchange(c)
    BY <1>1, <1>3, <2>2 DEF LoseExchange, Board!Broken
  <2> QED
    BY <1>3, <2>1, <2>2
<1>4. ASSUME made' = made, NEW c, c \in holder.of, NEW answer, Answers(c, answer)
      PROVE  Quiet
  <2>1. c \in Callers /\ Held(c)
    BY <1>4, Working
  <2>2. /\ holder' = Free /\ posts' = posts
        /\ exchange' = [exchange EXCEPT ![c] = Board!Answered(answer)]
    BY <1>4 DEF Answers
  <2>3. ASSUME NEW k \in Callers
        PROVE  /\ exchange[k]'.at = "asked" => exchange[k]' = exchange[k] /\ k # c
               /\ Owed(k)' => Owed(k)
    <3>1. exchange[k]' = IF k = c THEN Board!Answered(answer) ELSE exchange[k]
      BY <2>1, <2>2, OneExchange
    <3>2. Board!Answered(answer).at # "asked"
      BY DEF Board!Answered
    <3>3. CASE k = c
      BY <3>1, <3>2, <3>3 DEF Owed
    <3>4. CASE k # c
      <4>1. k \notin holder.of
        BY <2>1, <3>4 DEF Held
      <4> QED
        BY <3>1, <3>4, <4>1 DEF Owed, Request
    <3> QED
      BY <3>3, <3>4
  <2> QED
    BY <1>4, <2>2, <2>3, FindingsAssumption DEF Quiet, PostsOf
<1>5. ASSUME made' = made, NEW c, c \in holder.of, holder.next # "insert post",
             NEW id, NEW read, Goes(c, id, read),
             \A a \in Agents : PostsOf(a)' = PostsOf(a)
      PROVE  Quiet
  <2>1. /\ holder' = [of |-> {c}, before |-> holder.before,
                      next |-> Then(Request(c), holder.next), id |-> id, read |-> read]
        /\ holder.of = {c} /\ UNCHANGED exchange
    BY <1>5, GoesOn
  <2>2. holder'.of = {c} /\ holder'.next = Then(Request(c), holder.next)
    BY <2>1
  <2>4. ASSUME NEW a \in Agents, Owed(a)'
        PROVE  Owed(a)
    <3>1. CASE a = c
      <4>1. Then(Request(c), holder.next) # "insert post"
        BY DEF Then
      <4> QED
        BY <2>2, <2>4, <3>1, <4>1 DEF Owed
    <3>2. CASE a # c
      BY <2>1, <2>2, <2>4, <3>2 DEF Owed, Request
    <3> QED
      BY <3>1, <3>2
  <2> QED
    BY <1>5, <2>1, <2>4 DEF Quiet
<1>6. ASSUME made' = made, NEW c \in Callers, Handle(c), ~InsertPost(c)
      PROVE  Quiet
  <2>1. CASE Lock(c)
    <3>1. /\ holder.of = {} /\ holder'.of = {c} /\ holder'.next = FirstStatement(Request(c))
          /\ exchange' = exchange /\ posts' = posts
      BY <2>1 DEF Lock, Free, Request
    <3>2. ASSUME NEW a \in Agents, Owed(a)'
          PROVE  Owed(a)
      BY <3>1, <3>2 DEF Owed, Request
    <3> QED
      BY <1>6, <3>1, <3>2 DEF Quiet, PostsOf
  <2>2. CASE SelectPosts(c) \/ SelectReplies(c) \/ SelectReply(c)
    BY <1>4, <1>6, <2>2 DEF SelectPosts, SelectReplies, SelectReply, Doing
  <2>3. CASE SetActive(c)
    <3>1. posts \in Seq(Posts)
      BY DEF BoardInv, Databases, db
    <3> DEFINE on == TRUE \in Request(c).active
    <3>2. posts' = [i \in DOMAIN posts |->
                      IF i \in holder.id THEN [posts[i] EXCEPT !.active = on] ELSE posts[i]]
      BY <2>3 DEF SetActive
    <3> HIDE DEF on
    <3>3. \A i \in DOMAIN posts : posts'[i].agent = posts[i].agent
      BY <3>1, <3>2 DEF Posts
    <3>4. \A a \in Agents : PostsOf(a)' = PostsOf(a)
      BY <3>2, <3>3 DEF PostsOf
    <3> QED
      BY <1>5, <1>6, <2>3, <3>4 DEF SetActive, Doing
  <2>4. CASE SetBody(c)
    <3>1. posts \in Seq(Posts)
      BY DEF BoardInv, Databases, db
    <3>2. PICK b \in Request(c).body :
            posts' = [i \in DOMAIN posts |->
                        IF i \in holder.id THEN [posts[i] EXCEPT !.body = b] ELSE posts[i]]
      BY <2>4 DEF SetBody
    <3>3. \A i \in DOMAIN posts : posts'[i].agent = posts[i].agent
      BY <3>1, <3>2 DEF Posts
    <3>4. \A a \in Agents : PostsOf(a)' = PostsOf(a)
      BY <3>2, <3>3 DEF PostsOf
    <3> QED
      BY <1>5, <1>6, <2>4, <3>4 DEF SetBody, Doing
  <2>5. CASE SelectPost(c)
    <3>1. posts' = posts
      BY <2>5 DEF SelectPost, Answers
    <3>2. \A a \in Agents : PostsOf(a)' = PostsOf(a)
      BY <3>1 DEF PostsOf
    <3>3. CASE holder.id \subseteq DOMAIN posts
      BY <1>5, <1>6, <2>5, <3>2, <3>3 DEF SelectPost, Doing
    <3>4. CASE ~(holder.id \subseteq DOMAIN posts)
      BY <1>4, <1>6, <2>5, <3>4 DEF SelectPost, Doing
    <3> QED
      BY <3>3, <3>4
  <2>6. CASE FindPost(c)
    <3>1. posts' = posts
      BY <2>6 DEF FindPost, Answers
    <3>2. \A a \in Agents : PostsOf(a)' = PostsOf(a)
      BY <3>1 DEF PostsOf
    <3>3. CASE holder.id \subseteq DOMAIN posts
      BY <1>5, <1>6, <2>6, <3>2, <3>3 DEF FindPost, Doing
    <3>4. CASE ~(holder.id \subseteq DOMAIN posts)
      BY <1>4, <1>6, <2>6, <3>4 DEF FindPost, Doing
    <3> QED
      BY <3>3, <3>4
  <2>7. CASE InsertReply(c)
    <3>1. \A a \in Agents : PostsOf(a)' = PostsOf(a)
      BY <2>7 DEF InsertReply, PostsOf
    <3> QED
      BY <1>5, <1>6, <2>7, <3>1 DEF InsertReply, Doing
  <2> QED
    BY <1>6, <2>1, <2>2, <2>3, <2>4, <2>5, <2>6, <2>7 DEF Handle
<1>7. ASSUME made' = made, NEW c \in Callers, InsertPost(c)
      PROVE  CountInv'
  <2>1. c \in holder.of /\ holder.next = "insert post" /\ Goes(c, {Len(posts')}, {})
    BY <1>7 DEF InsertPost, Doing
  <2>2. /\ Held(c) /\ Request(c) \in Board!Requests /\ Request(c).op = "create"
        /\ exchange[c].at = "asked"
    BY <2>1, Working DEF Held, Progress
  <2>3. /\ holder'.of = {c} /\ holder'.next = "select post" /\ exchange' = exchange
    <3>1. Then(Request(c), holder.next) = "select post"
      BY <2>1 DEF Then
    <3>2. /\ UNCHANGED exchange
          /\ holder' = [of |-> {c}, before |-> holder.before,
                        next |-> Then(Request(c), holder.next),
                        id |-> {Len(posts')}, read |-> {}]
      BY <2>1, GoesOn
    <3> QED
      BY <3>1, <3>2
  <2>4. c \in Agents /\ Request(c).agent = c
    BY <2>2 DEF CountInv
  <2>5. /\ posts \in Seq(Posts) /\ Len(posts) \in Nat
        /\ posts' = Append(posts, [agent |-> c, body |-> Request(c).body, active |-> TRUE])
    <3>1. posts \in Seq(Posts)
      BY DEF BoardInv, Databases, db
    <3>2. posts' = Append(posts, [agent |-> c, body |-> Request(c).body, active |-> TRUE])
      BY <1>7, <2>4 DEF InsertPost
    <3> QED
      BY <3>1, <3>2
  <2>6. ASSUME NEW a \in Agents, a # c
        PROVE  PostsOf(a)' = PostsOf(a) /\ (Owed(a)' <=> Owed(a))
    <3>1. PostsOf(a)' = PostsOf(a)
      BY <2>5, <2>6 DEF PostsOf
    <3>2. holder.of = {c}
      BY <2>2 DEF Held
    <3> QED
      BY <2>3, <2>6, <3>1, <3>2 DEF Owed, Request
  <2>7. /\ Owed(c) /\ ~Owed(c)'
    BY <2>1, <2>2, <2>3 DEF Owed, Request
  <2>8. Cardinality(PostsOf(c))' = Cardinality(PostsOf(c)) + 1
    <3>1. PostsOf(c)' = PostsOf(c) \union {Len(posts) + 1}
      BY <2>5 DEF PostsOf
    <3>2. Len(posts) + 1 \notin PostsOf(c)
      BY <2>5 DEF PostsOf
    <3> QED
      BY <3>1, <3>2, PostsAreFinite, FS_AddElement
  <2>9. ASSUME NEW a \in Agents
        PROVE  Cardinality(PostsOf(a))' + (IF Owed(a)' THEN 1 ELSE 0) <= made'[a]
    <3>1. CASE a = c
      BY <1>7, <2>7, <2>8, <3>1, PostsAreFinite DEF CountInv
    <3>2. CASE a # c
      BY <1>7, <2>6, <3>2 DEF CountInv
    <3> QED
      BY <3>1, <3>2
  <2> QED
    BY <1>7, <2>3, <2>9 DEF CountInv, Request
<1>8. ASSUME NEW a \in Agents, CreatePost(a)
      PROVE  CountInv'
  <2>1. PICK body \in Bodies : Ask(a, BoardCreatePost(a, body))
    BY <1>8 DEF CreatePost
  <2>2. /\ exchange[a] = Board!NoExchange /\ posts' = posts /\ holder' = holder
        /\ exchange' = [exchange EXCEPT ![a] = Board!Asked(BoardCreatePost(a, body))]
        /\ made' = [made EXCEPT ![a] = @ + 1]
    BY <1>8, <2>1 DEF CreatePost, Ask
  <2>3. ~Owed(a)
    BY <2>2 DEF Owed, Board!NoExchange
  <2>4. \A k \in Agents : PostsOf(k)' = PostsOf(k) /\ (k # a => (Owed(k)' <=> Owed(k)))
    BY <2>2, FindingsAssumption DEF PostsOf, Owed, Request, BoardInv
  <2>5. ASSUME NEW k \in Agents
        PROVE  Cardinality(PostsOf(k))' + (IF Owed(k)' THEN 1 ELSE 0) <= made'[k]
    <3>1. CASE k = a
      <4>1. Cardinality(PostsOf(a)) <= made[a] /\ made[a] \in Nat /\ made'[a] = made[a] + 1
        BY <2>2, <2>3, PostsAreFinite DEF CountInv
      <4> QED
        BY <2>4, <3>1, <4>1, PostsAreFinite
    <3>2. CASE k # a
      BY <2>2, <2>4, <3>2 DEF CountInv
    <3> QED
      BY <3>1, <3>2
  <2>6. \A k \in Callers : (exchange[k].at = "asked" /\ Request(k).op = "create")' =>
            k \in Agents /\ Request(k)'.agent = k
    BY <2>2 DEF CountInv, BoardInv, Request, Board!Asked, BoardCreatePost
  <2>7. made' \in [Agents -> Nat]
    BY <2>2 DEF CountInv
  <2> QED
    BY <2>5, <2>6, <2>7 DEF CountInv
<1>9. ASSUME UNCHANGED boardVars, made' = made
      PROVE  Quiet
  BY <1>9 DEF boardVars, Quiet, PostsOf, Owed, Request
<1>10. CASE RestartBoard /\ made' = made
  <2>1. posts' = posts /\ \A c \in Callers : exchange'[c].at # "asked"
    BY <1>10 DEF RestartBoard, Board!NoExchange, Board!Broken
  <2>2. Quiet
    BY <1>10, <2>1, FindingsAssumption DEF Quiet, PostsOf, Owed
  <2> QED
    BY <2>2, QuietSteps
<1>11. ASSUME NEW a \in Agents,
              \/ BeginSession(a) \/ ListReturns(a) \/ Fetch(a) \/ FetchReturns(a)
              \/ Prompted(a) \/ CreatePost(a) \/ Call(a) \/ CallReturns(a) \/ EndSession(a)
       PROVE  CountInv'
  <2>1. a \in Callers
    BY FindingsAssumption
  <2>2. CASE BeginSession(a)
    <3>1. BoardGetPosts(a).op # "create"
      BY DEF BoardGetPosts
    <3> QED
      BY <1>2, <2>1, <2>2, <3>1, QuietSteps DEF BeginSession
  <2>3. CASE ListReturns(a) \/ FetchReturns(a) \/ CallReturns(a)
    BY <1>3, <2>1, <2>3, QuietSteps DEF ListReturns, FetchReturns, CallReturns
  <2>4. CASE Fetch(a)
    <3>1. \A id : BoardGetPost(id).op # "create"
      BY DEF BoardGetPost
    <3> QED
      BY <1>2, <2>1, <2>4, <3>1, QuietSteps DEF Fetch
  <2>5. CASE Prompted(a) \/ EndSession(a)
    BY <1>9, <2>5, QuietSteps DEF Prompted, EndSession
  <2>6. CASE Call(a)
    <3>1. PICK r : Ask(a, r) /\ r.op # "create"
      <4>1. /\ \A id : BoardClosePost(id).op # "create" /\ BoardReply(a, id).op # "create"
            /\ \A activeOnly : BoardGetAllPosts(activeOnly).op # "create"
        BY DEF BoardClosePost, BoardReply, BoardGetAllPosts
      <4> QED
        BY <2>6, <4>1 DEF Call
    <3> QED
      BY <1>2, <2>1, <2>6, <3>1, QuietSteps DEF Call
  <2> QED
    BY <1>8, <1>11, <2>2, <2>3, <2>4, <2>5, <2>6
<1>12. ASSUME NEW p \in Callers \ Agents, Person(p)
       PROVE  CountInv'
  BY <1>2, <1>3, <1>12, QuietSteps DEF Person
<1>13. ASSUME NEW c \in Callers, Serving(c)
       PROVE  CountInv'
  BY <1>6, <1>7, <1>13, QuietSteps DEF Serving, StillOpen
<1>14. CASE Faults
  <2>1. made' = made
    BY <1>14 DEF Faults, StillOpen
  <2>2. CASE RestartBoard
    BY <1>10, <2>1, <2>2
  <2>3. ASSUME NEW c \in Callers, StatementFails(c)
        PROVE  CountInv'
    BY <1>4, <2>1, <2>3, QuietSteps DEF StatementFails
  <2>4. ASSUME NEW c \in Callers, LoseExchange(c)
        PROVE  CountInv'
    BY <1>3, <2>1, <2>4, QuietSteps
  <2> QED
    BY <1>14, <2>2, <2>3, <2>4 DEF Faults
<1> QED
  BY <1>11, <1>12, <1>13, <1>14 DEF Next

\* No finding is posted twice, whatever is lost between an agent and the board.
THEOREM NoFindingTwice == Spec => []PostedAtMostOnce
<1>1. Init => BoardInv /\ CountInv
  <2> SUFFICES ASSUME Init PROVE BoardInv /\ CountInv
    OBVIOUS
  <2>1. /\ exchange = [c \in Callers |-> Board!NoExchange]
        /\ made = [a \in Agents |-> 0]
    BY DEF Init, BoardInit
  <2>3. \A c \in Callers : exchange[c].at # "asked"
    BY <2>1 DEF Board!NoExchange
  <2>4. \A a \in Agents : Cardinality(PostsOf(a)) = 0 /\ ~Owed(a)
    <3>1. \A a : PostsOf(a) = {}
      BY DEF Init, BoardInit, PostsOf
    <3> QED
      BY <2>3, <3>1, FS_EmptySet, FindingsAssumption DEF Owed
  <2> QED
    BY <2>1, <2>3, <2>4, BoardAtFirst DEF CountInv
<1>2. BoardInv /\ CountInv /\ [Next]_vars => BoardInv' /\ CountInv'
  <2> SUFFICES ASSUME BoardInv, CountInv, [Next]_vars PROVE BoardInv' /\ CountInv'
    OBVIOUS
  <2>1. CASE Next
    BY <2>1, BoardSteps, StepsOfTheBoard, CountSteps
  <2>2. CASE UNCHANGED vars
    <3>1. BoardStep /\ Quiet
      BY <2>2 DEF vars, BoardStep, boardVars, Quiet, PostsOf, Owed, Request
    <3> QED
      BY <3>1, StepsOfTheBoard, QuietSteps
  <2> QED
    BY <2>1, <2>2
<1>3. BoardInv /\ CountInv => PostedAtMostOnce
  <2> SUFFICES ASSUME BoardInv, CountInv, NEW a \in Agents
               PROVE  Cardinality({i \in DOMAIN posts : posts[i].agent = a}) <= made[a]
    BY DEF PostedAtMostOnce
  <2>1. Cardinality(PostsOf(a)) + (IF Owed(a) THEN 1 ELSE 0) <= made[a]
    BY DEF CountInv
  <2>2. Cardinality(PostsOf(a)) \in Nat /\ made[a] \in Nat
    BY PostsAreFinite DEF CountInv
  <2>3. CASE Owed(a)
    BY <2>1, <2>2, <2>3 DEF PostsOf
  <2>4. CASE ~Owed(a)
    BY <2>1, <2>2, <2>4 DEF PostsOf
  <2> QED
    BY <2>3, <2>4
<1> QED
  BY <1>1, <1>2, <1>3, PTL DEF Spec

-----------------------------------------------------------------------------
(* What a session is told *)

\* The replies that an agent is to hear of are on open posts of its own.
OpenDue(a) ==
    \A k \in due[a] : /\ k \in DOMAIN replies
                      /\ posts[replies[k].post].agent = a
                      /\ posts[replies[k].post].active

\* A session that nothing failed for will have heard of each of them: the post is in the
\* list, then it is still to be fetched or its replies have been told.
Informed(a) ==
    LET s == session[a]
        answer == exchange[a].answer
    IN  /\ s.at = "listing" =>
              /\ exchange[a].at = "asked" => Request(a) = BoardGetPosts(a)
              /\ Succeeds(a) => /\ answer.list \in Seq(ToSet(answer.list))
                                /\ \A k \in due[a] : replies[k].post \in ToSet(answer.list)
        /\ s.at = "fetching" =>
              /\ s.left \in Seq(ToSet(s.left))
              /\ \A k \in due[a] : k \in s.heard \/ replies[k].post \in ToSet(s.left)
              /\ exchange[a].at = "asked" =>
                    s.left # << >> /\ Request(a) = BoardGetPost(Head(s.left))
              /\ Succeeds(a) =>
                    /\ s.left # << >>
                    /\ \A k \in due[a] : replies[k].post = Head(s.left) =>
                          k \in ToSet(answer.detail.replies)
        /\ s.at = "acting" => due[a] \subseteq s.heard

Fields(s) ==
    /\ s = [at |-> s.at, left |-> s.left, heard |-> s.heard, complete |-> s.complete]
    /\ s.complete \in BOOLEAN /\ (s.at \in {"resting", "listing"} => s.complete)

SessionsOK ==
    /\ session = [a \in Agents |-> session[a]] /\ \A a \in Agents : Fields(session[a])
    /\ due = [a \in Agents |-> due[a]]
    /\ \A k \in DOMAIN replies : replies[k].post \in DOMAIN posts

HeardInv ==
    /\ SessionsOK
    /\ \A a \in Agents : OpenDue(a) /\ (session[a].complete => Informed(a))

\* The lists that the board answers with leave out no row.
LEMMA NoneIsLeftOut ==
    ASSUME NEW m \in Nat, NEW S \in SUBSET (1..m)
    PROVE  /\ S \subseteq ToSet(Ascending(S)) /\ S \subseteq ToSet(Descending(S))
           /\ Descending(S) \in Seq(ToSet(Descending(S)))
<1> DEFINE Low(i) == {j \in S : j <= i}
           High(i) == {j \in S : j >= i}
<1>1. IsFiniteSet(S) /\ Cardinality(S) \in Nat
  <2>1. IsFiniteSet(1..m)
    BY FS_Interval
  <2> QED
    BY <2>1, FS_Subset, FS_CardinalityType
<1>2. ASSUME NEW T \in SUBSET S, NEW i \in T
      PROVE  IsFiniteSet(T) /\ Cardinality(T) \in 1..Cardinality(S)
  <2>1. IsFiniteSet(T) /\ Cardinality(T) <= Cardinality(S)
    BY <1>1, FS_Subset
  <2>2. Cardinality(T) \in Nat /\ Cardinality(T) # 0
    BY <1>2, <2>1, FS_CardinalityType, FS_EmptySet
  <2> QED
    BY <1>1, <2>1, <2>2
<1>3. ASSUME NEW T \in SUBSET S, NEW i \in S, NEW j \in S, i \notin T, j \in T,
             NEW U \in SUBSET S, T \subseteq U, i \in U
      PROVE  Cardinality(T) # Cardinality(U)
  BY <1>2, <1>3, FS_Subset
<1>4. ASSUME NEW i \in S, NEW j \in S, i # j
      PROVE  /\ Cardinality(Low(i)) # Cardinality(Low(j))
             /\ Cardinality(High(i)) # Cardinality(High(j))
  <2>1. ASSUME NEW x \in S, NEW y \in S, x < y
        PROVE  /\ Cardinality(Low(x)) # Cardinality(Low(y))
               /\ Cardinality(High(x)) # Cardinality(High(y))
    <3>1. \A k \in S : (k <= x => k <= y) /\ (k >= y => k >= x)
      BY <2>1
    <3>2. x <= x /\ y <= y /\ ~(y <= x) /\ x >= x /\ y >= y /\ ~(x >= y)
      BY <2>1
    <3>3. /\ Low(x) \in SUBSET S /\ Low(y) \in SUBSET S /\ Low(x) \subseteq Low(y)
          /\ High(x) \in SUBSET S /\ High(y) \in SUBSET S /\ High(y) \subseteq High(x)
      BY <3>1
    <3>4. /\ x \in Low(x) /\ y \in Low(y) /\ y \notin Low(x)
          /\ x \in High(x) /\ y \in High(y) /\ x \notin High(y)
      BY <3>2
    <3> HIDE DEF Low, High
    <3> QED
      BY <1>3, <3>3, <3>4
  <2>2. i < j \/ j < i
    BY <1>4
  <2> HIDE DEF Low, High
  <2> QED
    BY <2>1, <2>2
<1>5. ASSUME NEW i \in S
      PROVE  i \in ToSet(Ascending(S))
  <2> DEFINE n == Cardinality(Low(i))
  <2>1. n \in 1..Cardinality(S)
    <3>1. Low(i) \in SUBSET S /\ i \in Low(i)
      OBVIOUS
    <3> HIDE DEF Low
    <3> QED
      BY <1>2, <3>1
  <2>2. \A k \in S : Cardinality(Low(k)) = n => k = i
    BY <1>4
  <2>3. (CHOOSE k \in S : Cardinality(Low(k)) = n) = i
    <3> HIDE DEF Low
    <3> QED
      BY <2>2
  <2>4. Ascending(S)[n] = i /\ n \in DOMAIN Ascending(S)
    BY <2>1, <2>3 DEF Ascending
  <2> QED
    BY <2>4 DEF ToSet
<1>6. ASSUME NEW i \in S
      PROVE  i \in ToSet(Descending(S))
  <2> DEFINE n == Cardinality(High(i))
  <2>1. n \in 1..Cardinality(S)
    <3>1. High(i) \in SUBSET S /\ i \in High(i)
      OBVIOUS
    <3> HIDE DEF High
    <3> QED
      BY <1>2, <3>1
  <2>2. \A k \in S : Cardinality(High(k)) = n => k = i
    BY <1>4
  <2>3. (CHOOSE k \in S : Cardinality(High(k)) = n) = i
    <3> HIDE DEF High
    <3> QED
      BY <2>2
  <2>4. Descending(S)[n] = i /\ n \in DOMAIN Descending(S)
    BY <2>1, <2>3 DEF Descending
  <2> QED
    BY <2>4 DEF ToSet
<1>7. Descending(S) \in Seq(ToSet(Descending(S)))
  <2> DEFINE s == Descending(S)
  <2>1. DOMAIN s = 1..Cardinality(S) /\ s = [n \in 1..Cardinality(S) |-> s[n]]
    BY DEF Descending
  <2> HIDE DEF s
  <2>2. s \in [1..Cardinality(S) -> ToSet(s)]
    BY <2>1 DEF ToSet
  <2>3. s \in Seq(ToSet(s))
    BY <1>1, <2>2
  <2> QED
    BY <2>3 DEF s
<1> QED
  BY <1>5, <1>6, <1>7

\* What is left of a list once its first element is taken.
LEMMA RestOfList ==
    ASSUME NEW s, s \in Seq(ToSet(s)), s # << >>
    PROVE  /\ Tail(s) \in Seq(ToSet(Tail(s)))
           /\ \A x \in ToSet(s) : x = Head(s) \/ x \in ToSet(Tail(s))
<1> DEFINE V == ToSet(s)  t == Tail(s)
<1>1. s \in Seq(V) /\ DOMAIN s = 1..Len(s) /\ Len(s) \in Nat /\ Len(s) > 0
  BY DEF V
<1>2. V = {s[i] : i \in DOMAIN s}
  BY DEF ToSet
<1> HIDE DEF V
<1>3. /\ t \in Seq(V) /\ Len(t) = Len(s) - 1 /\ DOMAIN t = 1..Len(t)
      /\ \A i \in 1..Len(t) : t[i] = s[i + 1]
      /\ Head(s) = s[1]
  BY <1>1
<1>4. ASSUME NEW x \in V, x # Head(s)
      PROVE  x \in {t[i] : i \in DOMAIN t}
  <2>1. PICK i \in 1..Len(s) : x = s[i]
    BY <1>1, <1>2
  <2>2. i - 1 \in 1..Len(t) /\ t[i - 1] = s[i]
    BY <1>1, <1>3, <1>4, <2>1
  <2> QED
    BY <1>3, <2>1, <2>2
<1>5. t \in Seq({t[i] : i \in DOMAIN t})
  <2> HIDE DEF t
  <2>1. t = [i \in 1..Len(t) |-> t[i]] /\ Len(t) \in Nat
    BY <1>1, <1>3
  <2>2. t \in [1..Len(t) -> {t[i] : i \in DOMAIN t}]
    BY <1>3, <2>1
  <2> QED
    BY <2>1, <2>2
<1> QED
  BY <1>4, <1>5 DEF ToSet, V

\* No row is lost, and what the rows are about does not change.
TablesGrow ==
    /\ DOMAIN posts \subseteq DOMAIN posts' /\ DOMAIN replies \subseteq DOMAIN replies'
    /\ \A i \in DOMAIN posts : posts'[i].agent = posts[i].agent
    /\ \A k \in DOMAIN replies : replies'[k].post = replies[k].post
    /\ \A k \in DOMAIN replies' : replies'[k].post \in DOMAIN posts'

\* An answer that is a success is of the rows that are there.
Truthful(c, answer) ==
    answer.status < 300 =>
        /\ Request(c).op = "list" => answer.list = Matching(posts, Request(c))
        /\ Request(c).op = "get" => answer.detail.replies = RepliesTo(replies, Request(c).id)

Answering(c) ==
    \E answer : /\ exchange' = [exchange EXCEPT ![c] = Board!Answered(answer)]
                /\ Truthful(c, answer)

LEMMA TablesStay ==
    ASSUME SessionsOK, UNCHANGED <<posts, replies>>
    PROVE  TablesGrow
BY DEF SessionsOK, TablesGrow

LEMMA HandlersGrow ==
    ASSUME BoardInv, SessionsOK, NEW c \in Callers, Handle(c)
    PROVE  TablesGrow /\ (UNCHANGED exchange \/ Answering(c))
<1> DEFINE r == Request(c)
<1>1. /\ posts \in Seq(Posts) /\ replies \in Seq([post : Ids, author : Callers])
      /\ \A k \in DOMAIN replies : replies[k].post \in DOMAIN posts
  BY DEF BoardInv, Databases, db, SessionsOK
<1>2. ASSUME c \in holder.of
      PROVE  Progress(holder.before, r, holder.next, holder.id, holder.read, db)
  BY <1>2, Working DEF Held
<1>3. CASE Lock(c) \/ \E id, read : Goes(c, id, read) /\ UNCHANGED <<posts, replies>>
  BY <1>3, TablesStay DEF Lock, Goes
<1>4. ASSUME NEW answer, Answers(c, answer), Truthful(c, answer)
      PROVE  TablesGrow /\ Answering(c)
  BY <1>4, TablesStay DEF Answers, Answering
<1>5. CASE SelectPosts(c)
  <2>1. r.op = "list"
    BY <1>2, <1>5 DEF SelectPosts, Doing, Progress
  <2> DEFINE answer == [status |-> 200, list |-> Matching(posts, r)]
  <2>2. Answers(c, answer) /\ Truthful(c, answer)
    BY <1>5, <2>1 DEF SelectPosts, Truthful
  <2> HIDE DEF answer
  <2> QED
    BY <1>4, <2>2
<1>6. CASE SelectReplies(c)
  <2>1. PICK i \in holder.id, post \in holder.read :
          Answers(c, [status |-> IF r.op = "create" THEN 201 ELSE 200,
                      detail |-> [id |-> i, post |-> post, replies |-> RepliesTo(replies, i)]])
    BY <1>6 DEF SelectReplies
  <2> DEFINE answer == [status |-> IF r.op = "create" THEN 201 ELSE 200,
                        detail |-> [id |-> i, post |-> post,
                                    replies |-> RepliesTo(replies, i)]]
  <2>2. r.op # "list" /\ (r.op = "get" => i = r.id)
    <3>1. c \in holder.of /\ holder.next = "select replies"
      BY <1>6 DEF SelectReplies, Doing
    <3>2. Progress(holder.before, r, "select replies", holder.id, holder.read, db)
      BY <1>2, <3>1
    <3> HIDE DEF r
    <3> QED
      BY <3>2 DEF Progress
  <2>3. Truthful(c, answer)
    BY <2>2 DEF Truthful
  <2> HIDE DEF answer
  <2>4. Answers(c, answer)
    BY <2>1 DEF answer
  <2> QED
    BY <1>4, <2>3, <2>4
<1>7. CASE SelectReply(c)
  <2> DEFINE answer == [status |-> 201, reply |-> Len(replies)]
  <2>1. r.op = "reply"
    <3>1. c \in holder.of /\ holder.next = "select reply"
      BY <1>7 DEF SelectReply, Doing
    <3>2. Progress(holder.before, r, "select reply", holder.id, holder.read, db)
      BY <1>2, <3>1
    <3> HIDE DEF r
    <3> QED
      BY <3>2 DEF Progress
  <2>2. Answers(c, answer) /\ Truthful(c, answer)
    BY <1>7, <2>1 DEF SelectReply, Truthful
  <2> HIDE DEF answer
  <2> QED
    BY <1>4, <2>2
<1>8. CASE SelectPost(c) \/ FindPost(c)
  <2> DEFINE answer == [status |-> 404]
  <2>1. Truthful(c, answer)
    BY DEF Truthful
  <2> HIDE DEF answer
  <2>2. CASE holder.id \subseteq DOMAIN posts
    <3>1. \E id, read : Goes(c, id, read) /\ UNCHANGED <<posts, replies>>
      BY <1>8, <2>2 DEF SelectPost, FindPost
    <3> QED
      BY <1>3, <3>1
  <2>3. CASE ~(holder.id \subseteq DOMAIN posts)
    <3>1. Answers(c, answer)
      BY <1>8, <2>3 DEF SelectPost, FindPost, answer
    <3> QED
      BY <1>4, <2>1, <3>1
  <2> QED
    BY <2>2, <2>3
<1>9. CASE InsertPost(c)
  <2>1. /\ posts' = Append(posts, Made(r)) /\ replies' = replies /\ exchange' = exchange
    BY <1>9 DEF InsertPost, Goes, Made
  <2> HIDE DEF r
  <2> QED
    BY <1>1, <2>1 DEF TablesGrow
<1>10. CASE SetActive(c)
  <2> DEFINE on == TRUE \in r.active
  <2>1. /\ posts' = [i \in DOMAIN posts |->
                      IF i \in holder.id THEN [posts[i] EXCEPT !.active = on] ELSE posts[i]]
        /\ replies' = replies /\ exchange' = exchange
    BY <1>10 DEF SetActive, Goes
  <2> HIDE DEF on
  <2>2. \A i \in DOMAIN posts : posts'[i].agent = posts[i].agent
    BY <1>1, <2>1 DEF Posts
  <2> QED
    BY <1>1, <2>1, <2>2 DEF TablesGrow
<1>11. CASE SetBody(c)
  <2>1. PICK b \in r.body :
            posts' = [i \in DOMAIN posts |->
                        IF i \in holder.id THEN [posts[i] EXCEPT !.body = b] ELSE posts[i]]
    BY <1>11 DEF SetBody
  <2>2. replies' = replies /\ exchange' = exchange
    BY <1>11 DEF SetBody, Goes
  <2>3. \A i \in DOMAIN posts : posts'[i].agent = posts[i].agent
    BY <1>1, <2>1 DEF Posts
  <2> QED
    BY <1>1, <2>1, <2>2, <2>3 DEF TablesGrow
<1>12. CASE InsertReply(c)
  <2>1. c \in holder.of /\ holder.next = "insert reply"
    BY <1>12 DEF InsertReply, Doing
  <2>2. holder.id = {r.id} /\ r.id \in DOMAIN posts
    <3>1. Progress(holder.before, r, "insert reply", holder.id, holder.read, db)
      BY <1>2, <2>1
    <3>2. db.posts = posts
      BY DEF db
    <3> HIDE DEF r
    <3> QED
      BY <3>1, <3>2 DEF Progress
  <2>3. /\ replies' = Append(replies, [post |-> r.id, author |-> r.author])
        /\ posts' = posts /\ exchange' = exchange
    BY <1>12, <2>2 DEF InsertReply, Goes, Request
  <2> HIDE DEF r
  <2>4. /\ DOMAIN replies' = 1..(Len(replies) + 1) /\ DOMAIN replies = 1..Len(replies)
        /\ \A k \in DOMAIN replies : replies'[k] = replies[k]
        /\ replies'[Len(replies) + 1] = [post |-> r.id, author |-> r.author]
        /\ Len(replies) \in Nat
    BY <1>1, <2>3
  <2>5. replies'[Len(replies) + 1].post = r.id
    BY <2>4
  <2>6. ASSUME NEW k \in DOMAIN replies'
        PROVE  replies'[k].post \in DOMAIN posts'
    <3>1. k = Len(replies) + 1 \/ k \in DOMAIN replies
      BY <2>4
    <3>2. CASE k = Len(replies) + 1
      BY <2>2, <2>3, <2>5, <3>2
    <3>3. CASE k \in DOMAIN replies
      BY <1>1, <2>3, <2>4, <3>3
    <3> QED
      BY <3>1, <3>2, <3>3
  <2> QED
    BY <2>3, <2>4, <2>6 DEF TablesGrow
<1> QED
  BY <1>3, <1>5, <1>6, <1>7, <1>8, <1>9, <1>10, <1>11, <1>12 DEF Handle

\* What a step of somebody else may do to a session: it gets an answer or loses it, and
\* some of its posts are closed.
Undisturbed(a) ==
    /\ session'[a] = session[a]
    /\ due'[a] = {k \in due[a] : posts'[replies'[k].post].active}
    /\ \/ exchange'[a] = exchange[a]
       \/ exchange'[a].at = "broken"
       \/ \E answer : /\ exchange[a].at = "asked" /\ Truthful(a, answer)
                      /\ exchange'[a] = Board!Answered(answer)

LEMMA ListsAreLists ==
    ASSUME BoardInv, NEW r
    PROVE  Matching(posts, r) \in Seq(ToSet(Matching(posts, r)))
<1> DEFINE S == {i \in DOMAIN posts : /\ \A b \in r.agent : posts[i].agent = b
                                      /\ \A v \in r.active : posts[i].active = v}
<1>1. posts \in Seq(Posts)
  BY DEF BoardInv, Databases, db
<1>2. Len(posts) \in Nat /\ S \in SUBSET (1..Len(posts)) /\ Matching(posts, r) = Descending(S)
  BY <1>1 DEF Matching
<1> HIDE DEF S
<1> QED
  BY <1>2, NoneIsLeftOut

\* A reply that is due is to a post in the list of the open ones.
LEMMA DueIsListed ==
    ASSUME BoardInv, SessionsOK, NEW a \in Agents, OpenDue(a), NEW k \in due[a],
           Request(a) = BoardGetPosts(a)
    PROVE  replies[k].post \in ToSet(Matching(posts, Request(a)))
<1> DEFINE r == BoardGetPosts(a)
           S == {i \in DOMAIN posts : /\ \A b \in r.agent : posts[i].agent = b
                                      /\ \A v \in r.active : posts[i].active = v}
<1>1. posts \in Seq(Posts)
  BY DEF BoardInv, Databases, db
<1>2. /\ replies[k].post \in DOMAIN posts /\ posts[replies[k].post].agent = a
      /\ posts[replies[k].post].active \in BOOLEAN /\ posts[replies[k].post].active
  BY <1>1 DEF OpenDue, SessionsOK, Posts
<1>3. replies[k].post \in S
  BY <1>2 DEF BoardGetPosts
<1>4. Len(posts) \in Nat /\ S \in SUBSET (1..Len(posts)) /\ Matching(posts, r) = Descending(S)
  BY <1>1 DEF Matching
<1> HIDE DEF S, r
<1>5. replies[k].post \in ToSet(Descending(S))
  BY <1>3, <1>4, NoneIsLeftOut
<1> QED
  BY <1>4, <1>5 DEF r

\* The replies to a post are all told.
LEMMA RepliesAreTold ==
    ASSUME BoardInv, NEW k \in DOMAIN replies
    PROVE  k \in ToSet(RepliesTo(replies, replies[k].post))
<1> DEFINE S == {j \in DOMAIN replies : replies[j].post = replies[k].post}
<1>1. replies \in Seq([post : Ids, author : Callers])
  BY DEF BoardInv, Databases, db
<1>2. Len(replies) \in Nat /\ S \in SUBSET (1..Len(replies)) /\ k \in S
  BY <1>1
<1>3. RepliesTo(replies, replies[k].post) = Ascending(S)
  BY DEF RepliesTo
<1> HIDE DEF S
<1> QED
  BY <1>2, <1>3, NoneIsLeftOut

LEMMA UndisturbedSessions ==
    ASSUME BoardInv, SessionsOK, TablesGrow, NEW a \in Agents, Undisturbed(a), OpenDue(a),
           session[a].complete => Informed(a)
    PROVE  OpenDue(a)' /\ (session'[a].complete => Informed(a)')
<1>1. ASSUME NEW k \in due'[a]
      PROVE  /\ k \in due[a] /\ k \in DOMAIN replies /\ k \in DOMAIN replies'
             /\ replies'[k].post = replies[k].post
             /\ replies[k].post \in DOMAIN posts
             /\ posts'[replies'[k].post].active
             /\ posts'[replies'[k].post].agent = posts[replies[k].post].agent
             /\ posts[replies[k].post].agent = a
  <2>1. k \in due[a] /\ posts'[replies'[k].post].active
    BY DEF Undisturbed
  <2>2. k \in DOMAIN replies /\ posts[replies[k].post].agent = a
    BY <2>1 DEF OpenDue
  <2> QED
    BY <2>1, <2>2 DEF TablesGrow, SessionsOK
<1>2. OpenDue(a)'
  BY <1>1 DEF OpenDue
<1>3. ASSUME session[a].complete
      PROVE  Informed(a)'
  <2> DEFINE s == session[a]
             asked == exchange[a].at = "asked"
  <2>1. session'[a] = s /\ Informed(a)
    BY <1>3 DEF Undisturbed
  <2>2. exchange'[a].at = "asked" => asked /\ exchange'[a] = exchange[a]
    <3>1. \A answer : Board!Answered(answer).at = "answered"
      BY DEF Board!Answered
    <3> QED
      BY <3>1 DEF Undisturbed
  <2>3. CASE s.at = "listing"
    <3>1. asked => Request(a) = BoardGetPosts(a)
      BY <2>1, <2>3 DEF Informed
    <3>2. ASSUME Succeeds(a)'
          PROVE  LET list == exchange'[a].answer.list
                 IN  list \in Seq(ToSet(list)) /\ \A k \in due'[a] : replies'[k].post \in ToSet(list)
      <4>1. CASE exchange'[a] = exchange[a]
        <5>1. Succeeds(a)
          BY <3>2, <4>1 DEF Succeeds
        <5> QED
          BY <1>1, <2>1, <2>3, <4>1, <5>1 DEF Informed
      <4>2. ASSUME NEW answer, asked, Truthful(a, answer),
                   exchange'[a] = Board!Answered(answer)
            PROVE  LET list == exchange'[a].answer.list
                   IN  list \in Seq(ToSet(list))
                       /\ \A k \in due'[a] : replies'[k].post \in ToSet(list)
        <5>1. answer.status < 300 /\ exchange'[a].answer = answer
          BY <3>2, <4>2 DEF Succeeds, Board!Answered
        <5>2. Request(a) = BoardGetPosts(a) /\ Request(a).op = "list"
          <6>1. BoardGetPosts(a).op = "list"
            BY DEF BoardGetPosts
          <6> QED
            BY <3>1, <4>2, <6>1
        <5>3. answer.list = Matching(posts, Request(a))
          BY <4>2, <5>1, <5>2 DEF Truthful
        <5>4. \A k \in due'[a] : replies'[k].post \in ToSet(answer.list)
          BY <1>1, <5>2, <5>3, DueIsListed
        <5>5. answer.list \in Seq(ToSet(answer.list))
          BY <5>2, <5>3, ListsAreLists
        <5> QED
          BY <5>1, <5>4, <5>5
      <4>3. exchange'[a].at # "broken"
        BY <3>2 DEF Succeeds
      <4> QED
        BY <4>1, <4>2, <4>3 DEF Undisturbed
    <3>3. exchange'[a].at = "asked" => Request(a)' = BoardGetPosts(a)
      BY <2>2, <3>1 DEF Request
    <3> QED
      BY <2>1, <2>3, <3>2, <3>3 DEF Informed, BoardGetPosts
  <2>4. CASE s.at = "fetching"
    <3>1. /\ s.left \in Seq(ToSet(s.left))
          /\ \A k \in due[a] : k \in s.heard \/ replies[k].post \in ToSet(s.left)
          /\ asked => s.left # << >> /\ Request(a) = BoardGetPost(Head(s.left))
      BY <2>1, <2>4 DEF Informed
    <3>2. \A k \in due'[a] : k \in s.heard \/ replies'[k].post \in ToSet(s.left)
      BY <1>1, <3>1
    <3>3. exchange'[a].at = "asked" =>
                s.left # << >> /\ Request(a)' = BoardGetPost(Head(s.left))
      BY <2>2, <3>1 DEF Request
    <3>4. ASSUME Succeeds(a)'
          PROVE  /\ s.left # << >>
                 /\ \A k \in due'[a] : replies'[k].post = Head(s.left) =>
                      k \in ToSet(exchange'[a].answer.detail.replies)
      <4>1. CASE exchange'[a] = exchange[a]
        <5>1. Succeeds(a)
          BY <3>4, <4>1 DEF Succeeds
        <5> QED
          BY <1>1, <2>1, <2>4, <4>1, <5>1 DEF Informed
      <4>2. ASSUME NEW answer, asked, Truthful(a, answer),
                   exchange'[a] = Board!Answered(answer)
            PROVE  /\ s.left # << >>
                   /\ \A k \in due'[a] : replies'[k].post = Head(s.left) =>
                        k \in ToSet(exchange'[a].answer.detail.replies)
        <5>1. answer.status < 300 /\ exchange'[a].answer = answer
          BY <3>4, <4>2 DEF Succeeds, Board!Answered
        <5>2. Request(a).op = "get" /\ Request(a).id = Head(s.left)
          BY <3>1, <4>2 DEF BoardGetPost
        <5>3. answer.detail.replies = RepliesTo(replies, Head(s.left))
          BY <4>2, <5>1, <5>2 DEF Truthful
        <5> QED
          BY <1>1, <3>1, <4>2, <5>1, <5>3, RepliesAreTold
      <4>3. exchange'[a].at # "broken"
        BY <3>4 DEF Succeeds
      <4> QED
        BY <4>1, <4>2, <4>3 DEF Undisturbed
    <3> QED
      BY <2>1, <2>4, <3>1, <3>2, <3>3, <3>4 DEF Informed, BoardGetPost
  <2>5. CASE s.at = "acting"
    BY <1>1, <2>1, <2>5 DEF Informed
  <2>6. CASE s.at \notin {"listing", "fetching", "acting"}
    BY <2>1, <2>6 DEF Informed
  <2> QED
    BY <2>3, <2>4, <2>5, <2>6
<1> QED
  BY <1>2, <1>3 DEF Undisturbed

\* A step of an agent changes nothing of the others', and leaves its own session told of
\* what it has to be.
Own(a) ==
    /\ UNCHANGED <<posts, replies>>
    /\ session' = [session EXCEPT ![a] = session'[a]] /\ Fields(session'[a])
    /\ due' = [due EXCEPT ![a] = due'[a]]
    /\ \A b \in Agents \ {a} : exchange'[b] = exchange[b]
    /\ OpenDue(a)' /\ (session'[a].complete => Informed(a)')

LEMMA SessionSteps ==
    ASSUME BoardInv, HeardInv, NEW a \in Agents,
           \/ BeginSession(a) \/ ListReturns(a) \/ Fetch(a) \/ FetchReturns(a)
           \/ Prompted(a) \/ CreatePost(a) \/ Call(a) \/ CallReturns(a) \/ EndSession(a)
    PROVE  Own(a)
<1> DEFINE s == session[a]
<1>1. /\ session = [b \in Agents |-> session[b]] /\ due = [b \in Agents |-> due[b]]
      /\ s = [at |-> s.at, left |-> s.left, heard |-> s.heard, complete |-> s.complete]
      /\ s.complete \in BOOLEAN /\ (s.at \in {"resting", "listing"} => s.complete)
      /\ OpenDue(a) /\ (s.complete => Informed(a))
  BY DEF HeardInv, SessionsOK, Fields
<1>2. exchange = [c \in Callers |-> exchange[c]] /\ a \in Callers
  BY FindingsAssumption DEF BoardInv
<1>3. ASSUME UNCHANGED <<posts, replies, due>>
      PROVE  OpenDue(a)'
  BY <1>1, <1>3 DEF OpenDue
<1>4. ASSUME NEW r, Ask(a, r)
      PROVE  /\ UNCHANGED <<posts, replies>> /\ exchange'[a] = Board!Asked(r)
             /\ \A b \in Agents \ {a} : exchange'[b] = exchange[b]
             /\ Request(a)' = r /\ ~Succeeds(a)'
  <2>1. /\ UNCHANGED <<posts, replies>> /\ exchange' = [exchange EXCEPT ![a] = Board!Asked(r)]
    BY <1>4 DEF Ask
  <2>2. exchange'[a] = Board!Asked(r) /\ \A b \in Agents \ {a} : exchange'[b] = exchange[b]
    BY <1>2, <2>1, FindingsAssumption
  <2> QED
    BY <2>1, <2>2 DEF Board!Asked, Request, Succeeds
<1>5. ASSUME Return(a)
      PROVE  /\ UNCHANGED <<posts, replies>> /\ exchange'[a].at = "none" /\ ~Succeeds(a)'
             /\ \A b \in Agents \ {a} : exchange'[b] = exchange[b]
  <2>1. /\ UNCHANGED <<posts, replies>>
        /\ exchange' = [exchange EXCEPT ![a] = Board!NoExchange]
    BY <1>5 DEF Return
  <2>2. exchange'[a] = Board!NoExchange /\ \A b \in Agents \ {a} : exchange'[b] = exchange[b]
    BY <1>2, <2>1, FindingsAssumption
  <2> QED
    BY <2>1, <2>2 DEF Board!NoExchange, Succeeds
<1>6. Succeeds(a) \in BOOLEAN
  BY DEF Succeeds
<1>7. CASE BeginSession(a)
  <2>1. /\ Ask(a, BoardGetPosts(a)) /\ due' = [due EXCEPT ![a] = RepliesOnOpen(a)]
        /\ session' = [session EXCEPT ![a].at = "listing"]
    BY <1>7 DEF BeginSession
  <2>2. /\ session'[a] = [s EXCEPT !.at = "listing"]
        /\ session' = [session EXCEPT ![a] = session'[a]]
    BY <1>1, <2>1
  <2>3. session'[a] = [at |-> "listing", left |-> s.left, heard |-> s.heard,
                       complete |-> s.complete]
    BY <1>1, <2>2
  <2>4. Fields(session'[a]) /\ session'[a].at = "listing"
    <3> DEFINE l == s.left  h == s.heard  k == s.complete
    <3>1. session'[a] = [at |-> "listing", left |-> l, heard |-> h, complete |-> k]
      BY <2>3
    <3>2. k \in BOOLEAN /\ k
      BY <1>1, <1>7 DEF BeginSession
    <3> HIDE DEF l, h, k
    <3> QED
      BY <3>1, <3>2 DEF Fields
  <2>5. due'[a] = RepliesOnOpen(a) /\ due' = [due EXCEPT ![a] = due'[a]]
    BY <1>1, <2>1
  <2>6. OpenDue(a)'
    BY <1>4, <2>1, <2>5 DEF OpenDue, RepliesOnOpen
  <2>7. Informed(a)'
    BY <1>4, <2>1, <2>4 DEF Informed
  <2> QED
    BY <1>4, <2>1, <2>2, <2>4, <2>5, <2>6, <2>7 DEF Own
<1>8. CASE ListReturns(a)
  <2> DEFINE ok == Succeeds(a)
             list == IF ok THEN exchange[a].answer.list ELSE << >>
             h == s.heard
  <2>1. /\ Return(a) /\ due' = due /\ s.at = "listing"
        /\ session' = [session EXCEPT ![a].at = "fetching", ![a].left = list,
                                      ![a].complete = ok]
    BY <1>8 DEF ListReturns
  <2>2. ok \in BOOLEAN
    BY <1>6
  <2>3. /\ session'[a] = [at |-> "fetching", left |-> list, heard |-> h, complete |-> ok]
        /\ session' = [session EXCEPT ![a] = session'[a]]
    <3> HIDE DEF ok, list
    <3>1. /\ session'[a] = [s EXCEPT !.at = "fetching", !.left = list, !.complete = ok]
          /\ session' = [session EXCEPT ![a] = session'[a]]
      BY <1>1, <2>1
    <3> QED
      BY <1>1, <3>1
  <2>4. /\ Fields(session'[a]) /\ session'[a].at = "fetching" /\ session'[a].left = list
        /\ session'[a].complete = ok
    <3> HIDE DEF ok, list, h
    <3> QED
      BY <2>2, <2>3 DEF Fields
  <2>5. due' = [due EXCEPT ![a] = due'[a]] /\ OpenDue(a)'
    BY <1>1, <1>3, <1>5, <2>1
  <2>6. s.complete
    BY <1>1, <2>1
  <2>7. ASSUME ok
        PROVE  Informed(a)'
    <3>1. /\ list \in Seq(ToSet(list)) /\ \A k \in due[a] : replies[k].post \in ToSet(list)
      BY <1>1, <2>1, <2>6, <2>7 DEF Informed
    <3> HIDE DEF list, ok
    <3>2. /\ list \in Seq(ToSet(list)) /\ \A k \in due'[a] : replies'[k].post \in ToSet(list)
      BY <1>5, <2>1, <3>1
    <3> QED
      BY <1>5, <2>1, <2>4, <3>2 DEF Informed
  <2> QED
    BY <1>5, <2>1, <2>3, <2>4, <2>5, <2>7 DEF Own
<1>9. ASSUME UNCHANGED <<session, due>>
      PROVE  /\ session' = [session EXCEPT ![a] = session'[a]] /\ Fields(session'[a])
             /\ due' = [due EXCEPT ![a] = due'[a]]
             /\ session'[a] = s /\ due'[a] = due[a]
  BY <1>1, <1>9 DEF Fields
<1>10. CASE Fetch(a)
  <2> DEFINE r == BoardGetPost(Head(s.left))
  <2>1. Ask(a, r) /\ s.at = "fetching" /\ s.left # << >> /\ UNCHANGED <<session, due>>
    BY <1>10 DEF Fetch
  <2>2. Request(a)' = r /\ ~Succeeds(a)' /\ UNCHANGED replies
    BY <1>4, <2>1
  <2>3. s.complete => Informed(a)'
    <3> HIDE DEF r
    <3>1. s.complete => /\ s.left \in Seq(ToSet(s.left))
                        /\ \A k \in due[a] : k \in s.heard \/ replies[k].post \in ToSet(s.left)
      BY <1>1, <2>1 DEF Informed
    <3>2. Request(a)' = BoardGetPost(Head(s.left))
      BY <2>2 DEF r
    <3> QED
      BY <1>9, <2>1, <2>2, <3>1, <3>2 DEF Informed
  <2> QED
    BY <1>3, <1>4, <1>9, <2>1, <2>3 DEF Own
<1>11. CASE FetchReturns(a)
  <2> DEFINE ok == Succeeds(a)
             told == ToSet(exchange[a].answer.detail.replies)
             h == IF ok THEN s.heard \union told ELSE s.heard
             l == Tail(s.left)
  <2>k. PICK k \in BOOLEAN : k = (s.complete /\ ok)
    BY <1>1, <1>6
  <2>1. /\ Return(a) /\ due' = due /\ s.at = "fetching"
        /\ session' = [session EXCEPT
                ![a].left = Tail(@),
                ![a].heard = IF ok THEN @ \union told ELSE @,
                ![a].complete = @ /\ ok]
    BY <1>11 DEF FetchReturns
  <2>2. k \in BOOLEAN
    BY <2>k
  <2>3. /\ session'[a] = [at |-> "fetching", left |-> l, heard |-> h, complete |-> k]
        /\ session' = [session EXCEPT ![a] = session'[a]]
    <3>1. /\ session' = [session EXCEPT ![a] = [session[a] EXCEPT !.left = l, !.heard = h,
                                                                  !.complete = k]]
      BY <2>1, <2>k
    <3> HIDE DEF l, h
    <3>2. /\ session'[a] = [s EXCEPT !.left = l, !.heard = h, !.complete = k]
          /\ session' = [session EXCEPT ![a] = session'[a]]
      BY <1>1, <3>1
    <3> DEFINE l0 == s.left  h0 == s.heard  k0 == s.complete
    <3>3. s = [at |-> "fetching", left |-> l0, heard |-> h0, complete |-> k0]
      BY <1>1, <2>1
    <3> DEFINE s1 == [s EXCEPT !.left = l]
               s2 == [s1 EXCEPT !.heard = h]
    <3>4. session'[a] = [s2 EXCEPT !.complete = k]
      BY <3>2
    <3> HIDE DEF s, l0, h0, k0
    <3>5. s1 = [at |-> "fetching", left |-> l, heard |-> h0, complete |-> k0]
      BY <3>3
    <3> HIDE DEF s1
    <3>6. s2 = [at |-> "fetching", left |-> l, heard |-> h, complete |-> k0]
      BY <3>5
    <3> HIDE DEF s2
    <3> QED
      BY <3>2, <3>4, <3>6
  <2>4. /\ Fields(session'[a]) /\ session'[a].at = "fetching" /\ session'[a].left = l
        /\ session'[a].heard = h /\ session'[a].complete = k
    <3> HIDE DEF l, h
    <3> QED
      BY <2>2, <2>3 DEF Fields
  <2>5. due' = [due EXCEPT ![a] = due'[a]] /\ OpenDue(a)'
    BY <1>1, <1>3, <1>5, <2>1
  <2>6. ASSUME k
        PROVE  Informed(a)'
    <3>1. /\ s.left \in Seq(ToSet(s.left)) /\ s.left # << >>
          /\ \A j \in due[a] : j \in s.heard \/ replies[j].post \in ToSet(s.left)
          /\ \A j \in due[a] : replies[j].post = Head(s.left) => j \in told
      BY <1>1, <2>1, <2>6, <2>k DEF Informed
    <3>2. h = s.heard \union told
      BY <2>6, <2>k
    <3> HIDE DEF told, h, ok, l
    <3>3. /\ l \in Seq(ToSet(l)) /\ \A x \in ToSet(s.left) : x = Head(s.left) \/ x \in ToSet(l)
      BY <3>1, RestOfList DEF l
    <3>4. \A j \in due'[a] : j \in h \/ replies'[j].post \in ToSet(l)
      BY <1>5, <2>1, <3>1, <3>2, <3>3
    <3> QED
      BY <1>5, <2>1, <2>4, <3>3, <3>4 DEF Informed
  <2> QED
    BY <1>5, <2>1, <2>3, <2>4, <2>5, <2>6 DEF Own
<1>12. CASE Prompted(a)
  <2>1. /\ s.at = "fetching" /\ s.left = << >> /\ UNCHANGED <<posts, replies, exchange, due>>
        /\ session' = [session EXCEPT ![a].at = "acting"]
    BY <1>12 DEF Prompted, boardVars
  <2> DEFINE l == s.left  h == s.heard  k == s.complete
  <2>2. /\ session'[a] = [s EXCEPT !.at = "acting"]
        /\ session' = [session EXCEPT ![a] = session'[a]]
    BY <1>1, <2>1
  <2>3. session'[a] = [at |-> "acting", left |-> l, heard |-> h, complete |-> k]
    BY <1>1, <2>2
  <2>4. /\ Fields(session'[a]) /\ session'[a].at = "acting" /\ session'[a].heard = h
        /\ session'[a].complete = k
    <3>1. k \in BOOLEAN
      BY <1>1
    <3> HIDE DEF l, h, k
    <3> QED
      BY <2>3, <3>1 DEF Fields
  <2>5. k => Informed(a)'
    <3>1. k => \A j \in due[a] : j \in h
      BY <1>1, <2>1 DEF Informed, ToSet
    <3> HIDE DEF h, k
    <3> QED
      BY <2>1, <2>4, <3>1 DEF Informed
  <2>6. due' = [due EXCEPT ![a] = due'[a]]
    BY <1>1, <2>1
  <2> QED
    BY <1>3, <2>1, <2>2, <2>4, <2>5, <2>6 DEF Own
<1>13. CASE CreatePost(a) \/ Call(a) \/ CallReturns(a)
  <2>1. s.at = "acting" /\ UNCHANGED <<session, due>>
    BY <1>13 DEF CreatePost, Call, CallReturns
  <2>2. Return(a) \/ \E r : Ask(a, r)
    BY <1>13 DEF CreatePost, Call, CallReturns
  <2>3. /\ UNCHANGED <<posts, replies>>
        /\ \A b \in Agents \ {a} : exchange'[b] = exchange[b]
    BY <1>4, <1>5, <2>2
  <2>4. s.complete => Informed(a)'
    BY <1>1, <1>9, <2>1 DEF Informed
  <2> QED
    BY <1>3, <1>9, <2>1, <2>3, <2>4 DEF Own
<1>14. CASE EndSession(a)
  <2>1. /\ UNCHANGED <<posts, replies, exchange>> /\ due' = [due EXCEPT ![a] = {}]
        /\ session' = [session EXCEPT ![a] = NoSession]
    BY <1>14 DEF EndSession, boardVars
  <2>2. session'[a] = NoSession /\ session' = [session EXCEPT ![a] = session'[a]]
    BY <1>1, <2>1
  <2>3. due'[a] = {} /\ due' = [due EXCEPT ![a] = due'[a]]
    BY <1>1, <2>1
  <2>4. Fields(session'[a]) /\ session'[a].at = "resting"
    BY <2>2 DEF Fields, NoSession
  <2>5. OpenDue(a)' /\ Informed(a)'
    BY <2>3, <2>4 DEF OpenDue, Informed
  <2> QED
    BY <2>1, <2>2, <2>3, <2>4, <2>5 DEF Own
<1> QED
  BY <1>7, <1>8, <1>10, <1>11, <1>12, <1>13, <1>14

-----------------------------------------------------------------------------
\* Every step keeps the sessions told of what they have to be.
LEMMA OwnKeepsHeard ==
    ASSUME BoardInv, HeardInv, NEW a \in Agents, Own(a)
    PROVE  HeardInv'
<1>1. TablesGrow /\ SessionsOK
  BY TablesStay DEF Own, HeardInv
<1>2. ASSUME NEW b \in Agents
      PROVE  /\ b # a => session'[b] = session[b] /\ due'[b] = due[b]
             /\ Fields(session'[b])
  <2>1. /\ session = [c \in Agents |-> session[c]] /\ due = [c \in Agents |-> due[c]]
        /\ Fields(session[b])
    BY <1>1 DEF SessionsOK
  <2>2. b # a => session'[b] = session[b] /\ due'[b] = due[b]
    BY <2>1 DEF Own
  <2>3. CASE b = a
    BY <2>2, <2>3 DEF Own
  <2>4. CASE b # a
    BY <2>1, <2>2, <2>4 DEF Fields
  <2> QED
    BY <2>2, <2>3, <2>4
<1>3. SessionsOK'
  <2>1. /\ session' = [b \in Agents |-> session'[b]] /\ due' = [b \in Agents |-> due'[b]]
    BY <1>1 DEF SessionsOK, Own
  <2>2. \A b \in Agents : Fields(session[b])'
    BY <1>2 DEF Fields
  <2> QED
    BY <1>1, <2>1, <2>2 DEF SessionsOK, TablesGrow
<1>4. ASSUME NEW b \in Agents
      PROVE  (OpenDue(b) /\ (session[b].complete => Informed(b)))'
  <2>1. CASE b = a
    BY <2>1 DEF Own
  <2>2. CASE b # a
    <3>1. OpenDue(b) /\ (session[b].complete => Informed(b))
      BY DEF HeardInv
    <3>2. due'[b] = {k \in due[b] : posts'[replies'[k].post].active}
      BY <1>2, <2>2, <3>1 DEF OpenDue, Own
    <3>3. Undisturbed(b)
      BY <1>2, <2>2, <3>2 DEF Undisturbed, Own
    <3> QED
      BY <1>1, <3>1, <3>3, UndisturbedSessions
  <2> QED
    BY <2>1, <2>2
<1> QED
  BY <1>3, <1>4 DEF HeardInv

LEMMA OthersKeepHeard ==
    ASSUME BoardInv, HeardInv, TablesGrow, UNCHANGED session,
           due' = [a \in Agents |-> due'[a]], \A a \in Agents : Undisturbed(a)
    PROVE  HeardInv'
<1>1. SessionsOK
  BY DEF HeardInv
<1>2. SessionsOK'
  BY <1>1 DEF SessionsOK, TablesGrow, Fields
<1>3. ASSUME NEW a \in Agents
      PROVE  (OpenDue(a) /\ (session[a].complete => Informed(a)))'
  BY <1>1, UndisturbedSessions DEF HeardInv
<1> QED
  BY <1>2, <1>3 DEF HeardInv

LEMMA HeardSteps ==
    ASSUME BoardInv, HeardInv, Next
    PROVE  HeardInv'
<1>0. SessionsOK
  BY DEF HeardInv
<1>1. ASSUME NEW a \in Agents,
             \/ BeginSession(a) \/ ListReturns(a) \/ Fetch(a) \/ FetchReturns(a)
             \/ Prompted(a) \/ CreatePost(a) \/ Call(a) \/ CallReturns(a) \/ EndSession(a)
      PROVE  HeardInv'
  <2>1. Own(a)
    BY <1>1, SessionSteps
  <2> QED
    BY <2>1, OwnKeepsHeard
<1>2. ASSUME UNCHANGED <<posts, replies, session, due>>,
             \A a \in Agents : exchange'[a] = exchange[a] \/ exchange'[a].at = "broken"
      PROVE  HeardInv'
  <2>1. TablesGrow
    BY <1>0, <1>2, TablesStay
  <2>2. ASSUME NEW a \in Agents
        PROVE  Undisturbed(a)
    <3>1. due'[a] = {k \in due[a] : posts'[replies'[k].post].active}
      BY <1>2 DEF HeardInv, OpenDue
    <3> QED
      BY <1>2, <3>1 DEF Undisturbed
  <2>3. due' = [a \in Agents |-> due'[a]]
    BY <1>0, <1>2 DEF SessionsOK
  <2> QED
    BY <1>2, <2>1, <2>2, <2>3, OthersKeepHeard
<1>3. ASSUME StillOpen, TablesGrow,
             \A a \in Agents : \/ exchange'[a] = exchange[a] \/ exchange'[a].at = "broken"
                               \/ \E answer : /\ exchange[a].at = "asked" /\ Truthful(a, answer)
                                              /\ exchange'[a] = Board!Answered(answer)
      PROVE  HeardInv'
  <2>1. /\ UNCHANGED session
        /\ due' = [a \in Agents |-> {k \in due[a] : posts'[replies'[k].post].active}]
    BY <1>3 DEF StillOpen
  <2>2. due' = [a \in Agents |-> due'[a]]
    BY <2>1
  <2>3. \A a \in Agents : Undisturbed(a)
    BY <1>3, <2>1 DEF Undisturbed
  <2> QED
    BY <1>3, <2>1, <2>2, <2>3, OthersKeepHeard
<1>4. ASSUME NEW p \in Callers \ Agents, Person(p)
      PROVE  HeardInv'
  <2>1. /\ UNCHANGED <<posts, replies, session, due>>
        /\ \E x : exchange' = [exchange EXCEPT ![p] = x]
    BY <1>4 DEF Person, Ask, Return
  <2>2. \A a \in Agents : exchange'[a] = exchange[a]
    BY <2>1, FindingsAssumption DEF BoardInv
  <2> QED
    BY <1>2, <2>1, <2>2
<1>5. ASSUME NEW c \in Callers, StillOpen, TablesGrow, exchange[c].at = "asked", Answering(c)
      PROVE  HeardInv'
  <2>1. PICK answer : /\ exchange' = [exchange EXCEPT ![c] = Board!Answered(answer)]
                      /\ Truthful(c, answer)
    BY <1>5 DEF Answering
  <2>2. \A a \in Agents : exchange'[a] = IF a = c THEN Board!Answered(answer) ELSE exchange[a]
    BY <2>1, OneExchange, FindingsAssumption
  <2> QED
    BY <1>3, <1>5, <2>1, <2>2
<1>6. ASSUME NEW c \in Callers, Serving(c)
      PROVE  HeardInv'
  <2>1. StillOpen /\ Handle(c)
    BY <1>6 DEF Serving
  <2>2. TablesGrow /\ (UNCHANGED exchange \/ Answering(c))
    BY <1>0, <2>1, HandlersGrow
  <2>3. CASE UNCHANGED exchange
    BY <1>3, <2>1, <2>2, <2>3
  <2>4. CASE Answering(c)
    <3>1. exchange[c].at = "asked"
      BY <2>1, Working DEF Handle, Lock, SelectPosts, InsertPost, SetActive, SetBody,
         SelectPost, SelectReplies, FindPost, InsertReply, SelectReply, Doing, Held
    <3> QED
      BY <1>5, <2>1, <2>2, <2>4, <3>1
  <2> QED
    BY <2>2, <2>3, <2>4
<1>7. CASE Faults
  <2>1. StillOpen /\ (RestartBoard \/ \E c \in Callers : StatementFails(c) \/ LoseExchange(c))
    BY <1>7 DEF Faults
  <2>2. CASE RestartBoard
    <3>1. TablesGrow
      BY <1>0, <2>2, TablesStay DEF RestartBoard
    <3>2. ASSUME NEW a \in Agents
          PROVE  exchange'[a] = exchange[a] \/ exchange'[a].at = "broken"
      BY <2>2, FindingsAssumption DEF RestartBoard, Board!Broken
    <3> QED
      BY <1>3, <2>1, <3>1, <3>2
  <2>3. ASSUME NEW c \in Callers, LoseExchange(c)
        PROVE  HeardInv'
    <3>1. TablesGrow
      BY <1>0, <2>3, TablesStay DEF LoseExchange
    <3>2. \A a \in Agents : exchange'[a] = IF a = c THEN Board!Broken ELSE exchange[a]
      BY <2>3, OneExchange, FindingsAssumption DEF LoseExchange
    <3> QED
      BY <1>3, <2>1, <3>1, <3>2 DEF Board!Broken
  <2>4. ASSUME NEW c \in Callers, StatementFails(c)
        PROVE  HeardInv'
    <3> DEFINE answer == Board!Failure(Request(c))
    <3>1. c \in holder.of /\ Answers(c, answer)
      BY <2>4 DEF StatementFails
    <3>2. ~(answer.status < 300)
      BY DEF Board!Failure
    <3>3. TablesGrow /\ Answering(c)
      BY <1>0, <3>1, <3>2, TablesStay DEF Answers, Answering, Truthful
    <3>4. exchange[c].at = "asked"
      BY <3>1, Working DEF Held
    <3> QED
      BY <1>5, <2>1, <3>3, <3>4
  <2> QED
    BY <2>1, <2>2, <2>3, <2>4
<1> QED
  BY <1>1, <1>4, <1>6, <1>7 DEF Next

\* A session that no failure kept from it tells its agent of every reply that was there when
\* the session began, on each of the agent's posts that stayed open.
THEOREM NoReplyGoesUnheard == Spec => []RepliesAreHeard
<1>1. Init => BoardInv /\ HeardInv
  <2> SUFFICES ASSUME Init PROVE BoardInv /\ HeardInv
    OBVIOUS
  <2>1. /\ posts = << >> /\ replies = << >>
        /\ session = [a \in Agents |-> NoSession] /\ due = [a \in Agents |-> {}]
    BY DEF Init, BoardInit
  <2>2. \A a \in Agents : Fields(session[a]) /\ session[a].at = "resting"
    BY <2>1 DEF Fields, NoSession
  <2>3. SessionsOK
    BY <2>1, <2>2 DEF SessionsOK
  <2>4. \A a \in Agents : OpenDue(a) /\ Informed(a)
    BY <2>1, <2>2 DEF OpenDue, Informed
  <2> QED
    BY <2>3, <2>4, BoardAtFirst DEF HeardInv
<1>2. BoardInv /\ HeardInv /\ [Next]_vars => BoardInv' /\ HeardInv'
  <2> SUFFICES ASSUME BoardInv, HeardInv, [Next]_vars PROVE BoardInv' /\ HeardInv'
    OBVIOUS
  <2>1. CASE Next
    BY <2>1, BoardSteps, StepsOfTheBoard, HeardSteps
  <2>2. CASE UNCHANGED vars
    <3>1. BoardStep
      BY <2>2 DEF vars, BoardStep
    <3>2. HeardInv'
      BY <2>2 DEF vars, boardVars, HeardInv, SessionsOK, OpenDue, Informed, Fields, Succeeds,
         Request
    <3> QED
      BY <3>1, <3>2, StepsOfTheBoard
  <2> QED
    BY <2>1, <2>2
<1>3. HeardInv => RepliesAreHeard
  BY DEF HeardInv, RepliesAreHeard, Informed
<1> QED
  BY <1>1, <1>2, <1>3, PTL DEF Spec
=============================================================================
