------------------------------ MODULE Findings ------------------------------
(***************************************************************************)
(* Agents that keep their findings on the message board: the prompt of a   *)
(* session tells an agent of its open posts and their replies              *)
(* (build_system_prompt in crates/signal-ha-agent/src/session.rs), and the *)
(* session then calls the board functions of HaHost (ha_host.rs).  People  *)
(* reply to posts, and change, close and reopen them.                      *)
(*                                                                         *)
(* What an agent does with an answer is left open: it may call any of the  *)
(* functions with any post.  An agent has one call at a time.              *)
(***************************************************************************)
EXTENDS MessageBoard, FiniteSetsExt

CONSTANTS
    Agents,         \* the agents among the callers
    HouseAgents,    \* the ones that are given board_get_all_posts
    MaxPosts,       \* posts that agents try to make, in all (bound)
    MaxReplies      \* replies (bound)

ASSUME FindingsAssumption ==
    /\ HouseAgents \subseteq Agents /\ Agents \subseteq Callers
    /\ MaxPosts \in Nat /\ MaxReplies \in Nat

VARIABLES
    session,        \* what each agent's session is at
    made,           \* history: calls of board_create_post by each agent
    due             \* history: replies on each agent's posts that stayed open since
                    \* its session began

vars == <<boardVars, session, made, due>>

\* left: posts listed in the prompt that are still to be fetched; heard: the replies
\* told of; complete: no request of the prompt failed
NoSession == [at |-> "resting", left |-> << >>, heard |-> {}, complete |-> TRUE]

Init ==
    /\ BoardInit
    /\ session = [a \in Agents |-> NoSession]
    /\ made = [a \in Agents |-> 0]
    /\ due = [a \in Agents |-> {}]

-----------------------------------------------------------------------------
(* The board functions of HaHost *)

BoardGetPosts(a) == [op |-> "list", agent |-> {a}, active |-> {TRUE}]
BoardGetPost(id) == [op |-> "get", id |-> id]
BoardCreatePost(a, body) == [op |-> "create", agent |-> a, body |-> body]
BoardReply(a, id) == [op |-> "reply", id |-> id, author |-> a]
BoardClosePost(id) == [op |-> "update", id |-> id, active |-> {FALSE}, body |-> {}]
BoardGetAllPosts(activeOnly) ==
    [op |-> "list", agent |-> {}, active |-> IF activeOnly THEN {TRUE} ELSE {}]

\* A call returns a value only if the board answers with success.
Succeeds(c) == exchange[c].at = "answered" /\ exchange[c].answer.status < 300

\* Mutant: a call that failed is made again.
CallReturnsRetried(a) ==
    /\ session[a].at = "acting"
    /\ \/ Return(a)
       \/ /\ exchange[a] = Board!Answered([status |-> 500])
          /\ exchange' = [exchange EXCEPT ![a] =
                Board!Asked(BoardCreatePost(a, CHOOSE b \in Bodies : TRUE))]
          /\ UNCHANGED <<posts, replies, holder>>
    /\ UNCHANGED <<session, made, due>>

\* A function called from Python returns.  A failure over HTTP is returned as it
\* is: it is none of those that fulfill() reconnects and tries again for.
CallReturns(a) ==
    /\ session[a].at = "acting"
    /\ Return(a)
    /\ UNCHANGED <<session, made, due>>

-----------------------------------------------------------------------------
(* A session *)

RepliesOnOpen(a) ==
    {k \in DOMAIN replies :
        posts[replies[k].post].agent = a /\ posts[replies[k].post].active}

BeginSession(a) ==
    /\ session[a].at = "resting"
    /\ Ask(a, BoardGetPosts(a))
    /\ session' = [session EXCEPT ![a].at = "listing"]
    /\ due' = [due EXCEPT ![a] = RepliesOnOpen(a)]
    /\ UNCHANGED made

\* The list has come, or has not: then the prompt says that the board is not there.
ListReturns(a) ==
    /\ session[a].at = "listing"
    /\ Return(a)
    /\ session' = [session EXCEPT
            ![a].at = "fetching",
            ![a].left = IF Succeeds(a) THEN exchange[a].answer.list ELSE << >>,
            ![a].complete = Succeeds(a)]
    /\ UNCHANGED <<made, due>>

Fetch(a) ==
    /\ session[a].at = "fetching" /\ session[a].left # << >>
    /\ Head(session[a].left) \in Ids
    /\ Ask(a, BoardGetPost(Head(session[a].left)))
    /\ UNCHANGED <<session, made, due>>

\* A post that could not be fetched is told of as it was listed, without replies.
FetchReturns(a) ==
    /\ session[a].at = "fetching"
    /\ Return(a)
    /\ session' = [session EXCEPT
            ![a].left = Tail(@),
            ![a].heard = IF Succeeds(a) THEN @ \union ToSet(exchange[a].answer.detail.replies)
                         ELSE @,
            ![a].complete = @ /\ Succeeds(a)]
    /\ UNCHANGED <<made, due>>

Prompted(a) ==
    /\ session[a].at = "fetching" /\ session[a].left = << >>
    /\ session' = [session EXCEPT ![a].at = "acting"]
    /\ UNCHANGED <<boardVars, made, due>>

EndSession(a) ==
    /\ session[a].at = "acting" /\ exchange[a] = Board!NoExchange
    /\ session' = [session EXCEPT ![a] = NoSession]
    /\ due' = [due EXCEPT ![a] = {}]
    /\ UNCHANGED <<boardVars, made>>

MayReply ==
    Len(replies) + Cardinality({c \in Callers : exchange[c].at = "asked"
                                                /\ exchange[c].request.op = "reply"})
        < MaxReplies

CreatePost(a) ==
    /\ session[a].at = "acting"
    /\ MapThenSumSet(LAMBDA b : made[b], Agents) < MaxPosts
    /\ \E body \in Bodies : Ask(a, BoardCreatePost(a, body))
    /\ made' = [made EXCEPT ![a] = @ + 1]
    /\ UNCHANGED <<session, due>>

Call(a) ==
    /\ session[a].at = "acting"
    /\ \/ \E id \in Ids : Ask(a, BoardClosePost(id))
       \/ \E id \in Ids : MayReply /\ Ask(a, BoardReply(a, id))
       \/ a \in HouseAgents /\ \E activeOnly \in BOOLEAN : Ask(a, BoardGetAllPosts(activeOnly))
    /\ UNCHANGED <<session, made, due>>

-----------------------------------------------------------------------------
(* People, and the board *)

Person(p) ==
    /\ \/ \E r \in {q \in Board!Requests : q.op = "update" \/ (q.op = "reply" /\ MayReply)} :
            (r.op = "reply" => r.author = p) /\ Ask(p, r)
       \/ Return(p)
    /\ UNCHANGED <<session, made, due>>

StillOpen ==
    /\ due' = [a \in Agents |-> {k \in due[a] : posts'[replies'[k].post].active}]
    /\ UNCHANGED <<session, made>>

Serving(c) == Handle(c) /\ StillOpen
Faults ==
    /\ RestartBoard \/ \E c \in Callers : StatementFails(c) \/ LoseExchange(c)
    /\ StillOpen

Next ==
    \/ \E a \in Agents :
          \/ BeginSession(a) \/ ListReturns(a) \/ Fetch(a) \/ FetchReturns(a)
          \/ Prompted(a) \/ CreatePost(a) \/ Call(a) \/ CallReturns(a) \/ EndSession(a)
    \/ \E p \in Callers \ Agents : Person(p)
    \/ \E c \in Callers : Serving(c)
    \/ Faults

Spec == Init /\ [][Next]_vars

-----------------------------------------------------------------------------
(* Properties *)

\* The board serves its callers as if one after the other, and a request that fails
\* or that the board does not survive has been done up to some statement.
ImplementsBoard == Board!Spec

\* An agent posts no finding twice: whatever breaks, there are no more posts of it
\* than it called for.
PostedAtMostOnce ==
    \A a \in Agents : Cardinality({i \in DOMAIN posts : posts[i].agent = a}) <= made[a]

\* A session whose prompt could be put together tells its agent of every reply that
\* was there when it began, on every post of the agent that stayed open meanwhile.
RepliesAreHeard ==
    \A a \in Agents :
        (session[a].at = "acting" /\ session[a].complete) => due[a] \subseteq session[a].heard
=============================================================================
