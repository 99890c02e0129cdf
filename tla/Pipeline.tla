-------------------------------- MODULE Pipeline --------------------------------
(***************************************************************************)
(* PipelineService: the ideas and their references; their comments are     *)
(* counted, their reactions are in Marks.  Titles, departments and who is  *)
(* told are left out.                                                      *)
(***************************************************************************)
EXTENDS Tickets

CONSTANTS Ideas       \* ids of table pipeline_ideas, 1..n

ASSUME IdeaConstants == IsFiniteSet(Ideas)

VARIABLES
    idea,       \* the rows
    proposed,   \* history: the ids that have been used
    gap         \* history: an idea was removed before a newer one, or came back

pipelineVars == <<idea, proposed, gap>>

NoIdea == [ref |-> 0, author |-> None, comments |-> 0]
Kept == {i \in Ideas : idea[i].ref # 0}
RefsOf(ids) == {idea[i].ref : i \in ids}

PipelineInit ==
    /\ idea = [i \in Ideas |-> NoIdea]
    /\ proposed = {}
    /\ gap = FALSE

\* createIdea counts the ideas, then saves one with the next reference
AskCreateIdea(s, u) ==
    /\ Take(s, At("idea.create", <<"idea", 0>>, u,
                  [ref |-> NextRef(Cardinality(Kept)), author |-> u, comments |-> 0]))
    /\ UNCHANGED pipelineVars
InsertIdea(s) ==
    LET h == desk[s]  i == Cardinality(proposed) + 1 IN
    /\ h.pc = "idea.create"
    /\ IF h.object.ref \in RefsOf(Kept)
       THEN UNCHANGED pipelineVars
       ELSE /\ i \in Ideas
            /\ idea' = [idea EXCEPT ![i] = h.object]
            /\ proposed' = proposed \cup {i}
            /\ gap' = (gap \/ h.object.ref # NextRef(Cardinality(Kept)))
    /\ Ends(s)

\* updateIdea, by the author; an idea that was removed meanwhile comes back,
\* without its comments, unless its reference is taken
AskUpdateIdea(s, u, i) ==
    /\ i \in Kept /\ idea[i].author = u
    /\ Take(s, At("idea.update", <<"idea", i>>, u, idea[i]))
    /\ UNCHANGED pipelineVars
SaveIdea(s) ==
    LET h == desk[s]  i == h.on[2] IN
    /\ h.pc = "idea.update"
    /\ IF i \notin Kept /\ h.object.ref \notin RefsOf(Kept)
       THEN idea' = [idea EXCEPT ![i] = [h.object EXCEPT !.comments = 0]] /\ gap' = TRUE
       ELSE UNCHANGED <<idea, gap>>
    /\ Ends(s)
    /\ UNCHANGED proposed

\* deleteIdea, by the author; the comments go with it
DeleteIdea(u, i) ==
    /\ i \in Kept /\ idea[i].author = u
    /\ Quick(<<"idea", i>>)
    /\ idea' = [idea EXCEPT ![i] = NoIdea]
    /\ gap' = (gap \/ \E r \in RefsOf(Kept) : r > idea[i].ref)
    /\ UNCHANGED proposed

\* addComment looks for the idea, then inserts; the foreign key refuses it when
\* the idea is gone
AskComment(s, u, i) ==
    /\ i \in Kept
    /\ Take(s, At("idea.comment", <<"comment", i>>, u, None))
    /\ UNCHANGED pipelineVars
InsertComment(s) ==
    LET h == desk[s]  i == h.on[2] IN
    /\ h.pc = "idea.comment"
    /\ idea' = IF i \in Kept THEN [idea EXCEPT ![i].comments = @ + 1] ELSE idea
    /\ Ends(s)
    /\ UNCHANGED <<proposed, gap>>

PipelineStep ==
    \/ \E s \in Slots :
         \/ /\ Ready(s)
            /\ \E u \in Staff :
                 \/ AskCreateIdea(s, u)
                 \/ \E i \in Ideas : AskUpdateIdea(s, u, i) \/ AskComment(s, u, i)
         \/ InsertIdea(s) \/ SaveIdea(s) \/ InsertComment(s)
    \/ calls > 0 /\ \E u \in Staff, i \in Ideas : DeleteIdea(u, i)

-----------------------------------------------------------------------------

\* The next ticket can always be filed, and the next idea as long as none was
\* removed that a newer one followed (or was about to: its filing had counted
\* it), and none came back: the references are 1 to the number of rows.  After
\* such a removal the next reference may be one in use, and every filing fails.
RefsStayUsable ==
    /\ {ticket[t].ref : t \in Opened} = 1..Cardinality(Opened)
    /\ Cardinality(RefsOf(Kept)) = Cardinality(Kept)
    /\ ~gap => RefsOf(Kept) = 1..Cardinality(Kept)
================================================================================
