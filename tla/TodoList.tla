------------------------------ MODULE TodoList ------------------------------
(***************************************************************************)
(* The list of things to do that the model keeps through a conversation.   *)
(* It is stored nowhere by itself: it is read off the stored results of    *)
(* TodoWrite and CreatePlan, of the turns that were not cancelled.         *)
(***************************************************************************)
EXTENDS Integers, Sequences

\* An item as the provider writes it; "" for what it leaves out.
Items(ids) == [id : ids, content : BOOLEAN, status : {"", "pending", "completed"}]

IdsOf(items)    == {items[i].id : i \in DOMAIN items}
isTerminalTodoStatus(status) == status \in {"completed", "cancelled"}
ActiveIds(items) == {items[i].id : i \in {j \in DOMAIN items : ~isTerminalTodoStatus(items[j].status)}} \ {0}

withStatus(item) == [item EXCEPT !.status = IF @ = "" THEN "pending" ELSE @]

normalizeTodoItems(items) == [i \in DOMAIN items |-> withStatus(items[i])]

\* What the provider must give: an id (0 stands for none) and a content.
ValidItems(items) == \A i \in DOMAIN items : items[i].id # 0 /\ items[i].content

\* Slip: nothing is missing from a list that replaces another.
nothingMissing(existing, replacement) == {}

missingActiveTodoReplacementIDs(existing, replacement) == ActiveIds(existing) \ IdsOf(replacement)

\* The last item with the id is the one an update is for.
IndexOf(items, id) == CHOOSE i \in DOMAIN items : items[i].id = id /\ \A j \in DOMAIN items : items[j].id = id => j <= i

\* One update: an item with the id is changed, one without is added at the
\* end.  It fails without an id and where no content would be left.
mergeItem(merge, update) ==
    LET items == merge.items
        known == update.id \in IdsOf(items)
        next  == IF known
                 THEN [items[IndexOf(items, update.id)] EXCEPT
                           !.content = @ \/ update.content,
                           !.status  = IF update.status = "" THEN @ ELSE update.status]
                 ELSE withStatus(update)
    IN [ok    |-> merge.ok /\ update.id # 0 /\ next.content,
        items |-> IF known THEN [items EXCEPT ![IndexOf(items, update.id)] = next]
                  ELSE Append(items, next)]

mergeTodoItems(existing, updates) ==
    LET merged[n \in 0..Len(updates)] ==
            IF n = 0 THEN [ok |-> TRUE, items |-> normalizeTodoItems(existing)]
            ELSE mergeItem(merged[n - 1], updates[n])
    IN merged[Len(updates)]

\* Whether a list the provider writes is merged into the one there is: when it
\* says so, and unless it says not, when something would be lost otherwise.
shouldMergeTodoUpdate(merge, existing, items) ==
    \/ merge = "yes"
    \/ /\ merge = "" /\ existing # <<>>
       /\ \/ missingActiveTodoReplacementIDs(existing, items) # {}
          \/ \E i \in DOMAIN items : ~items[i].content

\* The outcome of a TodoWrite.
Failure == [case |-> "error", todos |-> <<>>, merged |-> FALSE]

handleTodoWrite(merge, existing, items) ==
    IF shouldMergeTodoUpdate(merge, existing, items)
    THEN LET next == mergeTodoItems(existing, items)
         IN IF next.ok THEN [case |-> "success", todos |-> next.items, merged |-> TRUE] ELSE Failure
    ELSE IF ~ValidItems(items) \/ missingActiveTodoReplacementIDs(existing, normalizeTodoItems(items)) # {}
         THEN Failure
         ELSE [case |-> "success", todos |-> normalizeTodoItems(items), merged |-> FALSE]

\* The list after one more stored result.  A list that replaces another when
\* it was written may lose items when it is read, after a turn was cancelled.
projectStep(todos, result) ==
    CASE result.tool = "CreatePlan" -> normalizeTodoItems(result.todos)
      [] result.tool # "CreatePlan" /\ ~result.merged /\ missingActiveTodoReplacementIDs(todos, result.todos) # {} ->
            mergeTodoItems(todos, result.todos).items
      [] OTHER -> result.todos

\* The results that hold a list, of a turn that counts.
HoldsTodos(result, cancelled) ==
    /\ result.turn \notin cancelled
    /\ result.tool \in {"TodoWrite", "CreatePlan"} /\ result.heard.case = "success"

projectConversationStructuredState(results, cancelled) ==
    LET after[n \in 0..Len(results)] ==
            IF n = 0 THEN <<>>
            ELSE IF HoldsTodos(results[n], cancelled) THEN projectStep(after[n - 1], results[n])
            ELSE after[n - 1]
    IN after[Len(results)]
=============================================================================
