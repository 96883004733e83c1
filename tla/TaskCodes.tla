------------------------------ MODULE TaskCodes ------------------------------
(***************************************************************************)
(* The codes of tasks, next_task_code of work/services.py: one counter per *)
(* institutional action and year, locked until the transaction that takes  *)
(* a number ends.  The code names the action by a slug, so that two        *)
(* actions, each with its counter and its lock, may number the same codes. *)
(* One year is followed; the copies a transfer makes have codes of another *)
(* form.                                                                   *)
(***************************************************************************)
EXTENDS Integers, FiniteSets, FiniteSetsExt

CONSTANTS
    Allocators,  \* the transactions that create tasks
    Actions,     \* institutional actions
    Slug,        \* by action, the slug of its code
    MaxNumber    \* bound on the numbers given

ASSUME CodesAssumption ==
    /\ DOMAIN Slug = Actions
    /\ MaxNumber \in Nat \ {0}

VARIABLES
    sequences,   \* by action, TaskCodeSequence.next_value, 0 without a row
    codes,       \* the codes of the Task rows
    allocating,  \* by transaction, the code it holds, NoCode outside
    emptying,    \* the codes a reset has deleted and not yet committed
    given        \* by code, how many times it was allocated since the reset

codeVars == <<sequences, codes, allocating, emptying, given>>

Numbers == 1..MaxNumber
Codes == [slug : {Slug[a] : a \in Actions}, number : Numbers]
Allocation == [action : Actions, number : Numbers]
NoCode == [action |-> "none", number |-> 0]

CodesTypeOK ==
    /\ sequences \in [Actions -> 0..(MaxNumber + 1)]
    /\ codes \subseteq Codes
    /\ allocating \in [Allocators -> Allocation \cup {NoCode}]
    /\ emptying \in SUBSET Codes
    /\ given \in [Codes -> 0..(Cardinality(Actions) * MaxNumber)]

CodesInit ==
    /\ sequences = [a \in Actions |-> 0]
    /\ codes = {}
    /\ allocating = [t \in Allocators |-> NoCode]
    /\ emptying = {}
    /\ given = [c \in Codes |-> 0]

Code(action, number) == [slug |-> Slug[action], number |-> number]

\* The counter's row, or its insertion, is locked by another transaction.
Locked(action) == \E t \in Allocators : allocating[t].action = action

\* A plausible slip: the number that was given stays the next one.
NextValueKept(number) == number

NextValue(number) == number + 1

\* From the counter on, the first number whose code no committed task has.
FirstFree(action) ==
    LET from == IF sequences[action] = 0 THEN 1 ELSE sequences[action]
        free == {n \in from..MaxNumber : Code(action, n) \notin codes}
    IN IF free = {} THEN 0 ELSE Min(free)

Allocate(t, action) ==
    /\ allocating[t] = NoCode
    /\ ~ Locked(action)
    /\ FirstFree(action) # 0
    /\ allocating' = [allocating EXCEPT
           ![t] = [action |-> action, number |-> FirstFree(action)]]
    /\ UNCHANGED <<sequences, codes, emptying, given>>

\* The task is inserted and the transaction commits, counter included; if the
\* other counter gave the code meanwhile, Task.code is unique and all is undone.
Insert(t) ==
    /\ allocating[t] # NoCode
    /\ LET a == allocating[t]
           c == Code(a.action, a.number)
       IN \/ /\ c \notin codes
             /\ codes' = codes \cup {c}
             /\ sequences' = [sequences EXCEPT ![a.action] = NextValue(a.number)]
             /\ given' = [given EXCEPT ![c] = @ + 1]
          \/ /\ c \in codes
             /\ UNCHANGED <<sequences, codes, given>>
    /\ allocating' = [allocating EXCEPT ![t] = NoCode]
    /\ UNCHANGED emptying

\* The creation fails after the code was taken: the calendar, the schedule.
Undo(t) ==
    /\ allocating[t] # NoCode
    /\ allocating' = [allocating EXCEPT ![t] = NoCode]
    /\ UNCHANGED <<sequences, codes, emptying, given>>

\* TaskAdmin: a code typed by hand.
TypeCode(c) ==
    /\ c \notin codes
    /\ codes' = codes \cup {c}
    /\ UNCHANGED <<sequences, allocating, emptying, given>>

\* delete_task_assignments: the task goes with its last assignment.
DeleteCode(c) ==
    /\ c \in codes
    /\ codes' = codes \ {c}
    /\ emptying' = emptying \ {c}
    /\ UNCHANGED <<sequences, allocating, given>>

\* reset_reporting_data deletes the tasks it sees, then the counters, which
\* wait for the transactions that hold them.
BeginEmptying ==
    /\ emptying = {}
    /\ emptying' = codes
    /\ UNCHANGED <<sequences, codes, allocating, given>>

CommitEmptying ==
    /\ emptying # {}
    /\ \A a \in Actions : ~ Locked(a)
    /\ codes' = codes \ emptying
    /\ sequences' = [a \in Actions |-> 0]
    /\ emptying' = {}
    /\ given' = [c \in Codes |-> 0]
    /\ UNCHANGED allocating

CodesNext ==
    \/ \E t \in Allocators :
          \/ \E a \in Actions : Allocate(t, a)
          \/ Insert(t) \/ Undo(t)
    \/ \E c \in Codes : TypeCode(c) \/ DeleteCode(c)
    \/ BeginEmptying \/ CommitEmptying

CodesSpec == CodesInit /\ [][CodesNext]_codeVars

-----------------------------------------------------------------------------

SharedSlug(c) == \E a, b \in Actions : a # b /\ Slug[a] = c.slug /\ Slug[b] = c.slug

\* A code that was given to a task is not given again, be the task deleted, a
\* number taken by hand or a creation undone: only a reset starts over, and
\* only actions of the same slug may give the number of a deleted task twice.
NoCodeTwice == \A c \in Codes : given[c] > 1 => SharedSlug(c)
=============================================================================
