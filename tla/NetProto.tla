------------------------------ MODULE NetProto ------------------------------
(***************************************************************************)
(* The protocol plugin (src/plugins/proto/net.c): a connection from its    *)
(* accept() in net_listen() to the end of its thread, client_thread().     *)
(*                                                                         *)
(* The threads of several connections share nothing but what they ask the  *)
(* storage for, in one SELECT for each fetch, so one thread is modelled    *)
(* and the storage may hold anything when it is asked.  What the thread    *)
(* does is: read a line, look for the command, and for a fetch go through  *)
(* the list of rows, sum groups of them and free the list on the way.      *)
(*                                                                         *)
(* A row is its time; its value is Value[time].  A SELECT without ORDER BY *)
(* returns the rows in any order.  The arithmetic of an int is modulo      *)
(* 2 * MaxInt (here small).                                                *)
(***************************************************************************)
EXTENDS Integers, Sequences, SequencesExt, FiniteSets

CONSTANTS
  Times,        \* the times rows may have, in seconds
  Value,        \* Value[t]: the value of the row of time t
  Resolutions,  \* the resolutions that are asked for, in minutes
  MaxInt,       \* ints are -MaxInt .. MaxInt - 1
  MaxRequests   \* bound on the lines a client sends

ASSUME ProtoAssumption ==
  /\ IsFiniteSet(Times) /\ Times \subseteq 1 .. MaxInt - 1
  /\ Value \in [Times -> Int] /\ Resolutions \subseteq -MaxInt .. MaxInt - 1
  /\ MaxInt \in Nat \ {0} /\ MaxRequests \in Nat

VARIABLES
  pc,       \* where the thread is
  sock,     \* the other end of the socket
  requests, \* how many lines the client may still send
  rows,     \* the rows of the result, in the order of the list
  res,      \* the resolution asked for
  mem,      \* the nodes of the list
  unfreed,  \* the rows whose data is not freed
  i, t,     \* the node of the loop and the one before
  skip, skipt, skipCnt, tally, midtime,  \* locals of client_thread
  sent,     \* history: the 103 lines of this fetch
  carried,  \* history: tally when this fetch began
  owed      \* history: the sum of the values read and not sent

request == <<rows, res>>
memory  == <<mem, unfreed, i, t>>
group   == <<skip, skipt>>
sums    == <<skipCnt, tally, midtime>>
history == <<sent, carried, owed>>
vars == <<pc, sock, requests, rows, res, mem, unfreed, i, t, skip, skipt, skipCnt,
          tally, midtime, sent, carried, owed>>

PC == {"accept", "read", "row", "done", "close", "closed", "unserved"}

(* The client is there; it has closed the connection or broken it off; the  *)
(* error of the latter has been reported; accept() had failed.              *)
Socks == {"open", "eof", "reset", "bad"}

(* The list is node 0, the rows are the nodes from 1 on. *)
Nodes == 0 .. Cardinality(Times)
NULL  == -1
List  == INSTANCE NvList WITH Node <- Nodes, Nil <- NULL

Wrap(x) == ((x + MaxInt) % (2 * MaxInt)) - MaxInt

(* Division rounds towards 0. *)
Quotient(a, b) ==
  LET q == (IF a < 0 THEN -a ELSE a) \div (IF b < 0 THEN -b ELSE b)
  IN  IF (a < 0) = (b < 0) THEN q ELSE -q

Init ==
  /\ pc = "accept" /\ sock = "open" /\ requests = MaxRequests
  /\ rows = <<>> /\ res = 0
  /\ mem = List!NoMemory /\ unfreed = {} /\ i = NULL /\ t = NULL
  /\ skip = 0 /\ skipt = 0 /\ skipCnt = 0 /\ tally = 0 /\ midtime = 0
  /\ sent = <<>> /\ carried = 0 /\ owed = 0
-----------------------------------------------------------------------------
(* accept() and pthread_create().  The result of the first is not tested;   *)
(* when the second fails the socket is left open and nobody serves it.      *)
Accept ==
  /\ pc = "accept"
  /\ pc' \in {"read", "unserved"}
  /\ sock' \in {sock, "bad"}
  /\ UNCHANGED <<requests, request, memory, group, sums, history>>

(* A line arrives, also after the client is gone: it may have been sent, or *)
(* even been read into the buffer of readline(), before.                    *)
Line ==
  /\ pc = "read" /\ sock # "bad" /\ requests > 0
  /\ requests' = requests - 1
  /\ UNCHANGED sock

(* Nothing to parse, a bad request or enum: at most a reply, no state. *)
Other ==
  /\ Line
  /\ UNCHANGED <<pc, request, memory, group, sums, history>>

Quit ==
  /\ Line
  /\ pc' = "close"
  /\ UNCHANGED <<request, memory, group, sums, history>>

SetGroupNoTest ==
  IF Len(rows') < 2 THEN UNCHANGED group
  ELSE LET diff == rows'[2] - rows'[1]
       IN  /\ skip' = Quotient(Wrap(res' * 60), diff)
           /\ skipt' = IF skip' \in {1, 2} THEN 1 ELSE Quotient(skip', 2) + 1
SetGroupHalf ==
  IF Len(rows') < 2 THEN UNCHANGED group
  ELSE LET diff == rows'[2] - rows'[1]
       IN  /\ skip' = IF Wrap(res' * 60) <= diff THEN 1
                      ELSE Quotient(Wrap(res' * 60), diff)
           /\ skipt' = Quotient(skip', 2)

(* skip and skipt are set when there are two rows at least; otherwise they  *)
(* keep what an earlier fetch has left.                                     *)
SetGroup ==
  IF Len(rows') < 2 THEN UNCHANGED group
  ELSE LET diff == rows'[2] - rows'[1]
       IN  /\ skip' = IF Wrap(res' * 60) <= diff THEN 1
                      ELSE Quotient(Wrap(res' * 60), diff)
           /\ skipt' = IF skip' \in {1, 2} THEN 1 ELSE Quotient(skip', 2) + 1

(* The list the storage returns, after its first k rows. *)
Built[k \in Nodes] ==
  IF k = 0 THEN List!New(mem, 0, FALSE)
  ELSE List!AppendNode(List!New(Built[k - 1], k, TRUE), 0, k)

(* A fetch with all its words, for a data set there is: its rows between    *)
(* start and end, or none if the storage cannot answer.                     *)
Fetch ==
  /\ Line
  /\ res' \in Resolutions
  /\ \E S \in SUBSET Times : rows' \in SetToSeqs(S)
  /\ SetGroup
  /\ mem' = Built[Len(rows')]
  /\ unfreed' = 1 .. Len(rows')
  /\ i' = mem'.next[0]
  /\ skipCnt' = 1
  /\ carried' = tally
  /\ pc' = "row"
  /\ UNCHANGED <<t, tally, midtime, sent, owed>>

AtEnd == pc = "row" /\ i \in {NULL, 0}

(* One round: the row joins the group, the group is sent if it is complete, *)
(* the row is freed and the node before it is deleted.                      *)
SumKeepsTally(sum) ==
  IF skipCnt = skip
  THEN /\ sent' = Append(sent, [time |-> midtime', sum |-> sum])
       /\ owed' = owed + Value[rows[i]] - sum
       /\ skipCnt' = 1 /\ tally' = sum
  ELSE /\ skipCnt' = skipCnt + 1 /\ tally' = sum
       /\ owed' = owed + Value[rows[i]]
       /\ UNCHANGED sent
SumCountsDown(sum) ==
  IF skipCnt = skip
  THEN /\ sent' = Append(sent, [time |-> midtime', sum |-> sum])
       /\ owed' = owed + Value[rows[i]] - sum
       /\ skipCnt' = 1 /\ tally' = 0
  ELSE /\ skipCnt' = skipCnt - 1 /\ tally' = sum
       /\ owed' = owed + Value[rows[i]]
       /\ UNCHANGED sent
Sum(sum) ==
  IF skipCnt = skip
  THEN /\ sent' = Append(sent, [time |-> midtime', sum |-> sum])
       /\ owed' = owed + Value[rows[i]] - sum
       /\ skipCnt' = 1 /\ tally' = 0
  ELSE /\ skipCnt' = skipCnt + 1 /\ tally' = sum
       /\ owed' = owed + Value[rows[i]]
       /\ UNCHANGED sent

CleanNodeItself ==
  /\ unfreed' = unfreed \ {i}
  /\ mem' = List!Del(mem, i)
  /\ t' = i
  /\ i' = mem'.next[i]
CleanNode ==
  /\ unfreed' = unfreed \ {i}
  /\ mem' = IF t = NULL THEN mem ELSE List!Del(mem, mem.prev[i])
  /\ t' = i
  /\ i' = mem'.next[i]

Row ==
  /\ pc = "row" /\ ~AtEnd
  /\ midtime' = IF skipCnt = skipt THEN rows[i] ELSE midtime
  /\ Sum(tally + Value[rows[i]])
  /\ CleanNode
  /\ UNCHANGED <<pc, sock, requests, request, group, carried>>

(* The last node and the list are freed; the locals of the request are gone. *)
EndOfFetch ==
  /\ AtEnd
  /\ pc' = "read"
  /\ mem' = List!Free(IF t = NULL THEN mem ELSE List!Del(mem, t), 0)
  /\ i' = NULL /\ t' = NULL
  /\ rows' = <<>> /\ res' = 0 /\ sent' = <<>> /\ carried' = 0
  /\ UNCHANGED <<sock, requests, unfreed, group, sums, owed>>

(* readline() returns 0, "check for disconnect". *)
EndOfInputIgnored ==
  /\ pc = "read" /\ sock = "eof"
  /\ UNCHANGED vars
EndOfInput ==
  /\ pc = "read" /\ sock = "eof"
  /\ pc' = "close"
  /\ UNCHANGED <<sock, requests, request, memory, group, sums, history>>

(* readline() returns -1, once for a connection that is broken off and each *)
(* time for a descriptor that is none.  client_thread() parses its buffer   *)
(* all the same.  readline() may have put a part of a line there before the *)
(* error, so that may be a fetch or a quit, which Fetch and Quit allow for  *)
(* when the client breaks off; here it is nothing that has an effect.       *)
ReadError ==
  /\ pc = "read" /\ sock \in {"reset", "bad"}
  /\ sock' = IF sock = "reset" THEN "eof" ELSE "bad"
  /\ pc' \in {"read"} \cup {"close" : x \in {MaxRequests} \cap {requests}}
  /\ UNCHANGED <<requests, request, memory, group, sums, history>>

Close ==
  /\ pc = "close"
  /\ pc' = "closed"
  /\ UNCHANGED <<sock, requests, request, memory, group, sums, history>>

(* The client closes the connection or breaks it off.  What is written to   *)
(* it from now on is lost: SIGPIPE is blocked and the result of writen()    *)
(* is not looked at.                                                        *)
HangUp ==
  /\ pc # "accept" /\ sock = "open"
  /\ sock' \in {"eof", "reset"}
  /\ UNCHANGED <<pc, requests, request, memory, group, sums, history>>

Step == Row \/ EndOfFetch \/ EndOfInput \/ ReadError \/ Close

Next == Accept \/ Fetch \/ Other \/ Quit \/ Step \/ HangUp

Spec == Init /\ [][Next]_vars

(* The thread is scheduled.  While the client is there a read or a write    *)
(* may block for ever.                                                      *)
FairSpec == Spec /\ WF_vars(sock # "open" /\ Step)
-----------------------------------------------------------------------------
(* Properties                                                              *)

TypeOK ==
  /\ pc \in PC /\ sock \in Socks /\ requests \in 0 .. MaxRequests
  /\ rows \in Seq(Times) /\ res \in Resolutions \cup {0}
  /\ mem \in List!Memories /\ unfreed \subseteq Nodes
  /\ {i, t} \subseteq Nodes \cup {NULL}
  /\ {skip, skipt} \subseteq -MaxInt .. MaxInt - 1 /\ skipCnt \in Nat
  /\ {tally, owed, carried} \subseteq Int /\ midtime \in Times \cup {0}
  /\ sent \in Seq([time : Times, sum : Int])

(* The loop of a fetch frees the nodes behind it (list_del of i->prev) and  *)
(* stays in the list: what is left is a proper list of the node before, the *)
(* node of the loop and the rest, nothing else is allocated, and each row   *)
(* is freed when its turn is over.  After the fetch all is freed.           *)
FreesBehindItself ==
  IF pc # "row" THEN mem.live = {} /\ unfreed = {}
  ELSE LET first == IF t = NULL THEN 1 ELSE t
           left  == [k \in 1 .. Len(rows) - first + 1 |-> first + k - 1]
           rest  == IF t = NULL THEN left ELSE Tail(left)
       IN  /\ List!IsList(mem, 0, left)
           /\ mem.live = {0} \cup first .. Len(rows)
           /\ unfreed = ToSet(rest)
           /\ i = IF rest # <<>> THEN Head(rest) ELSE IF t = NULL THEN NULL ELSE 0

(* Over all fetches of a connection no value is sent twice and none is      *)
(* dropped: what was read and not sent is in tally.                         *)
TallyIsOwed == tally = owed

(* The sum of the first k values of the result. *)
Total[k \in Nodes] == IF k = 0 THEN 0 ELSE Total[k - 1] + Value[rows[k]]

(* The reply to a fetch is the row of its complete groups of skip rows: for *)
(* each the sum of its values and the time of the row in its middle.  The   *)
(* first sum has in addition what the fetch before has left in tally.       *)
ReplyIsGroups ==
  AtEnd =>
    IF skip < 1 THEN sent = <<>>
    ELSE /\ Len(sent) = Len(rows) \div skip
         /\ \A k \in 1 .. Len(sent) :
              /\ sent[k].sum = Total[k * skip] - Total[(k - 1) * skip]
                                + (IF k = 1 THEN carried ELSE 0)
              /\ \E p \in 1 .. skip :
                   /\ sent[k].time = rows[(k - 1) * skip + p]
                   /\ 2 * p - skip \in 0 .. 2

(* "when inexact, you will get the next highest resolution possible, given  *)
(* the colleted data" (client_thread): the groups are the largest whose     *)
(* span is not more than what was asked for, or single rows.  As long as    *)
(* the first two rows are in order and res * 60 is an int.                  *)
NextHighestResolution ==
  AtEnd /\ Len(rows) > 1 /\ rows[1] < rows[2] /\ res * 60 \in -MaxInt .. MaxInt - 1 =>
    LET diff == rows[2] - rows[1]
    IN  /\ skip = 1 \/ (skip > 1 /\ skip * diff <= res * 60)
        /\ (skip + 1) * diff > res * 60

(* When the client is gone the thread comes to its end and closes the       *)
(* socket, also in the middle of a reply.                                   *)
HangUpEndsThread ==
  pc \notin {"accept", "unserved"} /\ sock \in {"eof", "reset"} ~> pc = "closed"
=============================================================================
