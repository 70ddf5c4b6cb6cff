------------------------------- MODULE Client04 ------------------------------
(***************************************************************************)
(* ClientTest/Client04.cpp: the main thread creates managers, each with    *)
(* its part of the clients and a detached thread that works for them; at   *)
(* the user's word it deletes the managers, one after the other, and every *)
(* destructor tells its thread to stop and spins until it has.             *)
(*                                                                         *)
(* A client is open or closed; what else it does is the subject of module  *)
(* SelectClient_Thread.  The flags are plain bools, read again by every    *)
(* test as the makefile, which sets no optimisation, has them.             *)
(***************************************************************************)
EXTENDS Integers

CONSTANTS
    ClientNum,      \* _CLIENTNUM
    ThreadNum       \* _THREADNUM

ASSUME NumAssumption == ClientNum \in Nat \ {0} /\ ThreadNum \in Nat \ {0}

Mgrs == 1 .. ThreadNum
eachClientNum == ClientNum \div ThreadNum
Indices == 1 .. eachClientNum

VARIABLES
    runing,         \* Client04's _runing, which the input thread clears
    mpc, mgr,       \* where the main thread is, and its loop counter
    mgrRuning,      \* _runing of each manager
    threadStop,     \* _threadStop
    clientArr,      \* _clientArr: its clients
    tpc,            \* where each manager's thread is
    nth, failedNum  \* its loop counter i and its count

mgrVars == <<runing, mpc, mgr, mgrRuning, threadStop, clientArr, tpc, nth, failedNum>>
thread == <<threadStop, clientArr, tpc, nth, failedNum>>

MgrInit ==
    /\ runing = TRUE /\ mpc = "init" /\ mgr = 1
    /\ mgrRuning = [m \in Mgrs |-> TRUE] /\ threadStop = [m \in Mgrs |-> FALSE]
    /\ clientArr = [m \in Mgrs |-> [k \in Indices |-> "null"]]
    /\ tpc = [m \in Mgrs |-> "none"]
    /\ nth = [m \in Mgrs |-> 1] /\ failedNum = [m \in Mgrs |-> 0]

inputThread ==
    /\ runing /\ runing' = FALSE
    /\ UNCHANGED <<mpc, mgr, mgrRuning, thread>>

------------------------------------------------------------------------------
(* The main thread.                                                        *)

NextMgr(now, then) ==
    IF mgr < ThreadNum THEN mpc' = now /\ mgr' = mgr + 1 ELSE mpc' = then /\ mgr' = 1

\* Every client of the manager is created; a connect that fails leaves it closed.
InitMgr ==
    /\ mpc = "init"
    /\ \E clients \in [Indices -> {"open", "closed"}] :
          clientArr' = [clientArr EXCEPT ![mgr] = clients]
    /\ NextMgr("init", "start")
    /\ UNCHANGED <<runing, mgrRuning, threadStop, tpc, nth, failedNum>>

StartMgr ==
    /\ mpc = "start"
    /\ tpc' = [tpc EXCEPT ![mgr] = "while"]
    /\ NextMgr("start", "run")
    /\ UNCHANGED <<runing, mgrRuning, threadStop, clientArr, nth, failedNum>>

Stopped ==
    /\ mpc = "run" /\ ~runing /\ mpc' = "delete"
    /\ UNCHANGED <<runing, mgr, mgrRuning, thread>>

DestructorStops ==
    /\ mpc = "delete" /\ mpc' = "spin"
    /\ mgrRuning' = [mgrRuning EXCEPT ![mgr] = FALSE]
    /\ UNCHANGED <<runing, mgr, thread>>

\* Mistake: the destructor does not wait for its thread.
DestructorFreesAtOnce ==
    /\ mpc = "spin"
    /\ clientArr' = [clientArr EXCEPT ![mgr] = [k \in Indices |-> "freed"]]
    /\ NextMgr("delete", "end")
    /\ UNCHANGED <<runing, mgrRuning, threadStop, tpc, nth, failedNum>>

DestructorFrees ==
    /\ mpc = "spin" /\ threadStop[mgr]
    /\ clientArr' = [clientArr EXCEPT ![mgr] = [k \in Indices |-> "freed"]]
    /\ NextMgr("delete", "end")
    /\ UNCHANGED <<runing, mgrRuning, threadStop, tpc, nth, failedNum>>

MainThread == InitMgr \/ StartMgr \/ Stopped \/ DestructorStops \/ DestructorFrees

------------------------------------------------------------------------------
(* The thread of manager m.                                                *)

While(m) ==
    /\ tpc[m] = "while"
    /\ tpc' = [tpc EXCEPT ![m] = IF mgrRuning[m] THEN "for" ELSE "stop"]
    /\ nth' = [nth EXCEPT ![m] = 1] /\ failedNum' = [failedNum EXCEPT ![m] = 0]
    /\ UNCHANGED <<runing, mpc, mgr, mgrRuning, threadStop, clientArr>>

AtClient(m) == tpc[m] = "for" /\ nth[m] <= eachClientNum

\* The client is gone, or it is closed and is deleted now.
Failed(m) ==
    /\ AtClient(m) /\ clientArr[m][nth[m]] # "open"
    /\ clientArr' = [clientArr EXCEPT ![m][nth[m]] = "null"]
    /\ failedNum' = [failedNum EXCEPT ![m] = @ + 1]
    /\ nth' = [nth EXCEPT ![m] = @ + 1]
    /\ UNCHANGED <<runing, mpc, mgr, mgrRuning, threadStop, tpc>>

\* SendData, SendThread, RecvThread and OnRun; the client may close on the way.
Works(m) ==
    /\ tpc[m] = "send" \/ (AtClient(m) /\ clientArr[m][nth[m]] = "open")
    /\ tpc' = [tpc EXCEPT ![m] = "for"] /\ nth' = [nth EXCEPT ![m] = @ + 1]
    /\ \/ clientArr' = [clientArr EXCEPT ![m][nth[m]] = "closed"]
       \/ UNCHANGED clientArr
    /\ UNCHANGED <<runing, mpc, mgr, mgrRuning, threadStop, failedNum>>

\* The send in SendThread waits for the server to receive.
Blocks(m) ==
    /\ AtClient(m) /\ clientArr[m][nth[m]] = "open"
    /\ tpc' = [tpc EXCEPT ![m] = "send"]
    /\ UNCHANGED <<runing, mpc, mgr, mgrRuning, threadStop, clientArr, nth, failedNum>>

\* Mistake: it gives up when any client has failed.
GivesUpEarly(m) ==
    /\ tpc[m] = "for" /\ nth[m] > eachClientNum
    /\ tpc' = [tpc EXCEPT ![m] = IF failedNum[m] > 0 THEN "stop" ELSE "while"]
    /\ UNCHANGED <<runing, mpc, mgr, mgrRuning, threadStop, clientArr, nth, failedNum>>

PassEnds(m) ==
    /\ tpc[m] = "for" /\ nth[m] > eachClientNum
    /\ tpc' = [tpc EXCEPT ![m] = IF failedNum[m] = eachClientNum THEN "stop" ELSE "while"]
    /\ UNCHANGED <<runing, mpc, mgr, mgrRuning, threadStop, clientArr, nth, failedNum>>

\* Mistake: a thread whose clients are all gone ends without telling.
SetStopWhenAsked(m) ==
    /\ tpc[m] = "stop" /\ tpc' = [tpc EXCEPT ![m] = "end"]
    /\ threadStop' = [threadStop EXCEPT ![m] = ~mgrRuning[m]]
    /\ UNCHANGED <<runing, mpc, mgr, mgrRuning, clientArr, nth, failedNum>>

SetStop(m) ==
    /\ tpc[m] = "stop" /\ tpc' = [tpc EXCEPT ![m] = "end"]
    /\ threadStop' = [threadStop EXCEPT ![m] = TRUE]
    /\ UNCHANGED <<runing, mpc, mgr, mgrRuning, clientArr, nth, failedNum>>

HandleThread(m) ==
    While(m) \/ Failed(m) \/ (Works(m) /\ tpc[m] = "for") \/ Blocks(m) \/ PassEnds(m) \/ SetStop(m)

\* The server has received what a blocked send waited for, or it has closed.
ServerReceives(m) == tpc[m] = "send" /\ Works(m)

MgrNext ==
    \/ inputThread \/ MainThread
    \/ \E m \in Mgrs : HandleThread(m) \/ ServerReceives(m)

\* The threads are scheduled as long as they can go on; the server need not
\* receive, nor the user stop the clients.
MgrSpec ==
    /\ MgrInit /\ [][MgrNext]_mgrVars
    /\ WF_mgrVars(MainThread) /\ \A m \in Mgrs : WF_mgrVars(HandleThread(m))

------------------------------------------------------------------------------
(* Properties.                                                             *)

MgrTypeOK ==
    /\ runing \in BOOLEAN /\ mpc \in {"init", "start", "run", "delete", "spin", "end"}
    /\ mgr \in Mgrs
    /\ mgrRuning \in [Mgrs -> BOOLEAN] /\ threadStop \in [Mgrs -> BOOLEAN]
    /\ clientArr \in [Mgrs -> [Indices -> {"null", "open", "closed", "freed"}]]
    /\ tpc \in [Mgrs -> {"none", "while", "for", "send", "stop", "end"}]
    /\ nth \in [Mgrs -> 1 .. eachClientNum + 1] /\ failedNum \in [Mgrs -> 0 .. eachClientNum]

\* A manager's clients are freed by its destructor only when its thread has
\* ended, so that the thread never touches a freed client or the pool, which has
\* no lock; and a thread that nobody stopped ends only when no client is left.
ThreadsOwnClients ==
    \A m \in Mgrs :
       /\ (\E k \in Indices : clientArr[m][k] = "freed") => tpc[m] = "end"
       /\ mgrRuning[m] /\ tpc[m] \in {"stop", "end"} => \A k \in Indices : clientArr[m][k] = "null"

\* Stopped, the program ends, unless a destructor spins for ever because its
\* thread waits in send.
StopEnds ==
    \/ ~runing ~> mpc = "end"
    \/ <>[](mpc = "spin" /\ tpc[mgr] = "send")
==============================================================================
