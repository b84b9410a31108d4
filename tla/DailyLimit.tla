------------------------------ MODULE DailyLimit -------------------------------
(***************************************************************************)
(* The daily limit of a channel (enforceChannelDailyLimit).  The program   *)
(* counts the sent rows of the day.  A post that went out and whose row was *)
(* not stored is not among them, so that what the channel really got is    *)
(* kept here, in a history beside the variables of Scheduler.              *)
(***************************************************************************)
EXTENDS Scheduler

VARIABLE sentOut  \* posts that went out to each channel, by day of the attempt

historyVars == <<vars, sentOut>>

Days == 0 .. DayOf(Horizon)

\* Worker w puts a post on channel c, in an attempt that began on day d (the
\* attempted_at of its row, which the program counts by).
GoesOut(w, c, d) ==
    LET s == workers[w]
    IN /\ s.pc = "publish"
       /\ s.channel = c
       /\ DayOf(s.at) = d
       /\ workers'[w] # s
       /\ published'[s.post.id][c] > published[s.post.id][c]

Count ==
    sentOut' = [c \in ChannelIds |-> [d \in Days |->
                   IF \E w \in Workers : GoesOut(w, c, d)
                   THEN sentOut[c][d] + 1 ELSE sentOut[c][d]]]

HistoryInit == sentOut = [c \in ChannelIds |-> [d \in Days |-> 0]]

CountedSpec ==
    /\ Init /\ HistoryInit
    /\ [][Next /\ Count]_historyVars

\* Of the attempts of one UTC day, no channel gets more posts than its policy
\* allows and one more for each fault: with one worker nothing but a crash or a
\* failing statement between the publish and its row hides a post from the
\* count, and each hides one.
DailyLimitRespected ==
    \A c \in ChannelIds, d \in Days :
        Policy[c].maxPostsPerDay # Null =>
            sentOut[c][d] <= Policy[c].maxPostsPerDay + faults
================================================================================
