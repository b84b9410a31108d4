------------------------------ MODULE MCDailyLimit -----------------------------
(***************************************************************************)
(* A small instance of DailyLimit: two posts and one limited channel.      *)
(***************************************************************************)
EXTENDS MCScheduler, DailyLimit

\* Post 1 goes to both channels, post 2 to the limited one or to the fallback.
SharedInit ==
    /\ Init /\ HistoryInit
    /\ postChannels[1] = {1, 2}
    /\ postChannels[2] \in {{1}, {}}
    /\ \A c \in ChannelIds : channels[c] = "active"

SharedSpec == SharedInit /\ [][Next /\ Count]_historyVars /\ Fairness
================================================================================
