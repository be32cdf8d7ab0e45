----------------------------- MODULE MCServices -----------------------------
(***************************************************************************)
(* The components of Services in one run, and some of them in a second     *)
(* set-up: what TLC explores is the union of their state spaces.           *)
(***************************************************************************)
EXTENDS Services, TLC

Gs == INSTANCE Agent
  WITH Runs <- {1, 2}, Calls <- {}, BadCalls <- {}, MaxToolCalls <- 1,
       MaxAttempts <- 1, RunCap <- 1, DailyCap <- 3, MaxCost <- 2,
       phase <- s1, attempt <- s2, side <- s3, session <- s4, calls <- s5, foul <- s6,
       ledger <- s7, real <- s8
Tg == INSTANCE Chat
  WITH Matrix <- FALSE, SkipHistory <- FALSE, Questions <- {1, 2}, Options <- {1},
       PendingLimit <- 1, Tries <- 1, MaxItems <- 2,
       timeline <- s1, core <- s2, events <- s3, mem <- s4, batch <- s5, stage <- s6,
       asks <- s7, copy <- s8, told <- s9, excused <- s10
Ks == INSTANCE Api
  WITH Reqs <- {1, 2}, MaxTries <- 1, Bodies <- {"good"},
       Asks <- {"cancel", "restart", "run", "pause"},
       server <- s1, ask <- s2, req <- s3, made <- s4, unsure <- s5, task <- s6, run <- s7,
       conn <- s8
Uf == INSTANCE Backup
  WITH Clients <- {"c", "d"}, Forced <- {"d"},
       daemon <- s1, handler <- s2, copy <- s3, line <- s4, at <- s5, partial <- s6,
       dest <- s7, lost <- s8, older <- s9, stuck <- s10

TheLlmAttempts == <<1, 1, 2>>
TheGrants == ("mail" :> {"send"}) @@ ("chat" :> {})
TheServes == ("mail" :> {"send", "drop"}) @@ ("chat" :> {"send"}) @@ ("ftp" :> {"send"})
TheStepKinds == <<"wait", "op", "batch", "op", "op">>
TheValid == {<<0, 0>>, <<1, 1>>, <<1, 2>>, <<2, 2>>}
TheBuiltin == (0 :> {"a", "b"}) @@ (1 :> {"b", "c"}) @@ (2 :> {"a"})
TheMailboxes == [pop : {FALSE}, all : BOOLEAN, deletes : {FALSE}]
             \union [pop : {TRUE}, all : BOOLEAN, deletes : BOOLEAN]
TheTree == <<"a", "b">>
TheServers == [ftp : BOOLEAN, atomic : BOOLEAN]
TheAddresses == {[host |-> "lo", port |-> 1], [host |-> "any", port |-> 1],
                [host |-> "lo", port |-> 2]}
TheRoom == ("out" :> 4) @@ ("err" :> 1)
TheSession == <<"single", "multi", "multi", "single">>

ASSUME SetUpsAreSound ==
  /\ ServicesAssumption
  /\ Gs!AgentAssumption /\ Tg!ChatAssumption /\ Ks!ApiAssumption /\ Uf!BackupAssumption

MCInit ==
  \/ Init
  \/ part = "agents" /\ Gs!Init /\ s9 = 0 /\ s10 = 0
  \/ part = "telegram" /\ Tg!Init
  \/ part = "apis" /\ Ks!Init /\ s9 = 0 /\ s10 = 0
  \/ part = "forced" /\ Uf!Init

AgentsStep == part = "agents" /\ Gs!Next /\ UNCHANGED <<part, s9, s10>>
TelegramStep == part = "telegram" /\ Tg!Next /\ UNCHANGED part
ApisStep == part = "apis" /\ Ks!Next /\ UNCHANGED <<part, s9, s10>>
ForcedStep == part = "forced" /\ Uf!Next /\ UNCHANGED part

MCNext == Next \/ AgentsStep \/ TelegramStep \/ ApisStep \/ ForcedStep

MCSpec == MCInit /\ [][MCNext]_vars

-----------------------------------------------------------------------------
\* In the second set-ups too nothing is done twice, forgotten or left running: the agent runner
\* with two runs that share the daily cap, the chat connector for Telegram, the API asked by
\* two clients at once, and a backup with --force beside one without.
SecondSetUps ==
  /\ part = "agents" => Gs!TypeOK /\ Gs!LedgerIsReported /\ Gs!SucceedsCleanly
                        /\ Gs!NoUnwatchedTurn
  /\ part = "telegram" => Tg!TypeOK /\ Tg!ConfirmedIsReply /\ Tg!CursorPassesHandled
                          /\ Tg!QuestionsKept
  /\ part = "apis" => Ks!TypeOK /\ Ks!AnswersAreTrue /\ Ks!RetryIsSafe
  /\ part = "forced" => Uf!TypeOK /\ Uf!DestIsWhole /\ Uf!NoCopyLeft
=============================================================================
