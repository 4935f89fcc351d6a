--------------------------- MODULE ThinkFanHelper ---------------------------
(***************************************************************************)
(* The fans of a ThinkPad as YogaSMCNC drives them: a helper per fan       *)
(* (ThinkFanHelper.swift), on the application's main thread, over the EC   *)
(* calls of its user client.  The controller has one level and one         *)
(* tachometer register for both fans and a bit that selects the fan.       *)
(***************************************************************************)
EXTENDS UserClient, Sequences, Integers

VARIABLES
  fan,      \* the fan the controller has selected
  dual,     \* the applications with a helper for the second fan
  trusted,  \* per application, the fans whose helper has not failed yet
  todo,     \* per application, what its main thread has queued for the helpers
  step,     \* per application, where the first of these is
  found     \* history variable: the fan selected when it opened the service

fanVars == <<fan, dual, trusted, todo, step, found>>
helperVars == <<clientVars, fanVars>>

Fans == {"alt", "main"}

HelpersOf(c) == IF c \in dual THEN Fans ELSE {"main"}

(* What the main thread asks of the helpers in one go, the second fan      *)
(* first: levels restored and refreshed at launch, levels set after a wake *)
(* or speeds read for the open menu; a slider or button sets one level.    *)
Batches == {<<"alt", "alt", "main", "main">>, <<"alt", "main">>, <<"alt">>, <<"main">>}

QueueFor(c, batch) ==
  LET kept(f) == f \in HelpersOf(c) IN SelectSeq(batch, kept)

Ready(c) == Running /\ app[c] = "running"

Ask(c) ==
  /\ Ready(c) /\ todo[c] = <<>>
  /\ \E batch \in Batches : todo' = [todo EXCEPT ![c] = QueueFor(c, batch)]
  /\ todo'[c] # <<>>
  /\ step' = [step EXCEPT ![c] = "begin"]
  /\ UNCHANGED <<clientVars, fan, dual, trusted, found>>

Current(c) == Head(todo[c])

AtStep(c, s) == Ready(c) /\ todo[c] # <<>> /\ step[c] = s
Advance(c, s) == step' = [step EXCEPT ![c] = s] /\ UNCHANGED todo
Done(c) == todo' = [todo EXCEPT ![c] = Tail(@)] /\ step' = [step EXCEPT ![c] = "begin"]

(* readEC, writeEC and readECName answer the application that has the      *)
(* service open.                                                           *)
Answers(c) == owner = c

(* A call that fails disables the helper for good. *)
Fails(c) ==
  /\ trusted' = [trusted EXCEPT ![c] = @ \ {Current(c)}]
  /\ Done(c)
  /\ UNCHANGED <<clientVars, fan, dual, found>>

Disabled(c) ==
  /\ AtStep(c, "begin")
  /\ Current(c) \notin trusted[c]
  /\ Done(c)
  /\ UNCHANGED <<clientVars, fan, dual, trusted, found>>

(* switchFan reads the selection; a helper alone takes it as it is. *)
ReadSelection(c) ==
  /\ AtStep(c, "begin")
  /\ Current(c) \in trusted[c]
  /\ \/ /\ c \notin dual \/ (Answers(c) /\ fan = Current(c))
        /\ Advance(c, "access")
        /\ UNCHANGED <<clientVars, fan, dual, trusted, found>>
     \/ /\ c \in dual /\ Answers(c) /\ fan # Current(c)
        /\ Advance(c, "select")
        /\ UNCHANGED <<clientVars, fan, dual, trusted, found>>
     \/ c \in dual /\ Fails(c)

WriteSelection(c) ==
  /\ AtStep(c, "select")
  /\ \/ /\ Answers(c)
        /\ fan' = Current(c)
        /\ Advance(c, "access")
        /\ UNCHANGED <<clientVars, dual, trusted, found>>
     \/ Fails(c)

(* setFanLevel writes the level register; update reads the tachometer. *)
Access(c) ==
  /\ AtStep(c, "access")
  /\ \/ Answers(c) /\ Done(c) /\ UNCHANGED <<clientVars, fan, dual, trusted, found>>
     \/ Fails(c)

(* A quit or a crash leaves the selection as it is. *)
Leave(c) ==
  /\ CloseOrDie(c)
  /\ todo' = [todo EXCEPT ![c] = <<>>]
  /\ step' = [step EXCEPT ![c] = "begin"]
  /\ UNCHANGED <<fan, dual, trusted, found>>

(* What applications and threads do beside the helpers' calls. *)
Found(c) == IF app[c] = "started" /\ app'[c] = "open" THEN fan ELSE found[c]

Others ==
  /\ Connects \/ Posts \/ ProviderTerminates \/ Panic
  /\ found' = [c \in Clients |-> Found(c)]
  /\ UNCHANGED <<fan, dual, trusted, todo, step>>

FanInit ==
  /\ ClientInit
  /\ fan \in Fans
  /\ dual \in SUBSET Clients
  /\ trusted = [c \in Clients |-> Fans]
  /\ todo = [c \in Clients |-> <<>>]
  /\ step = [c \in Clients |-> "begin"]
  /\ found = [c \in Clients |-> fan]

FanNext ==
  \/ \E c \in Clients : Ask(c) \/ Disabled(c) \/ ReadSelection(c) \/ WriteSelection(c) \/ Access(c) \/ Leave(c)
  \/ Others

FanSpec == FanInit /\ [][FanNext]_helperVars

---------------------------------------------------------------------------

(* The fan a level is set on, or a speed read from, is settled by the      *)
(* application that does it.  Each of two helpers is on its own fan,       *)
(* whatever was selected before.  A lone helper does not select: it is on  *)
(* the fan that was selected when its application opened the service, and  *)
(* nobody changes that under it; after an application with two helpers     *)
(* this may be the second fan, though the helper calls itself the main one *)
(* (ThinkFanHelper.swift:110-190, 192-231).                                *)
SelectionHolds ==
  \A c \in Clients :
    AtStep(c, "access") => fan = IF c \in dual THEN Current(c) ELSE found[c]

=============================================================================
