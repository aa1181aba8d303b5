------------------------------ MODULE Policies ------------------------------
(***************************************************************************)
(* The history of a run's losses and the standard policies that act on it  *)
(* (src/lib/torobi/hooks.rb): NaNGuard with a rollback, BestCheckpoint     *)
(* writing what it rolls back to, LrOnPlateau and EarlyStopping, registered *)
(* on every step of one session in any order.                              *)
(*                                                                         *)
(* The engine gives a step any loss, and counts the step whether or not    *)
(* the loss was a number (TrainState).  A rate is the number of times it   *)
(* was halved.  A policy's exception ends the span; the caller may go on   *)
(* with another.                                                           *)
(***************************************************************************)
EXTENDS Integers, Sequences, SequencesExt, FiniteSets, FiniteSetsExt

CONSTANTS Losses,            \* the losses that are numbers
          NotFinite,         \* a loss that is not
          Keep,              \* History::KEEP, readings kept whole
          By,                \* how much an improvement is
          GuardPatience, CutPatience, StopPatience,
          MinRate,           \* min_lr, as the halvings that reach it
          MaxReadings        \* bound: steps taken

ASSUME PoliciesAssumption ==
    /\ Losses \subseteq Int /\ Losses # {} /\ NotFinite \notin Losses
    /\ {Keep, GuardPatience, CutPatience, StopPatience} \subseteq Nat \ {0}
    /\ {By, MinRate, MaxReadings} \subseteq Nat
    \* far past any patience anybody sets
    /\ CutPatience <= Keep /\ StopPatience <= Keep

VARIABLES registered,  \* the hooks, in the order they fire
          due,         \* those that have not fired for this event
          event,       \* the event they are handed
          history,     \* Hooks::History
          step, rate,  \* the session's
          file,        \* what BestCheckpoint's directory holds, at most one
          consecutive, \* NaNGuard
          best,        \* BestCheckpoint, at most one
          lastChange,  \* LrOnPlateau
          stopped,     \* which hook ended the span, and why
          all,         \* every reading, for the properties
          cuts, since  \* LrOnPlateau's cuts, and readings since the last one

session == <<step, rate, file>>
policies == <<consecutive, best, lastChange>>
told == <<all, cuts, since>>
policyVars == <<registered, due, event, history, session, policies, stopped, told>>

Finite(loss) == loss # NotFinite
Numbers(readings) == {loss \in ToSet(readings) : Finite(loss)}
Running == [by |-> "nobody", why |-> "running"]

-----------------------------------------------------------------------------
(* Hooks::History.                                                         *)

Empty == [recent |-> <<>>, dropped |-> {}, size |-> 0]

\* A mistake: only what was a number when nothing better had left is folded in.
PushedForgetting(h, loss) ==
    [recent |-> IF Len(h.recent) < Keep THEN Append(h.recent, loss)
                                        ELSE Append(Tail(h.recent), loss),
     dropped |-> IF Len(h.recent) < Keep \/ ~Finite(Head(h.recent)) THEN h.dropped
                 ELSE {Head(h.recent)},
     size |-> h.size + 1]

\* The reading that falls out is folded into the minimum of those that did.
Pushed(h, loss) ==
    LET kept == Append(h.recent, loss)
        gone == Head(kept)
    IN  IF Len(kept) <= Keep THEN [h EXCEPT !.recent = kept, !.size = @ + 1]
        ELSE [recent |-> Tail(kept), size |-> h.size + 1,
              dropped |-> IF Finite(gone) THEN {Min(h.dropped \cup {gone})} ELSE h.dropped]

Latest(h, count) ==
    SubSeq(h.recent, IF Len(h.recent) > count THEN Len(h.recent) - count + 1 ELSE 1, Len(h.recent))

\* The readings its minimum is taken over; none is nil.
BestBefore(h, count) ==
    h.dropped \cup Numbers(SubSeq(h.recent, 1, Len(h.recent) - count))

Improves(loss, before) == Finite(loss) /\ loss < Min(before) - By

Plateaued(h, patience) ==
    /\ h.size > patience
    /\ BestBefore(h, patience) # {}
    /\ \A loss \in ToSet(Latest(h, patience)) : ~Improves(loss, BestBefore(h, patience))

-----------------------------------------------------------------------------
PoliciesInit ==
    /\ registered \in SetToSeqs({"guard", "best", "cut", "stop"})
    /\ due = <<>> /\ event = [step |-> 0, loss |-> NotFinite]
    /\ history = Empty
    /\ step = 0 /\ rate = 0 /\ file = {}
    /\ consecutive = 0 /\ best = {} /\ lastChange = 0
    /\ stopped = Running
    /\ all = <<>> /\ cuts = 0 /\ since = 0

\* A step, and the firing of :step it begins.
Steps(loss) ==
    /\ due = <<>> /\ Len(all) < MaxReadings
    /\ step' = step + 1
    /\ history' = Pushed(history, loss)
    /\ event' = [step |-> step + 1, loss |-> loss]
    /\ due' = registered /\ stopped' = Running
    /\ all' = Append(all, loss) /\ since' = since + 1
    /\ UNCHANGED <<registered, rate, file, policies, cuts>>

Called(hook) == due # <<>> /\ Head(due) = hook

\* What a hook's return, and its exception, leave of the firing.
Returns == due' = Tail(due) /\ UNCHANGED <<registered, event, history, stopped, all>>
Raises(why) == /\ due' = <<>> /\ stopped' = [by |-> Head(due), why |-> why]
               /\ UNCHANGED <<registered, event, history, all>>

GuardLooksAway ==
    /\ Called("guard") /\ Finite(event.loss)
    /\ consecutive' = 0
    /\ Returns /\ UNCHANGED <<session, best, lastChange, cuts, since>>

GuardGivesUp ==
    /\ Called("guard") /\ ~Finite(event.loss) /\ consecutive + 1 >= GuardPatience
    /\ consecutive' = consecutive + 1
    /\ Raises("patience") /\ UNCHANGED <<session, best, lastChange, cuts, since>>

\* Checkpoint and session have to agree on the optimizer, its rate included.
Accepts(checkpoint) == checkpoint.rate = rate

\* Back to the checkpoint, if there is one, and at half the rate from there.
GuardAnswers ==
    /\ Called("guard") /\ ~Finite(event.loss) /\ consecutive + 1 < GuardPatience
    /\ \A checkpoint \in file : Accepts(checkpoint)
    /\ consecutive' = consecutive + 1
    /\ step' = IF file = {} THEN step ELSE (CHOOSE c \in file : TRUE).step
    /\ rate' = rate + 1
    /\ Returns /\ UNCHANGED <<file, best, lastChange, cuts, since>>

GuardIsRefused ==
    /\ Called("guard") /\ ~Finite(event.loss) /\ consecutive + 1 < GuardPatience
    /\ \E checkpoint \in file : ~Accepts(checkpoint)
    /\ consecutive' = consecutive + 1
    /\ Raises("refused") /\ UNCHANGED <<session, best, lastChange, cuts, since>>

IsBetter == Finite(event.loss) /\ \A value \in best : event.loss < value

BestLooksAway ==
    /\ Called("best") /\ ~IsBetter
    /\ Returns /\ UNCHANGED <<session, policies, cuts, since>>

\* The value is noted before the checkpoint is written, which may fail: before
\* the new one has the name, between the two renames, or after them.
BestKeeps ==
    /\ Called("best") /\ IsBetter
    /\ best' = {event.loss}
    /\ LET written == {[step |-> step, rate |-> rate]}
       IN  \/ file' = written /\ Returns
           \/ file' \in {file, {}, written} /\ Raises("save")
    /\ UNCHANGED <<step, rate, consecutive, lastChange, cuts, since>>

\* A mistake: one change per step of a plateau.
TooSoonByOne == lastChange > 0 /\ event.step - lastChange < 1

TooSoon == lastChange > 0 /\ event.step - lastChange < CutPatience
Cuts == Plateaued(history, CutPatience) /\ ~TooSoon /\ rate < MinRate

CutLooksAway ==
    /\ Called("cut") /\ ~Cuts
    /\ Returns /\ UNCHANGED <<session, policies, cuts, since>>

CutsRate ==
    /\ Called("cut") /\ Cuts
    /\ lastChange' = event.step /\ rate' = rate + 1
    /\ cuts' = cuts + 1 /\ since' = 0
    /\ Returns /\ UNCHANGED <<step, file, consecutive, best>>

StopCalled ==
    /\ Called("stop")
    /\ IF Plateaued(history, StopPatience) THEN Raises("plateau") ELSE Returns
    /\ UNCHANGED <<session, policies, cuts, since>>

PoliciesNext ==
    \/ \E loss \in Losses \cup {NotFinite} : Steps(loss)
    \/ GuardLooksAway \/ GuardGivesUp \/ GuardAnswers \/ GuardIsRefused
    \/ BestLooksAway \/ BestKeeps
    \/ CutLooksAway \/ CutsRate \/ StopCalled

PoliciesSpec == PoliciesInit /\ [][PoliciesNext]_policyVars

-----------------------------------------------------------------------------
(* Properties.                                                             *)

\* Judged on everything the run has read: the best of all but the last
\* `patience` readings, and whether one of those improved on it.
PlateauedOnAll(patience) ==
    LET split == Len(all) - patience
        before == Numbers(SubSeq(all, 1, split))
    IN  split > 0 /\ before # {}
          /\ \A i \in split + 1 .. Len(all) : ~Improves(all[i], before)

\* The history keeps Keep readings and one number for the rest, and every
\* judgement a policy asks of it, for any patience up to Keep, is the one
\* the whole run would give (History#<<, best_before, Event#plateaued?).
PlateauIsJudgedOnAll ==
    \A patience \in 1 .. Keep : Plateaued(history, patience) <=> PlateauedOnAll(patience)

\* LrOnPlateau: "one change per plateau, not one per step of it".  The rate
\* is not cut again before CutPatience more losses were read, although the
\* change is remembered by its step and a rollback moves the steps back.
OneCutPerPlateau ==
    [][cuts' # cuts /\ cuts > 0 => since >= CutPatience]_policyVars

\* NaNGuard's comment: it gives up "after `patience` consecutive non-finite
\* steps".  A span it ends has had that many.
GuardEndsAfterPatience == stopped.by = "guard" => consecutive >= GuardPatience
=============================================================================
