---------------------------- MODULE MCInputModes ----------------------------
(* Small instances of InputModes for TLC. *)
EXTENDS InputModes, TLC

CONSTANTS p1, p2, p3

MCTabOf == p1 :> 1 @@ p2 :> 1 @@ p3 :> 2

MCTable == "j" :> "copy-mode"

\* Without what no guard and no property reads, and with the line and the pick
\* only while there is a prompt or a chooser to open again; a held divider and a
\* held scroll bar count alike; the history as what the properties make of it.
MCState ==
    <<[input EXCEPT !.reader = "nobody", !.clip = NoText, !.copy.jump = FALSE,
                    !.hints = TRUE, !.past = <<>>, !.at = 0,
                    !.divider = @ \/ input.bar, !.bar = @ /\ input.divider,
                    !.pick = IF "buffer" \in input.open THEN @ ELSE 0,
                    !.line = IF "prompt" \in input.open THEN @ ELSE Blank],
      view>>

MCShape == <<MCState, EscapeCloses, ProgramReadsLast>>

\* The texts are alike, and the two panes of the first tab.
MCAlike == {f @@ g : f \in Permutations(Texts), g \in Permutations({p1, p2})}

\* What a key or a gesture finds is there: copy mode's cursor, the paste buffer
\* the chooser points at, whoever copies, deletes or pastes meanwhile, and the
\* selection a drag extends, also after tabs have changed under it.
FoundIsThere == TypeOK /\ CopyModeHasCursor /\ ChooserPointsAtBuffer /\ DragHasSelection
=============================================================================
