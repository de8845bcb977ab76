---------------------------- MODULE SerialDecoder ----------------------------
(***************************************************************************)
(* What the parser of the game's text promises, with or without a worker:  *)
(* the lines of a unit are committed in order, each once, each decoded     *)
(* under the state and the settings that the main thread is in when it     *)
(* comes to the line.  Scripts run when a line is committed, and may       *)
(* change both for the lines that follow.                                  *)
(***************************************************************************)
EXTENDS Naturals, Sequences

CONSTANTS
    Units,       \* the units the game may send: sequences of kinds of lines
    ParseStates, \* what the parser carries from line to line
    Configs,     \* what it reads of the profile's settings
    StateAfter,  \* StateAfter[kind][state]: the state that a kind of line leaves behind
    MaxUnits     \* bound on the units sent

VARIABLES
    unit,        \* the number and the lines of the unit being parsed
    position,    \* how many of its lines are committed
    parseState,
    parseConfig,
    held,        \* whether text of an earlier unit is waiting for its line's end
    committed    \* what the last committed line was decoded as

decoderVars == <<unit, position, parseState, parseConfig, held, committed>>

\* A line of the unit, decoded in the given state under the given settings.
Decoded(u, n, state, config, carried) ==
    [unit |-> u.id, line |-> n, state |-> state, config |-> config, carried |-> carried]

DecoderInit ==
    /\ unit = [id |-> 0, lines |-> <<>>]
    /\ position = 0
    /\ parseState \in ParseStates
    /\ parseConfig \in Configs
    /\ held = FALSE
    /\ committed = Decoded(unit, 0, parseState, parseConfig, FALSE)

\* A unit arrives once the one before is parsed.
Receive ==
    /\ unit.id < MaxUnits
    /\ position = Len(unit.lines)
    /\ \E lines \in Units : unit' = [id |-> unit.id + 1, lines |-> lines]
    /\ position' = 0
    /\ held' \in BOOLEAN
    /\ UNCHANGED <<parseState, parseConfig, committed>>

\* The next line is decoded and committed.
CommitNext ==
    /\ position < Len(unit.lines)
    /\ committed' = Decoded(unit, position + 1, parseState, parseConfig, held)
    /\ parseState' = StateAfter[unit.lines[position + 1]][parseState]
    /\ position' = position + 1
    /\ held' = FALSE
    /\ UNCHANGED <<unit, parseConfig>>

\* A script changes the settings, or has the parser read something else.
Script ==
    /\ position > 0
    /\ parseState' \in ParseStates
    /\ parseConfig' \in Configs
    /\ UNCHANGED <<unit, position, held, committed>>

SerialDecoding == DecoderInit /\ [][Receive \/ CommitNext \/ Script]_decoderVars
==============================================================================
