------------------------------ MODULE MCSecrets ------------------------------
(***************************************************************************)
(* The parts that a password goes through, instantiated for TLC: the       *)
(* dialog where it is typed, the memory where it is kept and the exchange  *)
(* in which it is sent.  They share nothing, so that each behaviour is of  *)
(* one of them, and the others stay as they are at first.                  *)
(***************************************************************************)
EXTENDS SecretExchange

CONSTANTS
    s1,
    WordSize, PageWords, DefaultWords, Waste, Slots, SlotWords, PoolItems, PoolCount,
    Length, Threads,
    MaxOp, MaxEvents, Text, Blank, Paranoid, ClosesAlone, AsksAfterClose, AsksInCallback

VARIABLES
    part,       \* the part that is at work
    heap, moving,
    self, asked, results, idle, disposed, aborted, mapped, special, events

Memory == INSTANCE SecureMemory
Dialog == INSTANCE PromptDialog

ASSUME MemoryAssumption == Memory!SizeAssumption
ASSUME DialogAssumption == Dialog!UsageAssumption

memoryVars == <<heap, moving>>
dialogVars == <<self, asked, results, idle, disposed, aborted, mapped, special, events>>
allVars == <<vars, memoryVars, dialogVars, part>>

SecretsInit ==
    /\ Init /\ Memory!Init /\ Dialog!Init
    /\ part \in {"exchange", "memory", "dialog"}

SecretsNext ==
    /\ UNCHANGED part
    /\ \/ part = "exchange" /\ Next /\ UNCHANGED <<memoryVars, dialogVars>>
       \/ part = "memory" /\ Memory!Next /\ UNCHANGED <<vars, dialogVars>>
       \/ part = "dialog" /\ Dialog!Next /\ UNCHANGED <<vars, memoryVars>>

SecretsSpec ==
    /\ SecretsInit /\ [][SecretsNext]_allVars
    /\ part = "dialog" => Dialog!Fairness

-----------------------------------------------------------------------------
\* A password was typed for the question that it answers (PromptDialog).
PasswordsAreTyped == Dialog!PasswordsAreTyped
\* Questions are answered in the end (PromptDialog).
QuestionsEnd == Dialog!QuestionsEnd
\* The cells share out the words of each block (SecureMemory).
CellsTile == Memory!CellsTile
\* The allocator keeps its promise (SecureHeap).
ImplementsHeap == Memory!ImplementsHeap
=============================================================================
