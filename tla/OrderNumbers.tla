---------------------------- MODULE OrderNumbers ----------------------------
(***************************************************************************)
(* The order numbers that the consumers give to tickets                    *)
(* (internal/pkg/idgen, internal/mq/order_no.go): a Sonyflake identifier   *)
(* of time, sequence and machine, or, when the generator cannot be         *)
(* initialised, the second and eight random bytes.  Every process has a    *)
(* generator of its own; what keeps two apart is the machine identifier.   *)
(***************************************************************************)
EXTENDS Integers, Sequences, FiniteSets

CONSTANTS
    Processes,
    MachineIdEnv,   \* MACHINE_ID of a process, or Unset
    PodOrdinal,     \* the number HOSTNAME ends in, or Unset
    IpBytes,        \* the last two bytes of its IPv4 address, or Unset
    Unset,
    Randoms,        \* the values of the random bytes
    SequenceSize,   \* 2^8
    MaxTime,        \* bound on the clock, in units of 10 ms
    MaxNumbers,     \* bound on the numbers issued
    MaxRestarts     \* bound on the processes that restart, each once

ASSUME ProcessAssumption ==
    /\ Unset \notin Nat
    /\ \A p \in Processes :
          /\ MachineIdEnv[p] \in Nat \/ MachineIdEnv[p] = Unset
          /\ PodOrdinal[p] \in Nat \/ PodOrdinal[p] = Unset
          /\ IpBytes[p] \in [1 .. 2 -> 0 .. 255] \/ IpBytes[p] = Unset
    /\ SequenceSize \in Nat \ {0} /\ MaxTime \in Nat /\ MaxNumbers \in Nat /\ MaxRestarts \in Nat

VARIABLES
    clock,          \* the machines' clock
    elapsed,        \* the time part of a generator's last identifier
    sequence,       \* the sequence part
    life,           \* the number of restarts of a process
    hasty,          \* it restarted when the clock had not passed elapsed, or
                    \* the clock was set back since
    issued          \* the numbers issued, and by whom

numberVars == <<clock, elapsed, sequence, life, hasty, issued>>

\* Mutant: only the last byte of the address is taken.
MachineIdOfLastByte(p) ==
    IF MachineIdEnv[p] # Unset THEN MachineIdEnv[p]
    ELSE IF PodOrdinal[p] # Unset THEN PodOrdinal[p] % 65536
    ELSE IpBytes[p][2]

\* MACHINE_ID, else the ordinal cut to 16 bits, else the address.
MachineId(p) ==
    IF MachineIdEnv[p] # Unset THEN MachineIdEnv[p]
    ELSE IF PodOrdinal[p] # Unset THEN PodOrdinal[p] % 65536
    ELSE IpBytes[p][1] * 256 + IpBytes[p][2]

HasMachineId(p) ==
    MachineIdEnv[p] # Unset \/ PodOrdinal[p] # Unset \/ IpBytes[p] # Unset

NumbersInit ==
    /\ clock = 1
    /\ elapsed = [p \in Processes |-> 0]
    /\ sequence = [p \in Processes |-> SequenceSize - 1]
    /\ life = [p \in Processes |-> 0]
    /\ hasty = [p \in Processes |-> FALSE]
    /\ issued = << >>

\* The generator's next time and sequence: a new time starts a new sequence;
\* a clock that has not moved on, or has stepped back, continues it, and a
\* full sequence borrows the next unit of time.
NextElapsed(p) ==
    IF elapsed[p] < clock THEN clock
    ELSE IF sequence[p] = SequenceSize - 1 THEN elapsed[p] + 1
    ELSE elapsed[p]
NextSequence(p) ==
    IF elapsed[p] < clock THEN 0 ELSE (sequence[p] + 1) % SequenceSize

DrawIdentifier(p) ==
    /\ elapsed' = [elapsed EXCEPT ![p] = NextElapsed(p)]
    /\ sequence' = [sequence EXCEPT ![p] = NextSequence(p)]

\* The first order of a process makes its generator, which draws an identifier
\* to try it out.
Initialized(p) == elapsed[p] > 0
InitWithMachineID(p) ==
    /\ HasMachineId(p) /\ ~ Initialized(p)
    /\ Len(issued) < MaxNumbers
    /\ DrawIdentifier(p)
    /\ UNCHANGED <<clock, life, hasty, issued>>

\* OrderNo: the identifier in hexadecimal.
OrderNo(p) ==
    /\ Initialized(p)
    /\ Len(issued) < MaxNumbers
    /\ DrawIdentifier(p)
    /\ issued' = Append(issued,
          [by |-> p, life |-> life[p],
           number |-> <<"sonyflake", NextElapsed(p), NextSequence(p), MachineId(p)>>])
    /\ UNCHANGED <<clock, life, hasty>>

\* generateFallbackOrderNo, for a process whose generator has no machine
\* identifier.
FallbackOrderNo(p) ==
    /\ ~ HasMachineId(p)
    /\ Len(issued) < MaxNumbers
    /\ \E x \in Randoms :
         issued' = Append(issued,
             [by |-> p, life |-> life[p], number |-> <<"fallback", clock \div 100, x, 0>>])
    /\ UNCHANGED <<clock, elapsed, sequence, life, hasty>>

Tick ==
    /\ clock < MaxTime
    /\ clock' = clock + 1
    /\ UNCHANGED <<elapsed, sequence, life, hasty, issued>>

\* The clock is set back.
ClockStepsBack ==
    /\ clock > 1
    /\ clock' = clock - 1
    /\ hasty' = [p \in Processes |-> hasty[p] \/ life[p] > 0]
    /\ UNCHANGED <<elapsed, sequence, life, issued>>

\* A restarted process has a new generator.
Restart(p) ==
    /\ Initialized(p)
    /\ life[p] = 0 /\ Cardinality({q \in Processes : life[q] > 0}) < MaxRestarts
    /\ life' = [life EXCEPT ![p] = 1]
    /\ hasty' = [hasty EXCEPT ![p] = clock <= elapsed[p]]
    /\ elapsed' = [elapsed EXCEPT ![p] = 0]
    /\ sequence' = [sequence EXCEPT ![p] = SequenceSize - 1]
    /\ UNCHANGED <<clock, issued>>

NumbersNext ==
    \/ \E p \in Processes :
          InitWithMachineID(p) \/ OrderNo(p) \/ FallbackOrderNo(p) \/ Restart(p)
    \/ Tick
    \/ ClockStepsBack

NumbersSpec == NumbersInit /\ [][NumbersNext]_numberVars

-----------------------------------------------------------------------------
\* The deployment has told p and q apart: by two settings of MACHINE_ID, or without
\* them by two ordinals of 16 bits, or without those by two addresses of one /16
\* network.  Processes of one host, or of which only one has a setting, are not.
Unsets(source, p, q) == source[p] = Unset /\ source[q] = Unset
Differ(source, p, q) == source[p] # Unset /\ source[q] # Unset /\ source[p] # source[q]
ToldApart(p, q) ==
    \/ Differ(MachineIdEnv, p, q)
    \/ /\ Unsets(MachineIdEnv, p, q) /\ Differ(PodOrdinal, p, q)
       /\ PodOrdinal[p] < 65536 /\ PodOrdinal[q] < 65536
    \/ Unsets(MachineIdEnv, p, q) /\ Unsets(PodOrdinal, p, q) /\ Differ(IpBytes, p, q)

\* Two tickets have the same order number only when they come from two processes
\* that the deployment has not told apart, from a process that restarted while its
\* clock was behind, or from an equal draw of the random bytes of two fallback
\* numbers.  So whatever tells two processes apart is kept in the identifier; for
\* one that runs, neither a clock that steps back nor a full sequence repeats a
\* number; and a fallback number is never one of a generator.
NumbersDiffer ==
    \A i, j \in DOMAIN issued :
        i < j /\ issued[i].number = issued[j].number =>
            LET x == issued[i]
                y == issued[j] IN
            \/ /\ x.by # y.by /\ ~ ToldApart(x.by, y.by)
               /\ HasMachineId(x.by) /\ HasMachineId(y.by)
            \/ x.by = y.by /\ x.life # y.life /\ hasty[x.by]
            \/ ~ HasMachineId(x.by) /\ ~ HasMachineId(y.by)

=============================================================================
