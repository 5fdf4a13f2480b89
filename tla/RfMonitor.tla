------------------------------ MODULE RfMonitor ------------------------------
(***************************************************************************)
(* Two radios on the air and the program that watches them: the            *)
(* transmitters, the sweeps rtl_power makes of what they radiate           *)
(* (collectors/rf_live.py), the baseline that is learned from some sweeps  *)
(* and kept in a file, and the monitor that compares later sweeps with it  *)
(* (demo/rf_monitor.py).                                                   *)
(*                                                                         *)
(* Rows carry a time stamp in whole seconds, and rows with one stamp make  *)
(* one sweep.  The span fits one tuner hop, so a row is a whole pass over  *)
(* the band; two passes may fall into one second.                          *)
(*                                                                         *)
(* The radios' own frequency errors and what a carrier looks like in the   *)
(* spectrum are not in the code: a radio is a peak with skirts that fall   *)
(* by 10 dB a bin, over a flat floor.                                      *)
(***************************************************************************)
EXTENDS Transmitter, RfDetection

CONSTANTS
  Crystal,        \* the frequency errors the boards may have: [Board -> Int]
  Bins,           \* bins in the swept span
  BaselineSweeps, \* --sweeps
  MaxPerStamp,    \* bound: passes that may fall into one second
  Grain,          \* what the frequencies in an observation are rounded to
  None, Torn

ASSUME WatchAssumption ==
  /\ Crystal \subseteq [Board -> Int]
  /\ Bins \in Nat /\ BaselineSweeps \in Nat \ {0} /\ MaxPerStamp \in Nat \ {0}
  /\ Grain \in Nat \ {0}
  /\ None \notin {"radio", "recording"}

VARIABLES
  crystal, \* the boards' frequency errors; constant
  prog,    \* who holds the receiver: nobody, the baseline or the monitor
  source,  \* where its sweeps come from
  group,   \* current_bins: the passes of the sweep not yet complete
  kept,    \* the baseline's sweeps so far
  file,    \* the baseline file
  heard,   \* history: where the radios were when that was made, if they kept
           \* still and could be told apart
  known,   \* the emitters the monitor has loaded
  report   \* what it made of the last sweep: findings and heartbeat

watchVars == <<crystal, prog, source, group, kept, file, heard, known, report>>
vars == <<transmitterVars, watchVars>>

----------------------------------------------------------------------------
(* The air and the receiver *)

Level(regLevel) == IF regLevel < 16 THEN 20 ELSE 30

\* What is radiated now, and, as history, what the boards were told to.
Radio(x, freq, level) == [at |-> freq + crystal[x], level |-> Level(level)]

Air ==
  [radiated |-> {Radio(x, board[x].regFreq, board[x].regLevel) :
                   x \in {y \in Board : board[y].regMode = "transmit"}},
   commanded |-> {Radio(x, EffectiveFrequency(board[x]), board[x].power) :
                   x \in {y \in Board : board[y].transmitting}}]

\* The power of a bin, in the units of RfDetection.
Spectrum(air, bin) ==
  Db * Max({0} \cup {r.level - 10 * Distance(r.at, bin) : r \in air.radiated})

\* The order of the powers measured of one bin, and of equal ones that of the
\* passes.
Quieter(measured) ==
  {m \in measured \X measured :
     \/ m[1].power < m[2].power
     \/ m[1].power = m[2].power /\ m[1].pass < m[2].pass}

\* The bins of all the passes of one sweep, sorted by frequency, then power.
Sorted(passes) ==
  LET n == Len(passes)
      bin(i) == ((i - 1) \div n) + 1
      row(p) == SubSeq([k \in 1..Bins |-> Spectrum(passes[p], k)], 1, Bins)
      spectra == SubSeq([p \in 1..n |-> row(p)], 1, n)
      measured(k) == {[power |-> spectra[p][k], pass |-> p] : p \in 1..n}
      ordered(k) == InOrder(measured(k), Quieter(measured(k)))
  IN  SubSeq([i \in 1..(n * Bins) |->
                [freq |-> bin(i) * Fine, power |-> ordered(bin(i))[((i - 1) % n) + 1].power]],
             1, n * Bins)

----------------------------------------------------------------------------
(* The programs *)

\* _describe_carriers: a frequency as an observation carries it, a multiple of
\* the grain, the nearest one and of two the even one.
Shown(freq) ==
  LET below == freq \div Grain
      twice == 2 * (freq % Grain)
      up == twice > Grain \/ (twice = Grain /\ below % 2 = 1)
  IN  Grain * (IF up THEN below + 1 ELSE below)

Nearest(freq) == Min({Distance(e.freq, freq) : e \in ToSet(known)})

\* _heartbeat_detail: the colour of each carrier on the screen, by the
\* frequency in the observation and the tolerance of the first emitter.
IsKnown(carrier) == Nearest(Shown(carrier.freq)) <= known[1].tol

Analyse(passes) ==
  LET result == AnalyseSweep(Sorted(passes), known, 1)
      c == result.carriers
  IN  [passes |-> passes, carriers |-> c, findings |-> result.findings,
       colour |-> [i \in DOMAIN c |-> IsKnown(c[i])]]

WatchInit ==
  /\ crystal \in Crystal
  /\ prog = "idle" /\ source = None /\ group = <<>>
  /\ kept = <<>> /\ file = None /\ heard = None
  /\ known = <<>> /\ report = None

Start(p, s) ==
  /\ prog = "idle"
  /\ prog' = p /\ source' = s
  /\ report' = None
  /\ UNCHANGED <<crystal, group, kept, file, heard>>

\* A baseline does the same with a recording, which it reads once.
StartBaseline ==
  /\ Start("baseline", "radio")
  /\ known' = <<>>

\* run_monitor does nothing without a baseline file; one that was cut short
\* cannot be read.
StartMonitor ==
  /\ file \notin {None, Torn}
  /\ \E s \in {"radio", "recording"} : Start("monitor", s)
  /\ known' = file

\* The passes of one sweep saw the same thing.
Steady(passes) == \A i \in DOMAIN passes : passes[i] = passes[1]

\* Radios as far apart as the sweep can tell them: the moving average and
\* the skirts need four bins, and one more for every 10 dB of difference.
Resolvable(air) ==
  /\ \A r \in air.commanded : r.at \in 4..(Bins - 3)
  /\ \A r, s \in air.commanded :
       r # s => 10 * (Distance(r.at, s.at) - 4) >= Distance(r.level, s.level)

Positions(air) == {r.at * Fine : r \in air.commanded}

\* Places that no measurement can be mistaken for another of: the tolerance, what
\* two measurements may be off and the rounding lie between them.
Apart(f, g) == Distance(f, g) >= Tol + Fine \div 2 + Grain

\* History: all the sweeps saw radios that did not move and that can be told
\* apart from each other; if not, nothing is claimed of the baseline.
Situation(sweeps) ==
  LET at == UNION {Positions(sweeps[i][1]) : i \in DOMAIN sweeps}
  IN  IF /\ \A i \in DOMAIN sweeps : Steady(sweeps[i]) /\ Resolvable(sweeps[i][1])
         /\ \A f, g \in at : f = g \/ Apart(f, g)
      THEN at ELSE None

\* The end of run_baseline: a baseline without an emitter is not saved, and
\* the file of an earlier one stays.  The file is opened for writing before
\* anything is written, and the program may be killed in between.
Save(sweeps) ==
  LET emitters == Learn([i \in DOMAIN sweeps |-> Sorted(sweeps[i])])
  IN  IF emitters = <<>> THEN UNCHANGED <<file, heard>>
      ELSE \/ file' = emitters /\ heard' = Situation(sweeps)
           \/ file' = Torn /\ heard' = None

\* The generator is closed: rtl_power is terminated, and the passes not yet
\* handed on are dropped.
Release ==
  /\ prog' = "idle" /\ source' = None /\ group' = <<>> /\ kept' = <<>>
  /\ UNCHANGED <<crystal, known>>

\* The program is given the passes of one sweep; `then' is what the stream
\* holds after it.
Consume(passes, then) ==
  \/ /\ prog = "baseline" /\ Len(kept) + 1 = BaselineSweeps
     /\ Save(Append(kept, passes))
     /\ Release
     /\ UNCHANGED report
  \/ /\ prog = "baseline" /\ Len(kept) + 1 < BaselineSweeps
     /\ kept' = Append(kept, passes) /\ group' = then
     /\ UNCHANGED <<crystal, prog, source, file, heard, known, report>>
  \/ /\ prog = "monitor"
     /\ report' = Analyse(passes) /\ group' = then
     /\ UNCHANGED <<crystal, prog, source, kept, file, heard, known>>

\* The first row of all.
FirstRow ==
  /\ prog # "idle" /\ group = <<>>
  /\ group' = <<Air>>
  /\ UNCHANGED <<crystal, prog, source, kept, file, heard, known, report>>

\* A row with the stamp of the rows before it.
RowOfSameSweep ==
  /\ prog # "idle" /\ group # <<>> /\ Len(group) < MaxPerStamp
  /\ group' = Append(group, Air)
  /\ UNCHANGED <<crystal, prog, source, kept, file, heard, known, report>>

\* A row with a new stamp: the sweep before it is now known to be complete.
RowOfNextSweep == group # <<>> /\ Consume(group, <<Air>>)

\* A monitor replays its recording for ever; at the end the last sweep is
\* complete, and nothing is carried over into the next round.
Rewind ==
  /\ prog = "monitor" /\ source = "recording" /\ group # <<>>
  /\ Consume(group, <<>>)

\* rtl_power has ended by itself, or the baseline's recording has.  What was
\* read last is a sweep as well, and a baseline makes do with the sweeps
\* there are.
EndOfRows ==
  \/ /\ prog = "baseline"
     /\ Save(IF group = <<>> THEN kept ELSE Append(kept, group))
     /\ Release
     /\ UNCHANGED report
  \/ /\ prog = "monitor" /\ source = "radio"
     /\ report' = IF group = <<>> THEN report ELSE Analyse(group)
     /\ Release
     /\ UNCHANGED <<file, heard>>

\* Ctrl-C, or the process is killed.
Stop ==
  /\ prog # "idle"
  /\ Release
  /\ UNCHANGED <<file, heard, report>>

Watch ==
  \/ StartBaseline \/ StartMonitor
  \/ FirstRow \/ RowOfSameSweep \/ RowOfNextSweep \/ Rewind \/ EndOfRows \/ Stop

RfInit == Init /\ WatchInit

RfNext ==
  \/ Watch /\ UNCHANGED transmitterVars
  \/ (\E x \in Board : Command(x) \/ PowerCycle(x)) /\ UNCHANGED watchVars

Spec == RfInit /\ [][RfNext]_vars

----------------------------------------------------------------------------
(* Properties *)

Emitters(f) == f # None /\ f # Torn

WatchTypeOK ==
  /\ prog \in {"idle", "baseline", "monitor"}
  /\ (prog = "idle") <=> (source = None)
  /\ Len(group) <= MaxPerStamp
  /\ Len(kept) < BaselineSweeps
  /\ Emitters(file) => file # <<>>
  /\ report # None => known # <<>> /\ DOMAIN report.colour = DOMAIN report.carriers

RfTypeOK == TypeOK /\ WatchTypeOK

Found(carriers) == {carriers[i].freq : i \in DOMAIN carriers}

\* A measurement that is less than a quarter of a bin off.
Near(f, g) == 2 * Distance(f, g) < Fine \div 2

\* Each radio is one carrier, there is no other carrier, and the frequencies are
\* the radios' own, exactly or nearly.
Locates(carriers, air, exactly) ==
  \E at \in Bijection(DOMAIN carriers, Positions(air)) :
    \A i \in DOMAIN carriers :
      IF exactly THEN carriers[i].freq = at[i] ELSE Near(carriers[i].freq, at[i])

\* What boards that transmit somewhere in a range may put on the air.
Pictures(range) ==
  {Range(f) : f \in UNION {[on -> [at : range, level : {20, 30}]] : on \in SUBSET Board}}

\* The search for carriers finds all radios that can be told apart, in sweeps of
\* one pass and of several equal ones.  It says nothing of what the programs do.
LocatesRadios ==
  \A radios \in Pictures(4..(Bins - 3)), n \in 1..MaxPerStamp :
    LET air == [radiated |-> radios, commanded |-> radios]
    IN  Resolvable(air) =>
          Locates(FindCarriers(Sorted([i \in 1..n |-> air])), air, n = 1)

\* In a sweep of one pass no emitter accounts for two carriers, wherever the radios
\* are; one three bins outside the band is not seen in it.
SeparatesCarriers ==
  \A radios \in Pictures(-1..(Bins + 2)) :
    LET carriers == FindCarriers(Sorted(<<[radiated |-> radios, commanded |-> radios]>>))
    IN  \A i, j \in DOMAIN carriers :
          i # j => Distance(carriers[i].freq, carriers[j].freq) > 2 * Tol

\* Every board that was told to transmit is one carrier of the sweep, measured
\* at the frequency it was told and its own error, and there is no other
\* carrier, whatever commands came before and whether they came while it was
\* transmitting (feather_cw.ino:225-274; rf.py:309: "locate every transmitter
\* in one sweep").
EachRadioIsOneCarrier ==
  LET air == report.passes[1]
  IN  report # None /\ Len(report.passes) = 1 /\ Resolvable(air) =>
        /\ Found(report.carriers) = Positions(air)
        /\ Len(report.carriers) = Cardinality(air.commanded)

\* The radios are where they were, or clearly elsewhere.
ClearlyPlaced(air) ==
  \A f \in Positions(air) : \A g \in heard : f = g \/ Apart(f, g)

\* Exactly the radios that were not there when the baseline was made are
\* reported, and exactly they are coloured unknown on the screen, however the
\* passes were split into sweeps, and whether or not the authorised radio is
\* on the air as well (rf.py:93-103, 442-453; rf_monitor.py:151-158).
ExactlyStrangersReported ==
  LET air == report.passes[1]
      strangers == Positions(air) \ heard
  IN  /\ report # None
      /\ Steady(report.passes) /\ Resolvable(air)
      /\ heard # None /\ ClearlyPlaced(air)
      => /\ Len(report.findings) = Cardinality(strangers)
         /\ Cardinality({i \in DOMAIN report.colour : ~report.colour[i]}) = Cardinality(strangers)
         /\ \A i \in DOMAIN report.findings :
              \E f \in strangers : Distance(f, report.findings[i].freq) < Fine

\* Identification is never weaker than counting: more carriers than there
\* are baselined emitters are never all taken for them (rf.py:450: "stronger
\* than counting"; a tolerance under half of what the sweep can separate).
NotWeakerThanCounting ==
  report # None /\ Len(report.passes) = 1
    /\ FindingsByCounting(report.carriers, Len(known)) # <<>>
  => report.findings # <<>>

=============================================================================
