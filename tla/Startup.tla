------------------------------ MODULE Startup -------------------------------
(***************************************************************************)
(* realmain (main.c): the configuration and the EEPROM files on the SD     *)
(* card (sdcard.c), the network interface (net_setup.c), the servers.      *)
(* A power failure may come between any two steps; the card keeps what the *)
(* finished steps have left.                                               *)
(***************************************************************************)
EXTENDS Naturals, Sequences

CONSTANT MaxLines       \* bound: lines of NET.CNF that mean something

ASSUME StartupAssumption == MaxLines \in Nat

VARIABLES
  stage,                \* what the main thread does
  conf,                 \* net_config
  lines,                \* history: the lines of NET.CNF read
  cardError,            \* history: an operation on the card has failed
  new, dat,             \* EEPROM.NEW is there; EEPROM.DAT, see Files
  found                 \* history: EEPROM.DAT as this start has met it, or none

startupVars == <<stage, conf, lines, cardError, new, dat, found>>

Stages == {"boot", "card", "lines", "mac", "new", "unlink", "dat", "rewrite",
           "write", "net", "serve", "ready", "stuck"}
Files  == {"absent", "empty", "short", "whole"}         \* whole: of EE_SIZE

NoConf == [static |-> FALSE, addr |-> FALSE, mac |-> "zero"]

\* Kinds of lines; mask and gw do like addr what concerns them, comments,
\* blank lines and unknown words do nothing.
Lines == {"dhcp yes", "dhcp no", "dhcp bad", "addr", "addr bad",
          "hwaddr", "hwaddr full", "hwaddr bad", "other"}

---------------------------------------------------------------------------
(* sdcard.c *)

\* sdcard_handle: one of two drives; without any the defaults stay.
Mount ==
  /\ stage = "card"
  /\ \/ stage' \in {"lines", "new"} /\ UNCHANGED cardError     \* NET.CNF opens, or not
     \/ stage' = "net" /\ cardError' = TRUE
  /\ UNCHANGED <<conf, lines, new, dat, found>>

\* Mutated form: an address does not imply a static configuration.
ParseLineExplicit(c, l) ==
  CASE l = "dhcp yes" -> [c EXCEPT !.static = FALSE]
    [] l = "dhcp no"  -> [c EXCEPT !.static = TRUE]
    [] l = "addr"     -> [c EXCEPT !.addr = TRUE]
    [] OTHER          -> c

\* sdcard_parse_inet and parse_hex: an argument that cannot be read leaves
\* the field as it is.
ParseLine(c, l) ==
  CASE l = "dhcp yes" -> [c EXCEPT !.static = FALSE]
    [] l = "dhcp no"  -> [c EXCEPT !.static = TRUE]
    [] l = "addr"     -> [c EXCEPT !.addr = TRUE, !.static = TRUE]
    [] l = "addr bad" -> [c EXCEPT !.static = TRUE]
    [] OTHER          -> c

\* sdcard_netconf, one line; hwaddr asks the EEPROM first, whatever its argument.
Netconf ==
  /\ stage = "lines" /\ Len(lines) < MaxLines
  /\ \E l \in Lines :
       /\ lines' = Append(lines, l)
       /\ conf' = ParseLine(conf, l)
       /\ stage' = IF l \in {"hwaddr", "hwaddr full", "hwaddr bad"} THEN "mac" ELSE "lines"
  /\ UNCHANGED <<cardError, new, dat, found>>

\* After the EEPROM has been asked: a complete address replaces its answer.
Hwaddr(answered) ==
  /\ stage = "mac" /\ stage' = "lines"
  /\ conf' = [conf EXCEPT !.mac = IF lines[Len(lines)] = "hwaddr full" THEN "file"
                                    ELSE IF answered THEN "eeprom" ELSE @]
  /\ UNCHANGED <<lines, cardError, new, dat, found>>

NetconfEnd ==
  /\ stage = "lines" /\ stage' = "new"
  /\ cardError' \in {cardError, TRUE}                    \* f_error, f_close
  /\ UNCHANGED <<conf, lines, new, dat, found>>

\* EEPROM.NEW is read and compared; writing it to the EEPROM is commented out.
SyncNew ==
  /\ stage = "new"
  /\ IF ~new
     THEN stage' = "dat" /\ UNCHANGED cardError
     ELSE \/ stage' = "unlink" /\ cardError' \in {cardError, TRUE}
          \/ stage' = "dat" /\ cardError' = TRUE         \* f_open
  /\ UNCHANGED <<conf, lines, new, dat, found>>

UnlinkNew ==
  /\ stage = "unlink" /\ stage' = "dat"
  /\ \/ new' = FALSE /\ UNCHANGED cardError
     \/ cardError' = TRUE /\ UNCHANGED new
  /\ UNCHANGED <<conf, lines, dat, found>>

\* Mutated form: the length is not compared, so that an empty file can match.
SyncDatAnyLength ==
  /\ stage = "dat" /\ found' = dat
  /\ \/ /\ dat' = IF dat = "absent" THEN "empty" ELSE dat
        /\ \/ stage' = "net" /\ UNCHANGED cardError
           \/ stage' = "rewrite" /\ UNCHANGED cardError
           \/ stage' = "net" /\ cardError' = TRUE
     \/ stage' = "net" /\ cardError' = TRUE /\ UNCHANGED dat
  /\ UNCHANGED <<conf, lines, new>>

\* EEPROM.DAT is opened, and created when it is not there.  It is compared with
\* a buffer that nothing has filled: any outcome, for a file of the right length.
SyncDat ==
  /\ stage = "dat" /\ found' = dat
  /\ \/ /\ dat' = IF dat = "absent" THEN "empty" ELSE dat
        /\ \/ stage' = "net" /\ dat = "whole" /\ UNCHANGED cardError
           \/ stage' = "rewrite" /\ UNCHANGED cardError
           \/ stage' = "net" /\ cardError' = TRUE        \* f_read
     \/ stage' = "net" /\ cardError' = TRUE /\ UNCHANGED dat     \* f_open
  /\ UNCHANGED <<conf, lines, new>>

\* Seek and truncate.
TruncateDat ==
  /\ stage = "rewrite"
  /\ \/ stage' = "write" /\ dat' = "empty" /\ UNCHANGED cardError
     \/ stage' = "net" /\ cardError' = TRUE /\ UNCHANGED dat
  /\ UNCHANGED <<conf, lines, new, found>>

\* Write and sync: until the end the file may have any length.
WriteDat ==
  /\ stage = "write"
  /\ \/ dat = "empty" /\ dat' = "short" /\ UNCHANGED <<stage, cardError>>
     \/ stage' = "net" /\ dat' = "whole" /\ UNCHANGED cardError
     \/ stage' = "net" /\ cardError' = TRUE /\ UNCHANGED dat
  /\ UNCHANGED <<conf, lines, new, found>>

---------------------------------------------------------------------------
(* net_setup.c, and psc_run as far as its listening socket *)

\* Mutated form: it waits for an address, and no DHCP server answers.
NetSetupWaits ==
  /\ stage = "net" /\ stage' = "serve" /\ conf.static
  /\ conf' = NoConf /\ lines' = <<>> /\ cardError' = FALSE /\ found' = "none"
  /\ UNCHANGED <<new, dat>>

\* A static address, DHCP or no interface at all: nobody looks at which, and
\* conf goes out of scope.
NetSetup ==
  /\ stage = "net" /\ stage' = "serve"
  /\ conf' = NoConf /\ lines' = <<>> /\ cardError' = FALSE /\ found' = "none"
  /\ UNCHANGED <<new, dat>>

\* psc_run returns when it has no socket: then no thread is started at all.
Serve ==
  /\ stage = "serve" /\ stage' \in {"ready", "stuck"}
  /\ UNCHANGED <<conf, lines, cardError, new, dat, found>>

StartupStep == \/ Mount \/ Netconf \/ NetconfEnd \/ SyncNew \/ UnlinkNew
               \/ SyncDat \/ TruncateDat \/ WriteDat \/ NetSetup \/ Serve

\* The processor starts again.
Reset ==
  /\ stage' = "boot" /\ conf' = NoConf /\ lines' = <<>>
  /\ cardError' = FALSE /\ found' = "none"

StartupInit ==
  /\ stage = "boot" /\ conf = NoConf /\ lines = <<>>
  /\ cardError = FALSE /\ found = "none"
  /\ new \in BOOLEAN /\ dat \in Files

---------------------------------------------------------------------------
StartupTypeOK ==
  /\ stage \in Stages
  /\ conf \in [static : BOOLEAN, addr : BOOLEAN, mac : {"zero", "eeprom", "file"}]
  /\ lines \in Seq(Lines) /\ Len(lines) <= MaxLines
  /\ cardError \in BOOLEAN /\ new \in BOOLEAN
  /\ dat \in Files /\ found \in Files \cup {"none"}

\* Whatever the order of its lines, the file means: static if the last line
\* that says dhcp or addr asks for it; an own hardware address only from a
\* complete one, and never none once a hwaddr line has been read.
Says(i)   == lines[i] \in {"dhcp yes", "dhcp no", "addr", "addr bad"}
IsHw(i)   == lines[i] \in {"hwaddr", "hwaddr full", "hwaddr bad"}
Last(P(_)) == {i \in DOMAIN lines : P(i) /\ \A j \in DOMAIN lines : P(j) => j <= i}
ConfigAsWritten ==
  stage \in {"lines", "new"} =>
    /\ conf.static = \E i \in Last(Says) : lines[i] # "dhcp yes"
    /\ conf.addr = \E i \in DOMAIN lines : lines[i] = "addr"
    /\ conf.mac = IF Last(IsHw) = {} THEN "zero"
                  ELSE IF \E i \in Last(IsHw) : lines[i] = "hwaddr full" THEN "file"
                  ELSE "eeprom"

\* When the main thread has done with the card, and no operation of this start
\* on it has failed, EEPROM.NEW is taken away, and an EEPROM.DAT that was met
\* empty - which asks for a copy, or was left so by an earlier start that was
\* cut off between truncating and writing it - or whole is complete.
\* Of the other two, a file that is absent or of another length, nothing is
\* stated: the header of sdcard.c says EEPROM.DAT is written "if present with
\* zero size" (line 6), its code creates the one (FA_OPEN_ALWAYS, line 244) and
\* rewrites the other (lines 182-211), as SyncDat and WriteDat do.
CardSettled ==
  stage = "net" /\ ~cardError => ~new /\ (found \in {"empty", "whole"} => dat = "whole")
=============================================================================
