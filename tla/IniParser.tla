------------------------------ MODULE IniParser ------------------------------
(***************************************************************************)
(* c/libgs/confparser/iniparser.c and confparser.c: reading configuration  *)
(* files into a dictionary, from a file or from memory, asking for values, *)
(* changing them, and writing a file that can be read again.               *)
(*                                                                         *)
(* A string is a sequence of characters, and a file the sequence of its    *)
(* lines, each ending in NL but perhaps the last.  What the questions look *)
(* at of a dictionary is the sequence of its slots: [key, val], or Hole; a *)
(* section's val is NoVal.                                                 *)
(***************************************************************************)
EXTENDS Integers, Sequences, SequencesExt

CONSTANTS
  IniLines,      \* lines of files, with what the format says they mean
  Edits,         \* entries and values that iniparser_set is given
  Lower,         \* tolower, for the characters that it changes
  LINESZ,        \* ASCIILINESZ
  ItemLen,       \* CONF_ITEM_LEN
  KeyPad,        \* width of a key in a file that is written: 30
  DICTMINSZ,     \* slots of a new dictionary
  Lacks,         \* sets of the allocations, by number, that find no memory
  MaxLines,      \* bound: lines of a file
  MaxEdits       \* bound: changes of a dictionary

NL == "\n"
BackSlash == "\\"
Spaces == {" ", "\t", "\r", NL}
NoVal == <<"NULL">>
InvalidKey == <<"INI_INVALID_KEY">>
Hole == [key |-> NoVal, val |-> NoVal]
Instead(what) == <<[key |-> <<what>>, val |-> NoVal]>>
NoDict == Instead("no dictionary")
Crash == Instead("crash")
Broken == Instead("dictionary without one of its arrays")
Real(d) == d \notin {NoDict, Crash, Broken}

ASSUME IniAssumption ==
  LINESZ \in Nat /\ ItemLen \in Nat /\ KeyPad \in Nat /\ DICTMINSZ \in Nat \ {0}

VARIABLE ini    \* the file, what is below the line buffer, the dictionary

IsIn(s, C) == {i \in DOMAIN s : s[i] \in C}
FirstOf(S) == CHOOSE i \in S : \A j \in S : i <= j

(* The characters of s before the first of C.                              *)
Before(s, C) == IF IsIn(s, C) = {} THEN s ELSE SubSeq(s, 1, FirstOf(IsIn(s, C)) - 1)
From(s, i) == SubSeq(s, i, Len(s))
Clip(s, n) == SubSeq(s, 1, IF n < Len(s) THEN n ELSE Len(s))

strlwc(s) == [i \in DOMAIN s |-> IF s[i] \in DOMAIN Lower THEN Lower[s[i]] ELSE s[i]]

(* s without blanks in front of it, behind it, and both.                   *)
Dark(s) == {i \in DOMAIN s : s[i] \notin Spaces}
LTrim(s) == IF Dark(s) = {} THEN <<>> ELSE SubSeq(s, FirstOf(Dark(s)), Len(s))
RTrim(s) == IF Dark(s) = {} THEN <<>> ELSE SubSeq(s, 1, Max(Dark(s)))
strstrip(s) == LTrim(RTrim(s))

-----------------------------------------------------------------------------
(* The slots of a dictionary: see module Dictionary for the other one.     *)
SlotOf(d, k) == {i \in DOMAIN d : d[i] # Hole /\ d[i].key = k}

PutSlot(d, k, v) ==
  LET e == [key |-> k, val |-> v]
      free == IsIn(d, {Hole})
  IN IF SlotOf(d, k) # {} THEN [d EXCEPT ![FirstOf(SlotOf(d, k))] = e]
     ELSE IF free # {} THEN [d EXCEPT ![FirstOf(free)] = e]
     ELSE Append(d, e)

(* Which of the arrays val, key, hash get no memory, each in its turn.     *)
Missing(made, lacks) ==
  {a \in {"val", "key", "hash"} :
     made + (CASE a = "val" -> 1 [] a = "key" -> 2 [] a = "hash" -> 3) \in lacks}

(* The struct is the first allocation.  made: the allocations so far;      *)
(* lost: the arrays that are null pointers, which nobody looks at here.    *)
dictionary_new(lacks) ==
  [slots |-> <<>>, n |-> 0, size |-> DICTMINSZ, lacks |-> lacks, made |-> 4,
   lost |-> Missing(1, lacks), ret |-> 0]

(* xstrdup: a copy of v by the i-th allocation from now, or a null pointer,*)
(* which the callers store without a look.                                 *)
Copied(D, i, v) == IF D.made + i \in D.lacks THEN NoVal ELSE v
CopiesOf(v) == IF v = NoVal THEN 0 ELSE 1

(* An entry whose key gets no memory is not there, but counts in n.        *)
AddEntry(D, k, v) ==
  [D EXCEPT !.n = @ + 1, !.made = @ + 1 + CopiesOf(v), !.ret = 0,
            !.slots = IF D.made + 1 \in D.lacks THEN @
                      ELSE PutSlot(@, k, Copied(D, 2, v))]

(* mem_double, for each of the arrays.                                     *)
Doubled(D) ==
  LET lost == Missing(D.made, D.lacks)
  IN [D EXCEPT !.made = @ + 3, !.lost = lost, !.ret = IF lost = {} THEN 0 ELSE -1,
               !.size = IF lost = {} THEN 2 * @ ELSE @]

dictionary_set(D, k, v) ==
  IF D.lost # {} THEN [D EXCEPT !.slots = Crash, !.ret = -1]
  ELSE IF SlotOf(D.slots, k) # {}
    THEN [D EXCEPT !.slots = PutSlot(@, k, Copied(D, 1, v)),
                   !.made = @ + CopiesOf(v), !.ret = 0]
  ELSE IF D.n < D.size THEN AddEntry(D, k, v)
  ELSE IF Doubled(D).ret = -1 THEN Doubled(D)
  ELSE AddEntry(Doubled(D), k, v)

(* What is left after dictionary_del: it reads the arrays key and val.     *)
dictionary_del(D) ==
  IF D.slots = Crash \/ {"key", "val"} \cap D.lost # {} THEN Crash ELSE NoDict

dictionary_unset(D, k) ==
  IF SlotOf(D.slots, k) = {} THEN D
  ELSE [D EXCEPT !.slots[FirstOf(SlotOf(D.slots, k))] = Hole, !.n = @ - 1]

dictionary_get(d, k, def) ==
  IF SlotOf(d, k) = {} THEN def ELSE d[FirstOf(SlotOf(d, k))].val

(* The value that one of five sscanf patterns finds behind the =, quotes   *)
(* first; a key and a = are enough for the last of them.                   *)
Quoted(r, q) == r # <<>> /\ r[1] = q /\ Before(Tail(r), {q}) # <<>>

ValueOf(r) ==
  CASE Quoted(r, "\"") -> Before(Tail(r), {"\""})
    [] Quoted(r, "'") -> Before(Tail(r), {"'"})
    [] OTHER -> Before(r, {";", "#"})

Unquoted(v) == IF v \in {<<"\"", "\"">>, <<"'", "'">>} THEN <<>> ELSE v

SectionName(name, section) == strlwc(strstrip(IF name = <<>> THEN section ELSE name))

(* What a line is, and the section, or the key and the value, it sets.     *)
(* "[]" leaves the section that the buffer holds.                          *)
Scanned(line, section, eq) ==
  LET no(sta) == [sta |-> sta, name |-> section, val |-> <<>>]
  IN CASE line = <<>> -> no("EMPTY")
       [] line # <<>> /\ line[1] = "#" -> no("COMMENT")
       [] line # <<>> /\ line[1] = "[" /\ Last(line) = "]" ->
            [no("SECTION") EXCEPT !.name = SectionName(Before(Tail(line), {"]"}), section)]
       [] OTHER ->
            IF eq = {} \/ line[1] = "=" THEN no("ERROR")
            ELSE [sta |-> "VALUE", name |-> strlwc(strstrip(Before(line, {"="}))),
                  val |-> Unquoted(strstrip(ValueOf(LTrim(From(line, FirstOf(eq) + 1)))))]

iniparser_line(input, section) ==
  LET line == strstrip(input) IN Scanned(line, section, IsIn(line, {"="}))

SetIn(st, k, v) ==
  LET D == dictionary_set(st.D, k, v) IN [st EXCEPT !.D = D, !.errs = D.ret]

(* Mutant of Take: a line that cannot be read is not an error.             *)
TakeLenient(st, l) ==
  CASE l.sta \in {"EMPTY", "COMMENT", "ERROR"} -> st
    [] l.sta = "SECTION" -> [SetIn(st, l.name, NoVal) EXCEPT !.section = l.name]
    [] l.sta = "VALUE" -> SetIn(st, st.section \o <<":">> \o l.name, l.val)

(* The switch of the two loops.  errs is set by every line that changes    *)
(* the dictionary, and so forgets a line that could not be read.           *)
Take(st, l) ==
  CASE l.sta \in {"EMPTY", "COMMENT"} -> st
    [] l.sta = "SECTION" -> [SetIn(st, l.name, NoVal) EXCEPT !.section = l.name]
    [] l.sta = "VALUE" -> SetIn(st, st.section \o <<":">> \o l.name, l.val)
    [] l.sta = "ERROR" -> [st EXCEPT !.errs = @ + 1]

Start(below, lacks) ==
  [D |-> dictionary_new(lacks), section |-> <<>>, errs |-> 0, line |-> <<>>,
   last |-> 0, below |-> below, bad |-> FALSE]

(* One round of iniparser_load with the line l of the file: fgets puts it  *)
(* at line + last.  For a line of blanks the code looks at the byte below  *)
(* the buffer; if that is a backslash the next line starts there.          *)
Round(st, text, below) ==
  IF (IF text = <<>> THEN below ELSE Last(text)) = BackSlash
    THEN [st EXCEPT !.line = text, !.last = Len(text) - 1, !.below = below]
    ELSE [Take(st, iniparser_line(text, st.section)) EXCEPT
            !.line = <<>>, !.last = 0, !.below = below]

LoadStep(st, l) ==
  IF st.bad \/ st.errs < 0 THEN st
  ELSE IF Last(l) # NL \/ Len(l) > LINESZ - st.last - 1 THEN [st EXCEPT !.bad = TRUE]
  ELSE Round(st, RTrim(IF st.last < 0 THEN Tail(l) ELSE SubSeq(st.line, 1, st.last) \o l),
             IF st.last < 0 THEN l[1] ELSE st.below)

(* The slots of what the loaders return.                                   *)
Left(st) ==
  CASE 1 \in st.D.lacks -> NoDict
    [] 1 \notin st.D.lacks /\ (st.bad \/ st.errs # 0) -> dictionary_del(st.D)
    [] OTHER -> IF st.D.lost # {} THEN Broken ELSE st.D.slots

Result(st) == [st.D EXCEPT !.slots = Left(st)]

iniparser_load(file, below, lacks) ==
  LET st == FoldLeft(LoadStep, Start(below, lacks), file) IN Result(st)

(* How many characters getnstr takes of s for a buffer of n, 0 if their    *)
(* line does not fit it; the NUL at the end counts.                        *)
getnstr(s, n) ==
  LET ends == IsIn(s, {"\r", NL})
      i == IF ends = {} THEN Len(s) + 1 ELSE FirstOf(ends)
      j == IF i < Len(s) /\ s[i] = "\r" /\ s[i + 1] = NL /\ i < n THEN i + 1 ELSE i
  IN IF i > n THEN 0 ELSE IF j = n THEN j - 1 ELSE j

(* The loop of iniparser_load_mem.  It looks for a backslash behind the    *)
(* end of the line, and so never joins two lines.                          *)
RECURSIVE MemLoop(_, _)
MemLoop(st, text) ==
  LET r == getnstr(text, LINESZ)
  IN IF r = 0 \/ text = <<>> \/ st.errs < 0 THEN st
     ELSE MemLoop(Take(st, iniparser_line(Clip(text, r), st.section)),
                  From(text, r + 1))

iniparser_load_mem(file, lacks) ==
  Result(MemLoop(Start("x", lacks), FlattenSeq(file)))

-----------------------------------------------------------------------------
iniparser_getstring(d, k, def) ==
  IF d = NoDict THEN def ELSE dictionary_get(d, strlwc(k), def)

(* strtol reads the numbers of the files; anything else is 0.              *)
strtol(s) == CASE s = <<"1">> -> 1
               [] s = <<"-", "1">> -> -1
               [] OTHER -> 0

(* A section's value is a null pointer, which the code does not expect.    *)
iniparser_getint(d, k, notfound) ==
  LET s == iniparser_getstring(d, k, InvalidKey)
  IN CASE s = InvalidKey -> notfound
       [] s = NoVal -> "crash"
       [] OTHER -> strtol(s)

(* atof: the values here have no fraction.                                 *)
iniparser_getdouble(d, k, notfound) ==
  LET s == iniparser_getstring(d, k, InvalidKey)
  IN CASE s = InvalidKey -> notfound
       [] s = NoVal -> "crash"
       [] OTHER -> strtol(s)

iniparser_getboolean(d, k, notfound) ==
  LET s == iniparser_getstring(d, k, InvalidKey)
      begins(C) == s # <<>> /\ s[1] \in C
  IN CASE s = InvalidKey -> notfound
       [] s = NoVal -> "crash"
       [] begins({"y", "Y", "1", "t", "T"}) -> 1
       [] begins({"n", "N", "0", "f", "F"}) -> 0
       [] OTHER -> notfound

iniparser_find_entry(d, k) == iniparser_getstring(d, k, InvalidKey) # InvalidKey

iniparser_set(D, k, v) == dictionary_set(D, strlwc(k), v)
iniparser_unset(D, k) == dictionary_unset(D, strlwc(k))

(* Sections are the keys without a colon, in the order of their slots.     *)
iniparser_getsecname(d) ==
  LET secs == SelectSeq(d, LAMBDA e : e # Hole /\ IsIn(e.key, {":"}) = {})
  IN [n \in DOMAIN secs |-> secs[n].key]

iniparser_getnsec(d) == Len(iniparser_getsecname(d))

(* The entries that iniparser_dump prints, UNDEF for a null pointer.       *)
iniparser_dump(d) ==
  LET entries == SelectSeq(d, LAMBDA e : e # Hole)
  IN [i \in DOMAIN entries |->
        [entries[i] EXCEPT !.val = IF @ = NoVal THEN <<"UNDEF">> ELSE @]]

Padded(k) == k \o [i \in 1 .. (IF Len(k) < KeyPad THEN KeyPad - Len(k) ELSE 0) |-> " "]
Printed(v) == IF v = NoVal THEN <<>> ELSE v

KeyIn(s, k) == From(k, Len(s) + 2)

(* The lines that iniparser_dump_ini writes.                               *)
iniparser_dump_ini(d) ==
  LET entries == SelectSeq(d, LAMBDA e : e # Hole)
      line(k, v) == k \o <<" ", "=", " ">> \o Printed(v) \o <<NL>>
      of(s) == SelectSeq(entries, LAMBDA e : IsPrefix(s \o <<":">>, e.key))
      part(s) == << <<NL>>, <<"[">> \o s \o <<"]", NL>> >>
                 \o [i \in DOMAIN of(s) |->
                       line(Padded(KeyIn(s, of(s)[i].key)), of(s)[i].val)]
      secs == iniparser_getsecname(d)
  IN IF iniparser_getnsec(d) < 1
       THEN [i \in DOMAIN entries |-> line(entries[i].key, entries[i].val)]
       ELSE FlattenSeq([n \in DOMAIN secs |-> part(secs[n])]) \o << <<NL>> >>

(* The name that is asked for is cut to fit its buffer, and so is the      *)
(* value.  -1 is no value.                                                 *)
ItemName(mod, name) == Clip(mod \o <<":">> \o name, ItemLen - 1)

(* vars: an integer and a string variable for each name.                   *)
parse_conf_file(d, mod, vars) ==
  [name \in DOMAIN vars |->
     LET i == iniparser_getint(d, ItemName(mod, name), -1)
         s == iniparser_getstring(d, ItemName(mod, name), NoVal)
     IN [int |-> IF i # -1 THEN i ELSE vars[name].int,
         str |-> IF s # NoVal THEN Clip(s, ItemLen) ELSE vars[name].str]]

(* load_conf and load_conf_mem.                                            *)
load_conf(d, mod, vars) ==
  IF d = NoDict THEN [ret |-> -1, vars |-> vars]
  ELSE [ret |-> 0, vars |-> parse_conf_file(d, mod, vars)]

-----------------------------------------------------------------------------
(* D: the dictionary, of which the slots count as Broken when an array is  *)
(* gone: a model of a program that uses it then ends there.                *)
IniInit ==
  \E b \in {"x", BackSlash}, lacks \in Lacks :
    /\ b = "x" \/ lacks = {}
    /\ ini = [file |-> <<>>, below |-> b, D |-> Result(Start(b, lacks)), edits |-> 0]

IniLine(l) ==
  LET file == Append(ini.file, l)
      text == [i \in DOMAIN file |-> file[i].text]
  IN /\ Len(ini.file) < MaxLines /\ ini.edits = 0
     /\ ini.file # <<>> => Last(Last(ini.file).text) = NL
     /\ ini' = [ini EXCEPT !.file = file,
                           !.D = iniparser_load(text, ini.below, ini.D.lacks)]

Editing == Real(ini.D.slots) /\ ini.edits < MaxEdits

IniSet(k, v) ==
  /\ Editing
  /\ \E D \in {iniparser_set(ini.D, k, v)} :
       ini' = [ini EXCEPT !.D = IF D.lost # {} THEN [D EXCEPT !.slots = Broken] ELSE D,
                          !.edits = @ + 1]

IniUnset(k) ==
  /\ Editing
  /\ ini' = [ini EXCEPT !.D = iniparser_unset(@, k), !.edits = @ + 1]

IniNext ==
  \/ \E l \in IniLines : IniLine(l)
  \/ \E e \in Edits : IniSet(e.key, e.val) \/ IniUnset(e.key)
-----------------------------------------------------------------------------
(* What a file means, line by line: w.  A line that ends in a backslash is *)
(* continued by the next; others have the meaning their format gives them. *)
Texts == [i \in DOMAIN ini.file |-> ini.file[i].text]

(* The lines from which line i is put together, and their text.            *)
FirstPart(i) == FirstOf({m \in 1 .. i : \A l \in m .. i - 1 : ini.file[l].sta = "MORE"})
JoinedText(j, i) ==
  FlattenSeq([m \in 1 .. i - j + 1 |->
                IF j + m - 1 = i THEN Texts[i] ELSE Front(Front(Texts[j + m - 1]))])

Whole(i, text) ==
  IF ini.file[i].sta = "MORE" \/ text = ini.file[i].text
    THEN [ini.file[i] EXCEPT !.text = text]
    ELSE iniparser_line(text, <<"old">>) @@ [text |-> text]

Wholes == [i \in DOMAIN ini.file |-> Whole(i, JoinedText(FirstPart(i), i))]

(* The section that line i is in, and the key that it sets.                *)
Sections(w, i) == {j \in 1 .. i : w[j].sta = "SECTION" /\ w[j].name # <<"old">>}
SectionAt(w, i) == IF Sections(w, i) = {} THEN <<>> ELSE w[Max(Sections(w, i))].name
KeyAt(w, i) == SectionAt(w, i) \o <<":">> \o w[i].name

Of(w, sta) == {i \in DOMAIN w : w[i].sta = sta}
Setting(w) == Of(w, "SECTION") \cup Of(w, "VALUE")
Stays == ini.below # BackSlash

(* The last line that is not blank or a comment could not be read.         *)
EndsInError(w) == \E i \in Of(w, "ERROR") : \A j \in Setting(w) \cup Of(w, "ERROR") : j <= i
Readable(w) == \A i \in DOMAIN w : Last(w[i].text) = NL /\ Len(w[i].text) < LINESZ

(* The value that the file gives to a key: that of its last line for it.   *)
Given(w, k) ==
  LET at == {i \in Of(w, "VALUE") : KeyAt(w, i) = k}
  IN IF at = {} THEN NoVal ELSE w[Max(at)].val

Slots == ini.D.slots
Lacking == ini.D.lacks
Faulty(w) == ~ Readable(w) \/ EndsInError(w)

(* The entries of d that lack the value they should have.                  *)
Emptied(d, w) == {i \in DOMAIN d : d[i].val = NoVal /\ Given(w, d[i].key) # NoVal}

Holds(d, w, keys) ==
  /\ d = NoDict => Faulty(w) \/ Lacking # {}
  /\ d \in {Crash, Broken} => Lacking # {}
  /\ Real(d) =>
       /\ ~ Faulty(w)
       /\ {d[i].key : i \in DOMAIN d} \subseteq keys
       /\ \A i, j \in DOMAIN d : d[i].key = d[j].key => i = j
       /\ \A i \in DOMAIN d : d[i].val \in {Given(w, d[i].key), NoVal}
       /\ Cardinality(keys) - Len(d) + Cardinality(Emptied(d, w)) <= Cardinality(Lacking)

(* Reading a file gives every key the value of the last line for it, in    *)
(* the section of the last line that names one, continuation lines joined, *)
(* and nothing else; there is no dictionary if a line is too long or does  *)
(* not end, or if the last line that says something cannot be read; an     *)
(* earlier error is forgotten.  Each allocation that fails may cost an     *)
(* entry or its value, never another's, and nobody is told; only if arrays *)
(* get no memory is there no dictionary, one that cannot be used, or a     *)
(* crash in dictionary_set or dictionary_del.  All this if the byte below  *)
(* the line buffer is not a backslash.                                     *)
LoadMeans ==
  Stays /\ ini.edits = 0 =>
    \A w \in {Wholes} :
      Holds(Slots, w, {KeyAt(w, i) : i \in Of(w, "VALUE")}
                      \cup {SectionAt(w, i) : i \in Of(w, "SECTION")})

(* Memory and file give the same dictionary, unless a line is continued.   *)
(* A last line without a newline is read from memory only; at a line that  *)
(* is too long memory ends, without an error.                              *)
MemAgrees ==
  LET long == {i \in DOMAIN ini.file : Len(Texts[i]) > LINESZ}
      n == IF long = {} THEN Len(ini.file) ELSE FirstOf(long) - 1
      ended == [i \in 1 .. n |-> IF Last(Texts[i]) = NL THEN Texts[i]
                                 ELSE Append(Texts[i], NL)]
  IN (\A i \in DOMAIN ini.file : ini.file[i].sta # "MORE" /\ Len(Texts[i]) # LINESZ)
       => iniparser_load_mem(Texts, Lacking) = iniparser_load(ended, "x", Lacking)

(* A dictionary that dump_ini can write: every key belongs to a section    *)
(* that is there, and no value needs quotes.                               *)
PlainDict(d) ==
  \A i \in DOMAIN d : d[i] # Hole =>
    LET k == d[i].key
        colon == IsIn(k, {":"})
    IN /\ colon = {} => k # <<>> /\ d[i].val = NoVal
       /\ colon # {} => /\ FirstOf(colon) > 1
                        /\ iniparser_find_entry(d, SubSeq(k, 1, FirstOf(colon) - 1))
       /\ IsIn(d[i].val, {";", "#", "'", "\"", BackSlash}) = {}

AsMap(d) == {d[i] : i \in DOMAIN d \ IsIn(d, {Hole})}

(* What dump_ini writes of a plain dictionary, whatever was set and        *)
(* deleted in it, loads as the same dictionary, if its lines, with their   *)
(* keys padded, fit the line buffer.                                       *)
Loads(d, file) ==
  (\A i \in DOMAIN file : Len(file[i]) < LINESZ) =>
     \A back \in {iniparser_load(file, "x", {}).slots} :
       /\ back # NoDict
       /\ AsMap(back) = {IF e.val = NoVal /\ IsIn(e.key, {":"}) # {}
                           THEN [e EXCEPT !.val = <<>>] ELSE e : e \in AsMap(d)}

DumpLoads ==
  Real(Slots) /\ PlainDict(Slots) => Loads(Slots, iniparser_dump_ini(Slots))

(* load_conf gives a variable the value of the last line for it in its     *)
(* section, cut to its size; it keeps its value if there is none, and an   *)
(* integer also if the value is -1, or if the file cannot be loaded.  This *)
(* if memory is there; for what a lack of it does see LoadMeans.           *)
ConfVars == [name \in {<<"k">>} |-> [int |-> 7, str |-> <<"d">>]]
ConfMod == <<"S">>

ConfRead ==
  Stays /\ ini.edits = 0 /\ Lacking = {} =>
    \A r \in {load_conf(Slots, ConfMod, ConfVars)}, v \in {Given(Wholes, <<"s", ":", "k">>)} :
      /\ r.ret = IF Slots = NoDict THEN -1 ELSE 0
      /\ r.vars[<<"k">>].str = IF r.ret = 0 /\ v # NoVal THEN Clip(v, ItemLen) ELSE <<"d">>
      /\ r.vars[<<"k">>].int =
           IF r.ret = 0 /\ v \notin {NoVal, <<"-", "1">>} THEN strtol(v) ELSE 7

(* Whatever was loaded, set and deleted, the questions agree: an entry is  *)
(* found under its name in any case exactly if iniparser_dump lists it,    *)
(* once and with its value; one that is not found has the default for a    *)
(* number and a truth value, and one that is 1 as a number is true.        *)
AnswersAgree ==
  Real(Slots) =>
    \A d \in {Slots}, listed \in {iniparser_dump(Slots)} :
      /\ \A i \in DOMAIN listed : listed[i].val # <<"UNDEF">> =>
           iniparser_getstring(d, listed[i].key, InvalidKey) = listed[i].val
      /\ Cardinality({listed[i].key : i \in DOMAIN listed}) = Len(listed)
      /\ \A e \in Edits :
           LET found == \E i \in DOMAIN listed : listed[i].key = strlwc(e.key)
               empty == iniparser_getstring(d, e.key, InvalidKey) = NoVal
               int == iniparser_getint(d, e.key, 7)
               bool == iniparser_getboolean(d, e.key, 7)
           IN /\ found <=> iniparser_find_entry(d, e.key)
              /\ ~ found => int = 7 /\ bool = 7 /\ iniparser_getdouble(d, e.key, 7) = 7
              /\ found /\ ~ empty => /\ int = iniparser_getdouble(d, e.key, 7)
                                     /\ int = 1 => bool = 1

(* The loaders, iniparser_dump_ini and load_conf agree on what an ini file *)
(* means, and the questions about it on what was loaded.                   *)
IniCorrect ==
  /\ LoadMeans
  /\ MemAgrees
  /\ DumpLoads
  /\ ConfRead
  /\ AnswersAgree
=============================================================================
