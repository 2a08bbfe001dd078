---------------------------- MODULE MC_Libraries ----------------------------
(* The libraries of c/libgs that keep their state in memory.  They share   *)
(* nothing, so each is checked alone: part says which one a behaviour runs *)
(* and the others stay in their first state.  Two keys of the hash table   *)
(* share a bucket of the smaller table, and again of the larger one.       *)
EXTENDS Mfile, Base64, Utf8str, Stralloc, IniParser, Ctcrypt, Hashmap

CONSTANTS k1, k2, k3, k4

VARIABLE part

MCKey   == {k1, k2, k3, k4}
MCHash  == [k \in MCKey |->
              CASE k = k1 -> 0 [] k = k2 -> 15 [] k = k3 -> 3 [] OTHER -> 5]
MCSizes == <<1, 3, 5>>

(* Lengths that fit in the pool, that need malloc, and that make the size  *)
(* of a string wrap around.                                                *)
MCPieces == {[i \in 1 .. p[1] |-> p[2]] :
               p \in {<<0, "a">>, <<1, "a">>, <<3, "b">>, <<50, "c">>, <<63, "e">>}}

(* Lines of an ini file with what they mean: sections, values with quotes, *)
(* comments and blanks, an error, a line that goes on, one without its end *)
(* and one that is longer than the buffer.                                 *)
Line(t, s, n, v) == [text |-> t, sta |-> s, name |-> n, val |-> v]
Sixteen == [i \in 1 .. 16 |-> "w"]

MCLines ==
  { Line(<<"[", "s", "]", NL>>, "SECTION", <<"s">>, <<>>),
    Line(<<" ", "[", " ", "T", " ", "]", " ", NL>>, "SECTION", <<"t">>, <<>>),
    Line(<<"[", "]", NL>>, "SECTION", <<"old">>, <<>>),
    Line(<<"k", "=", "v", NL>>, "VALUE", <<"k">>, <<"v">>),
    Line(<<"K", " ", "=", " ", "'", "x", ";", "y", "z", "'", "#", "c", NL>>,
         "VALUE", <<"k">>, <<"x", ";", "y", "z">>),
    Line(<<"k", "=", ";", NL>>, "VALUE", <<"k">>, <<>>),
    Line(<<"k", "=", "\"", "\"", NL>>, "VALUE", <<"k">>, <<>>),
    Line(<<"k", "=", "1", "#", NL>>, "VALUE", <<"k">>, <<"1">>),
    Line(<<"k", "=", "-", "1", NL>>, "VALUE", <<"k">>, <<"-", "1">>),
    Line(<<"#", "k", "=", "v", NL>>, "COMMENT", <<>>, <<>>),
    Line(<<" ", NL>>, "EMPTY", <<>>, <<>>),
    Line(<<"k", NL>>, "ERROR", <<>>, <<>>),
    Line(<<"j", "=", "v", BackSlash, NL>>, "MORE", <<>>, <<>>),
    Line(<<"j", "=", "w">>, "VALUE", <<"j">>, <<"w">>),
    Line(<<"j", "=">> \o Sixteen \o <<NL>>, "VALUE", <<"j">>, Sixteen) }

MCEdits == {[key |-> <<"S", ":", "K">>, val |-> <<"w">>],
            [key |-> <<"t">>, val |-> NoVal],
            [key |-> <<"t", ":", "j">>, val |-> <<"a", " ", "b">>]}
MCLacks == {{}, {1}, {3}, {4}, {8}, {5, 9}, {6, 10}, {6, 11}}
MCLower == ("K" :> "k") @@ ("S" :> "s") @@ ("T" :> "t")

-----------------------------------------------------------------------------
LibVars == <<part, mfileVars, base64Vars, ustr, strallocVars, ini, crypt, vars>>

LibInit ==
  /\ part \in {"mfile", "base64", "utf8str", "stralloc", "iniparser", "crypt", "hashmap"}
  /\ MfileInit /\ Base64Init /\ Utf8Init /\ StrallocInit /\ IniInit /\ CryptInit /\ Init
  /\ part = "iniparser" \/ ini.below = BackSlash

LibNext ==
  /\ UNCHANGED part
  /\ \/ /\ part = "mfile" /\ MfileNext
        /\ UNCHANGED <<base64Vars, ustr, strallocVars, ini, crypt, vars>>
     \/ /\ part = "base64" /\ Base64Next
        /\ UNCHANGED <<mfileVars, ustr, strallocVars, ini, crypt, vars>>
     \/ /\ part = "utf8str" /\ Utf8Next
        /\ UNCHANGED <<mfileVars, base64Vars, strallocVars, ini, crypt, vars>>
     \/ /\ part = "stralloc" /\ StrallocNext
        /\ UNCHANGED <<mfileVars, base64Vars, ustr, ini, crypt, vars>>
     \/ /\ part = "iniparser" /\ IniNext
        /\ UNCHANGED <<mfileVars, base64Vars, ustr, strallocVars, crypt, vars>>
     \/ /\ part = "crypt" /\ CryptNext
        /\ UNCHANGED <<mfileVars, base64Vars, ustr, strallocVars, ini, vars>>
     \/ /\ part = "hashmap" /\ Next
        /\ UNCHANGED <<mfileVars, base64Vars, ustr, strallocVars, ini, crypt>>

LibSpec == LibInit /\ [][LibNext]_LibVars
=============================================================================
