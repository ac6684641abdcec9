------------------------------ MODULE MCCodecs ------------------------------
(***************************************************************************)
(* Inputs for Codecs.  With kMaxInlineLength 6 and kMaxHeaderLength 4 a    *)
(* line of a few bytes is at, below or above its limit.                    *)
(***************************************************************************)
EXTENDS Codecs

a == 97
Ended(line) == line \o kCrlf

Items ==
    {encode(<<<<a>>>>), encode(<<kCrlf, <<Star>>>>), encode(<<<<>>>>),
     Ended(<<Star, 48>>), Ended(<<Star, Minus, 49>>), Ended(<<Star, 48, 48, 49>>),
     Ended(<<Star, 51>>), Ended(<<Star, a>>), Ended(<<Star>>),
     Ended(<<Star, 49>>) \o Ended(<<Dollar, 57>>),
     Ended(<<Star, 49>>) \o Ended(<<Dollar, 49>>) \o <<a, a, a>>,
     Ended(<<Star, 49>>) \o <<a>>,
     Ended(<<a, 32, 32, a>>), Ended(<<32>>), Ended(<<>>),
     Ended(<<a, a, a, a, a, a>>), Ended(<<a, a, a, a, a, a, a>>),
     <<CR, CR>>}

MCStreams ==
    {FlattenSeq(s) : s \in Texts(Items, 2)}
        \cup {FlattenSeq(<<encode(<<<<a>>>>), i, j, Ended(<<a, 32, a>>)>>) :
                  i \in Items, j \in Items}

Strings == {<<>>, <<1>>, <<15, 0, 0, 0, 0, 0, 0>>}
Rec(k, v, e) == [key |-> k, value |-> v, expire_at |-> e]

\* The last snapshot is one whose checksum happens to be zero.
MCSnapshots ==
    {<<>>}
    \cup {<<Rec(k, v, e)>> : k \in Strings, v \in Strings, e \in {-1, 9}}
    \cup {<<Rec(<<1>>, <<>>, e)>> : e \in {0, -8388608, 8388607}}
    \cup {<<Rec(<<1>>, v, e), Rec(<<2>>, <<3>>, f)>> :
              v \in Strings, e \in {-1, 9}, f \in {-1, 9}}
    \cup {<<Rec(<<1>>, <<3, 0, 5, 13, 12, 8>>, -1)>>}

MCAmounts == {-127, -126, -14, -13, -12, -1, 0, 1, 2, 11, 12, 13, 14, 108, 123, 126, 127}
MCClocks == {5, 20}
MCLengths == (0..70) \cup (4090..4100) \cup {65535, 16777215}
=============================================================================
