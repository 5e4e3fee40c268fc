---------------------------- MODULE BTTableProofs ----------------------------
(***************************************************************************)
(* Theorems about BTTable, for every list of columns, every set of rows    *)
(* and every size of the block.                                            *)
(***************************************************************************)
EXTENDS BTTable, Minima

\* Every table has a column, as those have that get rows.  A row of no bytes would
\* break the page it is put on (DataNonEmpty in SlottedPageProofs).
HasColumns == <<>> \notin ColumnLists

RowBytes == {d \in Seq(Byte) : Len(d) \in 1 .. BLOCK_SZ}
Blocks == INSTANCE SlottedPageProofs WITH Data <- RowBytes, NoRecord <- <<>>

-----------------------------------------------------------------------------
(***************************************************************************)
(* Numbers and their bytes.                                                *)
(***************************************************************************)
LEMMA WeightsAre ==
  Weight[1] = 1 /\ Weight[2] = 256 /\ Weight[3] = 256 * 256 /\ Weight[4] = 256 * 256 * 256
BY DEF Weight

LEMMA DivMod ==
  ASSUME NEW n \in Int
  PROVE  /\ n \div 256 \in Int /\ n % 256 \in 0 .. 255
         /\ n = (256 * (n \div 256)) + (n % 256)
BY SMTT(30)

LEMMA DigitIs ==
  ASSUME NEW n \in Int, NEW k \in 1 .. 4
  PROVE  (n \div Weight[k]) % 256 \in Byte
<1>1. \A x \in Int : x % 256 \in Byte
  BY DEF Byte
<1>2. n \div Weight[k] \in Int
  BY WeightsAre
<1> QED
  BY <1>1, <1>2

LEMMA TwoDigits ==
  ASSUME NEW n \in Int
  PROVE  /\ LittleEndian(n, 2) \in Seq(Byte) /\ Len(LittleEndian(n, 2)) = 2
         /\ LittleEndian(n, 2)[1] = n % 256
         /\ LittleEndian(n, 2)[2] = (n \div 256) % 256
<1>1. LittleEndian(n, 2) = [k \in 1 .. 2 |-> (n \div Weight[k]) % 256]
  BY DEF LittleEndian
<1>2. PICK a \in Byte, b \in Byte :
        a = (n \div Weight[1]) % 256 /\ b = (n \div Weight[2]) % 256
  BY DigitIs
<1>3. LittleEndian(n, 2) = <<a, b>>
  BY <1>1, <1>2
<1>4. n \div 1 = n
  OBVIOUS
<1>5. a = n % 256 /\ b = (n \div 256) % 256
  BY <1>2, <1>4, WeightsAre
<1>6. <<a, b>> \in Seq(Byte) /\ Len(<<a, b>>) = 2 /\ <<a, b>>[1] = a /\ <<a, b>>[2] = b
  OBVIOUS
<1> QED
  BY <1>3, <1>5, <1>6

LEMMA FourDigits ==
  ASSUME NEW n \in Int
  PROVE  /\ LittleEndian(n, 4) \in Seq(Byte) /\ Len(LittleEndian(n, 4)) = 4
         /\ LittleEndian(n, 4)[1] = n % 256
         /\ LittleEndian(n, 4)[2] = (n \div 256) % 256
         /\ LittleEndian(n, 4)[3] = (n \div (256 * 256)) % 256
         /\ LittleEndian(n, 4)[4] = (n \div (256 * 256 * 256)) % 256
<1>1. LittleEndian(n, 4) = [k \in 1 .. 4 |-> (n \div Weight[k]) % 256]
  BY DEF LittleEndian
<1>2. PICK a \in Byte, b \in Byte, c \in Byte, e \in Byte :
        /\ a = (n \div Weight[1]) % 256 /\ b = (n \div Weight[2]) % 256
        /\ c = (n \div Weight[3]) % 256 /\ e = (n \div Weight[4]) % 256
  BY DigitIs
<1>3. LittleEndian(n, 4) = <<a, b, c, e>>
  BY <1>1, <1>2
<1>4. n \div 1 = n
  OBVIOUS
<1>5. /\ a = n % 256 /\ b = (n \div 256) % 256
      /\ c = (n \div (256 * 256)) % 256 /\ e = (n \div (256 * 256 * 256)) % 256
  BY <1>2, <1>4, WeightsAre
<1> QED
  BY <1>3, <1>5

LEMMA I32Is ==
  ASSUME NEW n \in I32
  PROVE  n \in Int /\ -128 * (256 * 256 * 256) <= n /\ n < 128 * (256 * 256 * 256)
<1>1. PICK w \in Int : w = Weight[4] /\ w = 256 * 256 * 256
  BY WeightsAre
<1>2. n \in (-127 * w) - w .. 127 * w + (w - 1)
  BY <1>1 DEF I32
<1>3. n \in Int /\ -128 * w <= n /\ n < 128 * w
  BY <1>2
<1> QED
  BY <1>1, <1>3

\* unmarshal reads back the 32 bits that marshal wrote, and their sign.
LEMMA IntBack ==
  ASSUME NEW n \in I32, NEW d, NEW offset,
         \A k \in 1 .. 4 : d[offset + k] = LittleEndian(n, 4)[k]
  PROVE  Int32(d, offset) = n
<1>0. n \in Int /\ -128 * (256 * 256 * 256) <= n /\ n < 128 * (256 * 256 * 256)
  BY I32Is
<1>1. PICK q1 \in Int, q2 \in Int, q3 \in Int :
        q1 = n \div 256 /\ q2 = n \div (256 * 256) /\ q3 = n \div (256 * 256 * 256)
  BY <1>0
<1>2. q2 = q1 \div 256 /\ q3 = q2 \div 256
  BY <1>0, <1>1, SMTT(30)
<1>3. PICK r1 \in Int, r2 \in Int, r3 \in Int, r4 \in Int :
        r1 = n % 256 /\ r2 = q1 % 256 /\ r3 = q2 % 256 /\ r4 = q3 % 256
  BY <1>0
<1>4. n = 256 * q1 + r1 /\ q1 = 256 * q2 + r2 /\ q2 = 256 * q3 + r3
  BY <1>0, <1>1, <1>2, <1>3, DivMod
<1>5. -128 <= q3 /\ q3 < 128
  <2>1. r1 \in 0 .. 255 /\ r2 \in 0 .. 255 /\ r3 \in 0 .. 255
    BY <1>0, <1>3, DivMod
  <2>2. n = 256 * 256 * 256 * q3 + (256 * 256 * r3 + (256 * r2 + r1))
    BY <1>4
  <2> QED
    BY <1>0, <2>1, <2>2
<1>6. q3 = IF r4 < 128 THEN r4 ELSE r4 - 256
  BY <1>3, <1>5, SMTT(30)
<1>7. d[offset + 1] = r1 /\ d[offset + 2] = r2 /\ d[offset + 3] = r3 /\ d[offset + 4] = r4
  <2>1. /\ LittleEndian(n, 4)[1] = r1 /\ LittleEndian(n, 4)[2] = r2
        /\ LittleEndian(n, 4)[3] = r3 /\ LittleEndian(n, 4)[4] = r4
    BY <1>0, <1>1, <1>3, FourDigits
  <2> QED
    BY <2>1
<1>8. Int32(d, offset) = ((q3 * 256 + r3) * 256 + r2) * 256 + r1
  BY <1>6, <1>7 DEF Int32
<1> QED
  BY <1>4, <1>8

LEMMA SizeBack ==
  ASSUME NEW n \in 0 .. 256 * 256 - 1, NEW d, NEW offset,
         \A k \in 1 .. 2 : d[offset + k] = LittleEndian(n, 2)[k]
  PROVE  TextSize(d, offset) = n
<1>0. n \in Int /\ 0 <= n /\ n < 256 * 256
  OBVIOUS
<1>1. PICK q \in Int, r \in Int : q = n \div 256 /\ r = n % 256
  BY <1>0
<1>2. n = 256 * q + r /\ q \in 0 .. 255
  <2>1. n = 256 * q + r /\ r \in 0 .. 255
    BY <1>0, <1>1, DivMod
  <2> QED
    BY <1>0, <2>1
<1>3. q % 256 = q
  BY <1>2, SMTT(30)
<1>4. LittleEndian(n, 2)[1] = r /\ LittleEndian(n, 2)[2] = q
  BY <1>0, <1>1, <1>3, TwoDigits
<1>5. d[offset + 1] = r /\ d[offset + 2] = q
  BY <1>4
<1> QED
  BY <1>2, <1>5 DEF TextSize

-----------------------------------------------------------------------------
(***************************************************************************)
(* A row's bytes: where each column's are, and what is read there.         *)
(***************************************************************************)

\* A row that validate has let through, and column i's bytes of it.
IsRow(row) == \A i \in DOMAIN columns : row[columns[i].name] \in Value
Bytes(row, i) == FieldBytes(columns[i].data_type, row[columns[i].name])

LEMMA ColumnsAre ==
  ASSUME columns \in ColumnLists
  PROVE  /\ columns \in Seq(Column) /\ Len(columns) \in Nat
         /\ DOMAIN columns = 1 .. Len(columns)
         /\ \A i, j \in DOMAIN columns : columns[i].name = columns[j].name => i = j
BY TableAssumption DEF TableAssumption

LEMMA ConcatIs ==
  ASSUME NEW S, NEW s \in Seq(S), NEW t \in Seq(S)
  PROVE  /\ s \o t \in Seq(S) /\ Len(s \o t) = Len(s) + Len(t)
         /\ Len(s) \in Nat /\ Len(t) \in Nat
         /\ \A k \in 1 .. Len(s) : (s \o t)[k] = s[k]
         /\ \A k \in 1 .. Len(t) : (s \o t)[Len(s) + k] = t[k]
OBVIOUS

LEMMA ValueFacts ==
  ASSUME NEW v \in Value
  PROVE  /\ v.n \in Int /\ v.n \in I32
         /\ v.s \in Seq(Byte) /\ Len(v.s) \in Nat
<1>1. v.n \in I32 /\ v.s \in Seq(Byte)
  BY DEF Value
<1> QED
  BY <1>1, I32Is

\* A column has four bytes, or a text's bytes and two for their number.
LEMMA IntBytes ==
  ASSUME NEW v \in Value
  PROVE  /\ FieldBytes("INT", v) = LittleEndian(v.n, 4)
         /\ FieldBytes("INT", v) \in Seq(Byte) /\ Len(FieldBytes("INT", v)) = 4
<1>1. PICK n \in Int : n = v.n
  BY ValueFacts
<1>2. FieldBytes("INT", v) = LittleEndian(n, 4)
  BY <1>1 DEF FieldBytes
<1>3. LittleEndian(n, 4) \in Seq(Byte) /\ Len(LittleEndian(n, 4)) = 4
  BY FourDigits
<1> QED
  BY <1>1, <1>2, <1>3

LEMMA TextBytes ==
  ASSUME NEW v \in Value, NEW data_type, data_type # "INT"
  PROVE  LET b == FieldBytes(data_type, v)
         IN /\ b \in Seq(Byte) /\ Len(b) = 2 + Len(v.s)
            /\ \A k \in 1 .. 2 : b[k] = LittleEndian(Len(v.s), 2)[k]
            /\ \A k \in 1 .. Len(v.s) : b[2 + k] = v.s[k]
<1>1. PICK s \in Seq(Byte) : s = v.s
  BY ValueFacts
<1>2. PICK p \in Seq(Byte) : p = LittleEndian(Len(s), 2) /\ Len(p) = 2
  BY TwoDigits
<1>3. FieldBytes(data_type, v) = p \o s
  BY <1>1, <1>2 DEF FieldBytes
<1>4. /\ p \o s \in Seq(Byte) /\ Len(p \o s) = 2 + Len(s)
      /\ \A k \in 1 .. 2 : (p \o s)[k] = p[k]
      /\ \A k \in 1 .. Len(s) : (p \o s)[2 + k] = s[k]
  <2>1. Len(s) \in Nat /\ Len(p) = 2
    BY <1>2
  <2>2. /\ p \o s \in Seq(Byte) /\ Len(p \o s) = Len(p) + Len(s)
        /\ \A k \in 1 .. Len(p) : (p \o s)[k] = p[k]
    BY ConcatIs
  <2>3. \A k \in 1 .. Len(s) : (p \o s)[Len(p) + k] = s[k]
    BY ConcatIs
  <2> QED
    BY <2>1, <2>2, <2>3
<1> QED
  BY <1>1, <1>2, <1>3, <1>4

LEMMA BytesType ==
  ASSUME columns \in ColumnLists, NEW row, IsRow(row), NEW i \in DOMAIN columns
  PROVE  Bytes(row, i) \in Seq(Byte) /\ Len(Bytes(row, i)) \in Nat \ {0}
<1>1. PICK v \in Value : v = row[columns[i].name] /\ Len(v.s) \in Nat
  BY ValueFacts DEF IsRow
<1>2. CASE columns[i].data_type = "INT"
  BY <1>1, <1>2, IntBytes DEF Bytes
<1>3. CASE columns[i].data_type # "INT"
  BY <1>1, <1>3, TextBytes DEF Bytes
<1> QED
  BY <1>2, <1>3

\* f[i] is the bytes of the first i columns.
Fields(row, f, n) ==
  /\ f \in [0 .. n -> Seq(Byte)]
  /\ f[0] = <<>>
  /\ \A i \in 1 .. n : f[i] = f[i - 1] \o Bytes(row, i)

LEMMA FieldsExist ==
  ASSUME columns \in ColumnLists, NEW row, IsRow(row)
  PROVE  \E f : Fields(row, f, Len(columns))
<1> DEFINE T == {m \in Nat : m <= Len(columns) /\ ~ \E f : Fields(row, f, m)}
<1>1. SUFFICES ASSUME T # {} PROVE FALSE
  BY ColumnsAre
<1>2. PICK m \in T : \A y \in T : m <= y
  BY <1>1, Minimum
<1>3. m # 0
  <2>1. Fields(row, [i \in 0 .. 0 |-> <<>>], 0)
    BY DEF Fields
  <2> QED
    BY <2>1
<1>4. PICK f : Fields(row, f, m - 1)
  BY <1>2, <1>3, ColumnsAre
<1> DEFINE g == [i \in 0 .. m |-> IF i < m THEN f[i] ELSE f[m - 1] \o Bytes(row, m)]
<1>5. Bytes(row, m) \in Seq(Byte)
  BY <1>3, ColumnsAre, BytesType
<1>6. Fields(row, g, m)
  <2>0. m \in Nat /\ m - 1 \in Nat
    BY <1>3
  <2>1. \A i \in 0 .. m - 1 : f[i] \in Seq(Byte) /\ g[i] = f[i]
    BY <1>4, <2>0 DEF Fields
  <2>2. f[m - 1] \in Seq(Byte)
    BY <2>0, <2>1, m - 1 \in 0 .. m - 1
  <2>3. f[m - 1] \o Bytes(row, m) \in Seq(Byte)
    BY <1>5, <2>2, ConcatIs
  <2>4. g \in [0 .. m -> Seq(Byte)]
    <3>1. \A i \in 0 .. m : i < m => i \in 0 .. m - 1
      BY <2>0
    <3> QED
      BY <2>1, <2>3, <3>1
  <2>5. g[0] = <<>>
    BY <1>3, <1>4, <2>1 DEF Fields
  <2>6. ASSUME NEW i \in 1 .. m PROVE g[i] = g[i - 1] \o Bytes(row, i)
    <3>1. CASE i = m
      <4>1. g[m] = f[m - 1] \o Bytes(row, m) /\ g[m - 1] = f[m - 1]
        BY <2>0, <2>1
      <4> QED
        BY <3>1, <4>1
    <3>2. CASE i # m
      <4>1. i \in 1 .. m - 1 /\ i \in 0 .. m - 1 /\ i - 1 \in 0 .. m - 1
        BY <3>2
      <4>2. f[i] = f[i - 1] \o Bytes(row, i)
        BY <1>4, <4>1 DEF Fields
      <4> QED
        BY <2>1, <4>1, <4>2
    <3> QED
      BY <3>1, <3>2
  <2> HIDE DEF g
  <2> QED
    BY <2>4, <2>5, <2>6 DEF Fields
<1> QED
  BY <1>2, <1>6

\* marshal's loop.
LEMMA MarshalIs ==
  ASSUME columns \in ColumnLists, NEW row, IsRow(row)
  PROVE  \E f : Fields(row, f, Len(columns)) /\ marshal(row) = f[Len(columns)]
<1> DEFINE n == Len(columns)
           step(f) == [i \in 0 .. n |-> IF i = 0 THEN <<>> ELSE f[i - 1] \o Bytes(row, i)]
           g == CHOOSE f : f = step(f)
<1>1. PICK f : Fields(row, f, n)
  BY FieldsExist
<1>2. n \in Nat
  BY ColumnsAre
<1>3. f = step(f)
  BY <1>1, <1>2 DEF Fields
<1>4. g = step(g)
  BY <1>3
<1>5. marshal(row) = g[n]
  BY DEF marshal, Bytes
<1> HIDE DEF g
<1>6. g[0] = <<>> /\ \A i \in 1 .. n : g[i] = g[i - 1] \o Bytes(row, i)
  <2>1. 0 \in 0 .. n /\ \A i \in 1 .. n : i \in 0 .. n /\ i # 0
    BY <1>2
  <2>2. \A i \in 0 .. n : g[i] = step(g)[i]
    BY <1>4
  <2>3. \A i \in 0 .. n : g[i] = IF i = 0 THEN <<>> ELSE g[i - 1] \o Bytes(row, i)
    BY <2>2
  <2> QED
    BY <2>1, <2>3
<1>7. \A i \in 0 .. n : g[i] = f[i]
  <2> DEFINE T == {i \in 0 .. n : g[i] # f[i]}
  <2> SUFFICES ASSUME T # {} PROVE FALSE
    OBVIOUS
  <2>1. T \in SUBSET Nat
    BY <1>2
  <2>2. PICK i \in T : \A y \in T : i <= y
    BY <2>1, Minimum
  <2>3. i # 0
    BY <1>1, <1>6 DEF Fields
  <2>4. i \in 1 .. n /\ i - 1 \in 0 .. n
    BY <1>2, <2>3
  <2>5. g[i - 1] = f[i - 1]
    BY <2>1, <2>2, <2>4
  <2>6. g[i] = f[i]
    BY <1>1, <1>6, <2>4, <2>5 DEF Fields
  <2> QED
    BY <2>6
<1>8. g[n] = f[n]
  BY <1>2, <1>7
<1> QED
  BY <1>1, <1>5, <1>8

\* The bytes of the first columns come first.
LEMMA FieldsGrow ==
  ASSUME columns \in ColumnLists, NEW row, IsRow(row), NEW f, Fields(row, f, Len(columns)),
         NEW i \in 0 .. Len(columns), NEW j \in i .. Len(columns)
  PROVE  /\ Len(f[i]) \in Nat /\ Len(f[j]) \in Nat /\ Len(f[i]) <= Len(f[j])
         /\ \A x \in 1 .. Len(f[i]) : f[j][x] = f[i][x]
<1> DEFINE n == Len(columns)
           Begins(m) == Len(f[i]) <= Len(f[m]) /\ \A x \in 1 .. Len(f[i]) : f[m][x] = f[i][x]
           T == {m \in i .. n : ~ Begins(m)}
<1>1. n \in Nat /\ \A m \in 0 .. n : f[m] \in Seq(Byte) /\ Len(f[m]) \in Nat
  BY ColumnsAre DEF Fields
<1>2. SUFFICES ASSUME T # {} PROVE FALSE
  BY <1>1
<1>3. T \in SUBSET Nat
  BY <1>1
<1>4. PICK m \in T : \A y \in T : m <= y
  <2> HIDE DEF T
  <2> QED
    BY <1>2, <1>3, Minimum
<1>5. m # i
  BY <1>1
<1>6. m \in 1 .. n /\ m - 1 \in i .. n /\ m - 1 \in 0 .. n /\ m \in 0 .. n
  BY <1>1, <1>5
<1>7. m - 1 \notin T
  BY <1>3, <1>4, <1>6
<1>8. Begins(m - 1)
  BY <1>6, <1>7
<1>9. f[m] = f[m - 1] \o Bytes(row, m)
  BY <1>6 DEF Fields
<1>10. Bytes(row, m) \in Seq(Byte)
  BY <1>6, BytesType, ColumnsAre
<1>11. /\ Len(f[m]) = Len(f[m - 1]) + Len(Bytes(row, m)) /\ Len(Bytes(row, m)) \in Nat
       /\ \A x \in 1 .. Len(f[m - 1]) : f[m][x] = f[m - 1][x]
  BY <1>1, <1>6, <1>9, <1>10, ConcatIs
<1>12. Begins(m)
  BY <1>1, <1>6, <1>8, <1>11
<1> QED
  BY <1>12

\* off[i] is where column i's bytes start.
Layout(row, off, d) ==
  /\ off \in [DOMAIN columns -> Nat]
  /\ \A i \in DOMAIN columns :
       /\ off[i] = IF i = 1 THEN 0 ELSE off[i - 1] + Len(Bytes(row, i - 1))
       /\ off[i] + Len(Bytes(row, i)) <= Len(d)
       /\ \A k \in 1 .. Len(Bytes(row, i)) : d[off[i] + k] = Bytes(row, i)[k]

LEMMA LayoutIs ==
  ASSUME columns \in ColumnLists, NEW row, IsRow(row)
  PROVE  marshal(row) \in Seq(Byte) /\ \E off : Layout(row, off, marshal(row))
<1> DEFINE n == Len(columns)
           d == marshal(row)
<1>1. PICK f : Fields(row, f, n) /\ d = f[n]
  BY MarshalIs
<1>2. n \in Nat /\ DOMAIN columns = 1 .. n
  BY ColumnsAre
<1>3. \A i \in 0 .. n : f[i] \in Seq(Byte) /\ Len(f[i]) \in Nat
  BY <1>1, <1>2 DEF Fields
<1>4. d \in Seq(Byte)
  BY <1>1, <1>2, <1>3
<1> DEFINE off == [i \in 1 .. n |-> Len(f[i - 1])]
<1> HIDE DEF d
<1>5. ASSUME NEW i \in 1 .. n
      PROVE  /\ off[i] \in Nat
             /\ off[i] = IF i = 1 THEN 0 ELSE off[i - 1] + Len(Bytes(row, i - 1))
             /\ off[i] + Len(Bytes(row, i)) <= Len(d)
             /\ \A k \in 1 .. Len(Bytes(row, i)) : d[off[i] + k] = Bytes(row, i)[k]
  <2>1. i - 1 \in 0 .. n /\ i \in 0 .. n /\ n \in i .. n
    BY <1>2
  <2>2. off[i] = Len(f[i - 1]) /\ off[i] \in Nat
    BY <1>3, <2>1
  <2>3. Bytes(row, i) \in Seq(Byte) /\ Len(Bytes(row, i)) \in Nat
    BY <1>2, BytesType
  <2>4. f[i] = f[i - 1] \o Bytes(row, i)
    BY <1>1 DEF Fields
  <2>5. /\ Len(f[i]) = Len(f[i - 1]) + Len(Bytes(row, i))
        /\ \A k \in 1 .. Len(Bytes(row, i)) : f[i][Len(f[i - 1]) + k] = Bytes(row, i)[k]
    BY <1>3, <2>1, <2>3, <2>4, ConcatIs
  <2>6. Len(f[i]) <= Len(d) /\ \A x \in 1 .. Len(f[i]) : d[x] = f[i][x]
    BY <1>1, <2>1, FieldsGrow
  <2>7. ASSUME NEW k \in 1 .. Len(Bytes(row, i)) PROVE d[off[i] + k] = Bytes(row, i)[k]
    <3>1. Len(f[i - 1]) + k \in 1 .. Len(f[i])
      BY <2>2, <2>3, <2>5
    <3> QED
      BY <2>2, <2>5, <2>6, <3>1
  <2>8. off[i] = IF i = 1 THEN 0 ELSE off[i - 1] + Len(Bytes(row, i - 1))
    <3>1. CASE i = 1
      <4>1. f[0] = <<>>
        BY <1>1 DEF Fields
      <4> QED
        BY <2>2, <3>1, <4>1
    <3>2. CASE i # 1
      <4>1. i - 1 \in 1 .. n /\ (i - 1) - 1 \in 0 .. n /\ (i - 1) - 1 = i - 2
        BY <3>2
      <4>2. f[i - 1] = f[i - 2] \o Bytes(row, i - 1)
        BY <1>1, <4>1 DEF Fields
      <4>3. Bytes(row, i - 1) \in Seq(Byte)
        BY <1>2, <4>1, BytesType
      <4>4. Len(f[i - 1]) = Len(f[i - 2]) + Len(Bytes(row, i - 1))
        BY <1>3, <4>1, <4>2, <4>3, ConcatIs
      <4>5. off[i - 1] = Len(f[i - 2])
        BY <4>1
      <4> QED
        BY <2>2, <3>2, <4>4, <4>5
    <3> QED
      BY <3>1, <3>2
  <2>9. off[i] + Len(Bytes(row, i)) <= Len(d)
    BY <2>2, <2>5, <2>6
  <2> QED
    BY <2>2, <2>7, <2>8, <2>9
<1>6. off \in [DOMAIN columns -> Nat]
  BY <1>2, <1>5
<1> HIDE DEF off
<1>7. Layout(row, off, d)
  BY <1>2, <1>5, <1>6 DEF Layout
<1> QED
  BY <1>4, <1>7 DEF d

LEMMA SubSeqIs ==
  ASSUME NEW S, NEW d \in Seq(S), NEW t \in Seq(S), NEW offset \in Nat,
         offset + Len(t) <= Len(d), \A k \in 1 .. Len(t) : d[offset + k] = t[k]
  PROVE  SubSeq(d, offset + 1, offset + Len(t)) = t
<1> DEFINE u == SubSeq(d, offset + 1, offset + Len(t))
<1>1. Len(t) \in Nat /\ Len(d) \in Nat
  OBVIOUS
<1>2. u \in Seq(S) /\ Len(u) = Len(t)
  BY <1>1
<1>3. \A k \in 1 .. Len(t) : u[k] = d[offset + k]
  BY <1>1
<1> HIDE DEF u
<1>4. u = t
  BY <1>2, <1>3
<1> QED
  BY <1>4 DEF u

\* What unmarshal makes of a value that was marshalled into a column.
Read(data_type, v) ==
  IF data_type = "INT" THEN IntValue(v.n) ELSE [IntValue(0) EXCEPT !.s = v.s]

LEMMA FieldIs ==
  ASSUME NEW v \in Value, NEW data_type, NEW d \in Seq(Byte), NEW offset \in Nat,
         offset + Len(FieldBytes(data_type, v)) <= Len(d), Len(d) < 256 * 256,
         \A k \in 1 .. Len(FieldBytes(data_type, v)) :
           d[offset + k] = FieldBytes(data_type, v)[k]
  PROVE  /\ FieldSize(data_type, d, offset) = Len(FieldBytes(data_type, v))
         /\ Field(data_type, d, offset) = Read(data_type, v)
<1>1. CASE data_type = "INT"
  <2>1. PICK n \in I32 : n = v.n
    BY ValueFacts
  <2>2. \A k \in 1 .. 4 : d[offset + k] = LittleEndian(n, 4)[k]
    BY <1>1, <2>1, IntBytes
  <2>3. Int32(d, offset) = n
    BY <2>2, IntBack
  <2> QED
    BY <1>1, <2>1, <2>3, IntBytes DEF FieldSize, Field, Read
<1>2. CASE data_type # "INT"
  <2>1. PICK s \in Seq(Byte) : s = v.s /\ Len(s) \in Nat
    BY ValueFacts
  <2>2. PICK b \in Seq(Byte) : b = FieldBytes(data_type, v)
    BY <1>2, TextBytes
  <2>3. /\ Len(b) = 2 + Len(s)
        /\ \A k \in 1 .. 2 : b[k] = LittleEndian(Len(s), 2)[k]
        /\ \A k \in 1 .. Len(s) : b[2 + k] = s[k]
    BY <1>2, <2>1, <2>2, TextBytes
  <2>4. /\ offset + Len(b) <= Len(d) /\ Len(b) \in Nat /\ Len(d) \in Nat
        /\ \A k \in 1 .. Len(b) : d[offset + k] = b[k]
    BY <2>2
  <2>5. /\ Len(s) \in Nat /\ Len(d) \in Nat /\ offset + 2 + Len(s) <= Len(d)
        /\ Len(s) \in 0 .. 256 * 256 - 1
    <3>1. PICK ls \in Nat, lb \in Nat, ld \in Nat : ls = Len(s) /\ lb = Len(b) /\ ld = Len(d)
      BY <2>1, <2>4
    <3>2. lb = 2 + ls /\ offset + lb <= ld /\ ld < 256 * 256
      BY <2>3, <2>4, <3>1
    <3>3. offset + 2 + ls <= ld /\ ls \in 0 .. 256 * 256 - 1
      BY <3>2
    <3> QED
      BY <3>1, <3>3
  <2>6. TextSize(d, offset) = Len(s)
    <3>1. \A k \in 1 .. 2 : k \in 1 .. Len(b)
      BY <2>1, <2>3
    <3>2. \A k \in 1 .. 2 : d[offset + k] = LittleEndian(Len(s), 2)[k]
      BY <2>3, <2>4, <3>1
    <3> QED
      BY <2>5, <3>2, SizeBack
  <2>7. SubSeq(d, offset + 3, offset + 2 + Len(s)) = s
    <3>1. PICK start \in Nat : start = offset + 2
      OBVIOUS
    <3>0. start + 1 = offset + 3 /\ start + Len(s) = offset + 2 + Len(s)
      BY <2>1, <3>1
    <3>2. start + Len(s) <= Len(d)
      BY <2>5, <3>1
    <3>3. ASSUME NEW k \in 1 .. Len(s) PROVE d[start + k] = s[k]
      <4>1. 2 + k \in 1 .. Len(b) /\ start + k = offset + (2 + k)
        BY <2>1, <2>3, <3>1
      <4> QED
        BY <2>3, <2>4, <4>1
    <3>4. SubSeq(d, start + 1, start + Len(s)) = s
      BY <3>2, <3>3, SubSeqIs
    <3> QED
      BY <3>0, <3>4
  <2> QED
    BY <1>2, <2>1, <2>2, <2>3, <2>6, <2>7 DEF FieldSize, Field, Read
<1> QED
  BY <1>1, <1>2

\* unmarshal's loop finds every column where marshal's has put it.
LEMMA FieldsAreFound ==
  ASSUME columns \in ColumnLists, NEW row, IsRow(row), Len(marshal(row)) <= BLOCK_SZ,
         NEW i \in DOMAIN columns
  PROVE  Field(columns[i].data_type, marshal(row), FieldOffset(marshal(row), i))
           = Read(columns[i].data_type, row[columns[i].name])
<1>0. PICK d \in Seq(Byte) : d = marshal(row)
  BY LayoutIs
<1>1. PICK off : Layout(row, off, d)
  BY <1>0, LayoutIs
<1>2. Len(d) < 256 * 256
  <2>1. BLOCK_SZ \in 4 .. Weight[3] - 1
    BY TableAssumption DEF TableAssumption
  <2>2. BLOCK_SZ \in Int /\ BLOCK_SZ < 256 * 256
    BY <2>1, WeightsAre
  <2> QED
    BY <1>0, <2>2
<1>3. DOMAIN columns = 1 .. Len(columns) /\ Len(columns) \in Nat /\ i \in 1 .. Len(columns)
  BY ColumnsAre
<1>4. ASSUME NEW k \in DOMAIN columns
      PROVE  /\ FieldSize(columns[k].data_type, d, off[k]) = Len(Bytes(row, k))
             /\ Field(columns[k].data_type, d, off[k])
                  = Read(columns[k].data_type, row[columns[k].name])
             /\ off[k] \in Nat
             /\ off[k] = IF k = 1 THEN 0 ELSE off[k - 1] + Len(Bytes(row, k - 1))
  <2>1. PICK v \in Value : v = row[columns[k].name]
    BY DEF IsRow
  <2>2. PICK o \in Nat : o = off[k]
    BY <1>1 DEF Layout
  <2>3. /\ o + Len(FieldBytes(columns[k].data_type, v)) <= Len(d)
        /\ \A j \in 1 .. Len(FieldBytes(columns[k].data_type, v)) :
             d[o + j] = FieldBytes(columns[k].data_type, v)[j]
    BY <1>1, <2>1, <2>2 DEF Layout, Bytes
  <2>4. \A j \in 1 .. Len(FieldBytes(columns[k].data_type, v)) :
          d[o + j] = FieldBytes(columns[k].data_type, v)[j]
    BY <2>3
  <2>5. /\ FieldSize(columns[k].data_type, d, o) = Len(FieldBytes(columns[k].data_type, v))
        /\ Field(columns[k].data_type, d, o) = Read(columns[k].data_type, v)
    BY <1>2, <2>3, <2>4, FieldIs
  <2>6. o = IF k = 1 THEN 0 ELSE off[k - 1] + Len(Bytes(row, k - 1))
    BY <1>1, <2>2 DEF Layout
  <2> QED
    BY <2>1, <2>2, <2>5, <2>6 DEF Bytes
<1> DEFINE step(f) == [k \in 1 .. i |->
                         IF k = 1 THEN 0
                         ELSE f[k - 1] + FieldSize(columns[k - 1].data_type, d, f[k - 1])]
           g == CHOOSE f : f = step(f)
<1>5. \A k \in 1 .. i : k \in DOMAIN columns /\ (k # 1 => k - 1 \in DOMAIN columns
                                                    /\ k - 1 \in 1 .. i)
  BY <1>3
<1>6. \E f : f = step(f)
  <2> DEFINE h == [k \in 1 .. i |-> off[k]]
  <2>1. ASSUME NEW k \in 1 .. i PROVE h[k] = step(h)[k]
    BY <1>4, <1>5
  <2>2. h = step(h)
    BY <2>1
  <2> QED
    BY <2>2
<1>7. g = step(g)
  BY <1>6
<1>8. FieldOffset(d, i) = g[i]
  BY DEF FieldOffset
<1> HIDE DEF g
<1>9. \A k \in 1 .. i : g[k] = IF k = 1 THEN 0
                               ELSE g[k - 1] + FieldSize(columns[k - 1].data_type, d, g[k - 1])
  BY <1>7
<1>10. \A k \in 1 .. i : g[k] = off[k]
  <2> DEFINE T == {k \in 1 .. i : g[k] # off[k]}
  <2> SUFFICES ASSUME T # {} PROVE FALSE
    OBVIOUS
  <2>1. T \in SUBSET Nat
    BY <1>3
  <2>2. PICK k \in T : \A y \in T : k <= y
    BY <2>1, Minimum
  <2>3. k \in 1 .. i
    OBVIOUS
  <2>4. k # 1
    BY <1>4, <1>5, <1>9, <2>3
  <2>5. k - 1 \in 1 .. i /\ k - 1 \in DOMAIN columns /\ k \in DOMAIN columns
    BY <1>5, <2>3, <2>4
  <2>6. g[k - 1] = off[k - 1]
    BY <2>1, <2>2, <2>5
  <2>7. g[k] = off[k]
    BY <1>4, <1>9, <2>3, <2>4, <2>5, <2>6
  <2> QED
    BY <2>7
<1>11. FieldOffset(d, i) = off[i]
  BY <1>3, <1>8, <1>10
<1> QED
  BY <1>0, <1>4, <1>11

\* A row's bytes read back as what its columns keep of it, without its types.
LEMMA UnmarshalIs ==
  ASSUME columns \in ColumnLists, NEW row, IsRow(row), Len(marshal(row)) <= BLOCK_SZ
  PROVE  /\ DOMAIN unmarshal(marshal(row)) = Names
         /\ \A i \in DOMAIN columns :
              unmarshal(marshal(row))[columns[i].name]
                = Read(columns[i].data_type, row[columns[i].name])
<1>1. DOMAIN unmarshal(marshal(row)) = Names
  BY DEF unmarshal
<1>2. ASSUME NEW i \in DOMAIN columns
      PROVE  unmarshal(marshal(row))[columns[i].name]
               = Read(columns[i].data_type, row[columns[i].name])
  <2>1. columns[i].name \in Names
    BY DEF Names, NamesOf
  <2>2. (CHOOSE k \in DOMAIN columns : columns[k].name = columns[i].name) = i
    BY ColumnsAre
  <2>3. unmarshal(marshal(row))[columns[i].name]
          = Field(columns[i].data_type, marshal(row), FieldOffset(marshal(row), i))
    BY <2>1, <2>2 DEF unmarshal
  <2> QED
    BY <2>3, FieldsAreFound
<1> QED
  BY <1>1, <1>2

-----------------------------------------------------------------------------
(***************************************************************************)
(* The block is a page on which SlottedPageProofs' lemmas hold.            *)
(***************************************************************************)
LEMMA BlocksAssumptions == Blocks!PageAssumption /\ Blocks!DataNonEmpty
<1>1. BLOCK_SZ \in 4 .. Weight[3] - 1 /\ MAX_RECORDS \in Nat
  BY TableAssumption DEF TableAssumption
<1>2. BLOCK_SZ \in 4 .. Blocks!U16 - 1
  BY <1>1, WeightsAre DEF Blocks!U16
<1>3. /\ RowBytes \subseteq Seq(Byte)
      /\ \A d \in RowBytes : Len(d) > 0 /\ Len(d) <= BLOCK_SZ
      /\ <<>> \notin RowBytes
  BY <1>1 DEF RowBytes
<1> QED
  BY <1>1, <1>2, <1>3 DEF Blocks!PageAssumption, Blocks!DataNonEmpty

LEMMA BlocksBridge ==
  /\ Page!RecordID = Blocks!RecordID /\ Page!ids = Blocks!ids
  /\ \A id : (Page!Live(id) <=> Blocks!Live(id)) /\ Page!Payload(id) = Blocks!Payload(id)
  /\ Page!Init => Blocks!Init
  /\ Blocks!TypeOK => Page!TypeOK
  /\ Page!U16 = Blocks!U16 /\ Page!Offset = Blocks!Offset
BY DEF Page!RecordID, Blocks!RecordID, Page!ids, Blocks!ids, Page!Live, Blocks!Live,
       Page!Payload, Blocks!Payload, Page!Init, Blocks!Init, Page!TypeOK, Blocks!TypeOK,
       Page!U16, Blocks!U16, Page!Offset, Blocks!Offset, Page!Slot, Blocks!Slot

LEMMA AddBridge ==
  ASSUME NEW d, Page!Add(d)
  PROVE  Blocks!Add(d)
BY BlocksBridge DEF Page!Add, Blocks!Add, Page!has_room, Blocks!has_room, Page!SlotsEnd,
       Blocks!SlotsEnd, Page!Write, Blocks!Write

LEMMA DelBridge ==
  ASSUME NEW id, Page!Del(id)
  PROVE  Blocks!Del(id)
BY BlocksBridge DEF Page!Del, Blocks!Del, Page!SlideBytes, Blocks!SlideBytes,
       Page!SlideSlots, Blocks!SlideSlots

\* The records of T are live or not as they were, and hold what they held.
Keep(T) ==
  \A i \in T : /\ Page!Live(i)' <=> Page!Live(i)
               /\ Page!Live(i) => Page!Payload(i)' = Page!Payload(i)

LEMMA PageAdd ==
  ASSUME Blocks!IInv, NEW d \in RowBytes, Page!Add(d)
  PROVE  /\ Blocks!IInv' /\ ~overrun
         /\ num_records \in Nat /\ num_records' = num_records + 1
         /\ ~overrun' =>
              /\ Keep(1 .. num_records)
              /\ \A n : n = num_records + 1 => Page!Live(n)' /\ Page!Payload(n)' = d
<1>1. Blocks!Add(d)
  BY AddBridge
<1>2. Blocks!IInv'
  BY <1>1, BlocksAssumptions, Blocks!AddInv
<1>3. num_records \in Nat /\ num_records' = num_records + 1 /\ ~overrun
  BY <1>1 DEF Blocks!Add, Blocks!IInv, Blocks!TypeOK
<1>4. ASSUME ~overrun'
      PROVE  /\ Keep(1 .. num_records)
             /\ \A n : n = num_records + 1 => Page!Live(n)' /\ Page!Payload(n)' = d
  <2>1. \A i \in Blocks!RecordID : /\ Blocks!Live(i)' <=> Blocks!Live(i)
                                   /\ Blocks!Held(i)' = Blocks!Held(i)
    BY <1>1, <1>4, BlocksAssumptions, Blocks!AddHolds
  <2>2. /\ Blocks!RecordID' = Blocks!RecordID \union {num_records + 1}
        /\ \A i \in Blocks!RecordID' \ Blocks!RecordID :
             Blocks!Live(i)' /\ Blocks!Held(i)' = d
        /\ Blocks!RecordID = 1 .. num_records
    BY <1>1, <1>4, BlocksAssumptions, Blocks!AddHolds DEF Blocks!RecordID
  <2>3. Keep(1 .. num_records)
    BY <2>1 DEF Keep, Blocks!RecordID, Blocks!Held, Page!Live, Blocks!Live, Page!Payload,
                Blocks!Payload
  <2>4. ASSUME NEW n, n = num_records + 1 PROVE Page!Live(n)' /\ Page!Payload(n)' = d
    <3>1. n \in Blocks!RecordID' \ Blocks!RecordID
      BY <1>3, <2>2, <2>4
    <3>2. Blocks!Live(n)' /\ Blocks!Held(n)' = d
      BY <2>2, <3>1
    <3> QED
      BY <3>2 DEF Blocks!Held, Page!Live, Blocks!Live, Page!Payload, Blocks!Payload
  <2> QED
    BY <2>3, <2>4
<1> QED
  BY <1>2, <1>3, <1>4

LEMMA PageDel ==
  ASSUME Blocks!IInv, NEW id \in 1 .. num_records, Page!Del(id)
  PROVE  /\ Blocks!IInv' /\ ~overrun /\ ~overrun'
         /\ num_records \in Nat /\ num_records' = num_records
         /\ ~Page!Live(id)' /\ Keep(1 .. num_records \ {id})
<1>1. Blocks!Del(id) /\ Blocks!RecordID = 1 .. num_records
  BY DelBridge DEF Blocks!RecordID
<1>2. /\ ~overrun /\ ~overrun' /\ num_records' = num_records
      /\ ~Blocks!Live(id)'
      /\ \A i \in 1 .. num_records \ {id} : /\ Blocks!Live(i)' <=> Blocks!Live(i)
                                            /\ Blocks!Held(i)' = Blocks!Held(i)
  BY <1>1, BlocksAssumptions, Blocks!DelHolds
<1>3. Blocks!IInv'
  <2>1. header[id].size \in Int
    <3>1. header[id] \in Blocks!Slot
      BY <1>1 DEF Blocks!IInv, Blocks!TypeOK
    <3> QED
      BY <3>1, BlocksAssumptions, Blocks!SlotFacts, Blocks!U16Type
  <2> QED
    BY <1>1, <2>1, BlocksAssumptions, Blocks!DelResized, Blocks!ResizeInv
<1>4. num_records \in Nat
  BY DEF Blocks!IInv, Blocks!TypeOK
<1>5. ~Page!Live(id)' /\ Keep(1 .. num_records \ {id})
  BY <1>2 DEF Keep, Blocks!Held, Page!Live, Blocks!Live, Page!Payload, Blocks!Payload
<1> QED
  BY <1>2, <1>3, <1>4, <1>5

-----------------------------------------------------------------------------
(***************************************************************************)
(* The inductive invariant.                                                *)
(***************************************************************************)

\* Every live record holds the bytes of the row that was given with it.
RowsStored ==
  /\ given \in Seq([Names -> Value]) /\ Len(given) = num_records
  /\ \A id \in DOMAIN given : Len(marshal(given[id])) <= BLOCK_SZ
  /\ ~overrun => \A id \in DOMAIN given : Page!Live(id) => Page!Payload(id) = marshal(given[id])

IInv ==
  /\ Blocks!IInv
  /\ columns \in ColumnLists /\ overflow \in BOOLEAN
  /\ RowsStored

LEMMA InitInv == Init => IInv
<1> SUFFICES ASSUME Init PROVE IInv
  OBVIOUS
<1>1. Blocks!IInv
  BY BlocksAssumptions, BlocksBridge, Blocks!InitInv DEF Init
<1>2. given = <<>> /\ num_records = 0 /\ columns \in ColumnLists /\ overflow = FALSE
  BY DEF Init, Page!Init
<1>3. RowsStored
  BY <1>2 DEF RowsStored
<1> QED
  BY <1>1, <1>2, <1>3 DEF IInv

\* What validate lets through.
LEMMA ValidRow ==
  ASSUME columns \in ColumnLists, NEW row \in Inputs, Names \subseteq DOMAIN row
  PROVE  validate(row) \in [Names -> Value] /\ IsRow(validate(row))
<1>1. \A c \in Names : row[c] \in Value
  BY TableAssumption DEF TableAssumption
<1>2. \A i \in DOMAIN columns : columns[i].name \in Names
  BY DEF Names, NamesOf
<1> QED
  BY <1>1, <1>2 DEF validate, IsRow

LEMMA RowsAreRows ==
  ASSUME NEW row \in [Names -> Value]
  PROVE  IsRow(row)
BY DEF IsRow, Names, NamesOf

\* A row has bytes, since it has a column.
LEMMA RowHasBytes ==
  ASSUME HasColumns, columns \in ColumnLists, NEW row, IsRow(row), Len(marshal(row)) <= BLOCK_SZ
  PROVE  marshal(row) \in RowBytes
<1>1. PICK d \in Seq(Byte) : d = marshal(row)
  BY LayoutIs
<1>2. PICK off : Layout(row, off, d)
  BY <1>1, LayoutIs
<1>3. 1 \in DOMAIN columns
  <2>1. columns # <<>>
    BY DEF HasColumns
  <2> QED
    BY <2>1, ColumnsAre
<1>4. Len(Bytes(row, 1)) \in Nat \ {0}
  BY <1>3, BytesType
<1>5. off[1] = 0 /\ off[1] + Len(Bytes(row, 1)) <= Len(d)
  BY <1>2, <1>3 DEF Layout
<1>6. Len(d) \in Nat /\ Len(d) # 0
  BY <1>4, <1>5
<1>7. BLOCK_SZ \in Nat
  BY TableAssumption, WeightsAre DEF TableAssumption
<1> QED
  BY <1>1, <1>6, <1>7 DEF RowBytes

LEMMA SameMarshal ==
  ASSUME columns' = columns, NEW row
  PROVE  marshal(row)' = marshal(row)
BY DEF marshal

\* insert: either the row is too long, or the block has one more.
LEMMA InsertIs ==
  ASSUME HasColumns, IInv, NEW row \in Inputs, Insert(row)
  PROVE  \/ overflow' /\ UNCHANGED <<num_records, header, end_free, bytes, overrun, columns, given>>
         \/ /\ ~lost /\ columns' = columns /\ overflow' = overflow
            /\ Names \subseteq DOMAIN row
            /\ validate(row) \in [Names -> Value]
            /\ Len(marshal(validate(row))) <= BLOCK_SZ
            /\ marshal(validate(row)) \in RowBytes
            /\ Page!Add(marshal(validate(row)))
            /\ given' = Append(given, validate(row))
<1>1. ~overflow /\ Names \subseteq DOMAIN row
  BY DEF Insert
<1>2. validate(row) \in [Names -> Value] /\ IsRow(validate(row))
  BY <1>1, ValidRow DEF IInv
<1>3. CASE Len(marshal(validate(row))) > BLOCK_SZ
  BY <1>3 DEF Insert, block
<1>4. CASE ~(Len(marshal(validate(row))) > BLOCK_SZ)
  <2>1. Len(marshal(validate(row))) <= BLOCK_SZ
    <3>1. Len(marshal(validate(row))) \in Nat
      BY <1>2, LayoutIs DEF IInv
    <3>2. BLOCK_SZ \in Nat
      BY TableAssumption, WeightsAre DEF TableAssumption
    <3> QED
      BY <1>4, <3>1, <3>2
  <2>2. marshal(validate(row)) \in RowBytes
    BY <1>2, <2>1, RowHasBytes DEF IInv
  <2>3. /\ Page!Add(marshal(validate(row))) /\ given' = Append(given, validate(row))
        /\ columns' = columns /\ overflow' = overflow
    BY <1>4 DEF Insert
  <2>4. ~overrun
    BY <2>3 DEF Page!Add
  <2> QED
    BY <1>1, <1>2, <2>1, <2>2, <2>3, <2>4 DEF lost
<1> QED
  BY <1>3, <1>4

LEMMA SameRows ==
  ASSUME IInv, UNCHANGED <<num_records, header, end_free, bytes, overrun, columns, given>>,
         overflow' \in BOOLEAN
  PROVE  IInv'
<1>1. Blocks!IInv'
  BY BlocksAssumptions, Blocks!StutterInv DEF IInv, Blocks!vars
<1>2. \A x : marshal(x)' = marshal(x)
  BY SameMarshal
<1>3. Names' = Names
  BY DEF Names
<1>4. \A id : (Page!Live(id)' <=> Page!Live(id)) /\ Page!Payload(id)' = Page!Payload(id)
  BY DEF Page!Live, Page!Payload
<1>5. \A id : marshal(given[id])' = marshal(given[id])
  BY DEF marshal
<1>6. RowsStored'
  BY <1>3, <1>4, <1>5 DEF IInv, RowsStored
<1> QED
  BY <1>1, <1>6 DEF IInv

LEMMA AddStep ==
  ASSUME IInv, NEW row \in [Names -> Value], Len(marshal(row)) <= BLOCK_SZ,
         marshal(row) \in RowBytes, Page!Add(marshal(row)), given' = Append(given, row),
         columns' = columns, overflow' \in BOOLEAN
  PROVE  IInv'
<1>1. /\ Blocks!IInv' /\ ~overrun
      /\ num_records \in Nat /\ num_records' = num_records + 1
      /\ ~overrun' =>
           /\ Keep(1 .. num_records)
           /\ \A n : n = num_records + 1 => Page!Live(n)' /\ Page!Payload(n)' = marshal(row)
  BY PageAdd DEF IInv
<1>2. given \in Seq([Names -> Value]) /\ Len(given) = num_records
  BY DEF IInv, RowsStored
<1>3. /\ given' \in Seq([Names -> Value]) /\ Len(given') = num_records + 1
      /\ DOMAIN given' = 1 .. num_records + 1
      /\ \A id \in 1 .. num_records : given'[id] = given[id]
      /\ given'[num_records + 1] = row
  BY <1>1, <1>2
<1>4. Names' = Names
  BY DEF Names
<1>5. ASSUME NEW id \in DOMAIN given'
      PROVE  /\ Len(marshal(given'[id])) <= BLOCK_SZ
             /\ ~overrun' /\ Page!Live(id)' => Page!Payload(id)' = marshal(given'[id])
  <2>1. CASE id \in 1 .. num_records
    <3>1. id \in DOMAIN given /\ given'[id] = given[id]
      BY <1>2, <1>3, <2>1
    <3>2. /\ Len(marshal(given[id])) <= BLOCK_SZ
          /\ Page!Live(id) => Page!Payload(id) = marshal(given[id])
      BY <1>1, <3>1 DEF IInv, RowsStored
    <3> QED
      BY <1>1, <2>1, <3>1, <3>2 DEF Keep
  <2>2. CASE id \notin 1 .. num_records
    <3>1. id = num_records + 1
      BY <1>1, <1>3, <2>2
    <3> QED
      BY <1>1, <1>3, <3>1
  <2> QED
    BY <2>1, <2>2
<1>6. \A id : marshal(given[id])' = marshal(given'[id])
  BY DEF marshal
<1>7. RowsStored'
  BY <1>1, <1>3, <1>4, <1>5, <1>6 DEF RowsStored
<1> QED
  BY <1>1, <1>7 DEF IInv

LEMMA DelStep ==
  ASSUME IInv, NEW id \in Page!RecordID, Delete(id)
  PROVE  IInv'
<1>1. id \in 1 .. num_records /\ Page!Del(id) /\ UNCHANGED <<columns, overflow, given>>
  BY DEF Delete, Page!RecordID
<1>2. /\ Blocks!IInv' /\ ~overrun /\ ~overrun'
      /\ num_records' = num_records
      /\ ~Page!Live(id)' /\ Keep(1 .. num_records \ {id})
  BY <1>1, PageDel DEF IInv
<1>3. Names' = Names
  BY <1>1 DEF Names
<1>4. \A i : marshal(given[i])' = marshal(given[i])
  BY <1>1 DEF marshal
<1>5. DOMAIN given = 1 .. num_records
  BY DEF IInv, RowsStored
<1>6. ASSUME NEW i \in DOMAIN given, Page!Live(i)'
      PROVE  Page!Payload(i)' = marshal(given[i])
  <2>1. i \in 1 .. num_records \ {id}
    BY <1>2, <1>5, <1>6
  <2>2. Page!Live(i) /\ Page!Payload(i)' = Page!Payload(i)
    BY <1>2, <1>6, <2>1 DEF Keep
  <2> QED
    BY <1>2, <2>2 DEF IInv, RowsStored
<1>7. RowsStored'
  BY <1>1, <1>2, <1>3, <1>4, <1>6 DEF IInv, RowsStored
<1> QED
  BY <1>1, <1>2, <1>7 DEF IInv

LEMMA StepInv ==
  ASSUME HasColumns, IInv, [Next]_vars
  PROVE  IInv'
<1>1. ASSUME NEW row \in Inputs, Insert(row) PROVE IInv'
  <2>1. overflow' \in BOOLEAN
    BY <1>1 DEF Insert, IInv
  <2>2. CASE overflow' /\ UNCHANGED <<num_records, header, end_free, bytes, overrun, columns, given>>
    BY <2>1, <2>2, SameRows
  <2>3. CASE /\ columns' = columns /\ validate(row) \in [Names -> Value]
             /\ Len(marshal(validate(row))) <= BLOCK_SZ
             /\ marshal(validate(row)) \in RowBytes
             /\ Page!Add(marshal(validate(row)))
             /\ given' = Append(given, validate(row))
    BY <2>1, <2>3, AddStep
  <2> QED
    BY <1>1, <2>2, <2>3, InsertIs
<1>2. ASSUME NEW id \in Page!RecordID, Delete(id) PROVE IInv'
  BY <1>2, DelStep
<1>3. CASE UNCHANGED vars
  BY <1>3, SameRows DEF vars, block, IInv
<1> QED
  BY <1>1, <1>2, <1>3 DEF Next

-----------------------------------------------------------------------------
(***************************************************************************)
(* What is read from a table.                                              *)
(***************************************************************************)
LEMMA NamesAre ==
  /\ NamesOf(columns) = Names
  /\ \A i \in DOMAIN columns : columns[i].name \in Names
  /\ \A c \in Names : \E i \in DOMAIN columns : columns[i].name = c
BY DEF Names, NamesOf

LEMMA KeptAt ==
  ASSUME columns \in ColumnLists, NEW row, NEW i \in DOMAIN columns
  PROVE  Kept(columns, row)[columns[i].name] =
           IF columns[i].data_type = "INT" THEN IntValue(row[columns[i].name].n)
           ELSE TextValue(row[columns[i].name].s)
<1> DEFINE c == columns[i].name
           IsInt == \E k \in DOMAIN columns : columns[k] = [name |-> c, data_type |-> "INT"]
<1>1. Kept(columns, row)[c] = IF IsInt THEN IntValue(row[c].n) ELSE TextValue(row[c].s)
  BY NamesAre DEF Kept
<1>2. \A k \in DOMAIN columns :
        columns[k] = [name |-> columns[k].name, data_type |-> columns[k].data_type]
  <2>1. \A x \in Column : x = [name |-> x.name, data_type |-> x.data_type]
    BY DEF Column
  <2>2. \A k \in DOMAIN columns : columns[k] \in Column
    BY ColumnsAre
  <2> QED
    BY <2>1, <2>2
<1>3. IsInt <=> columns[i].data_type = "INT"
  <2>1. ASSUME IsInt PROVE columns[i].data_type = "INT"
    <3>1. PICK k \in DOMAIN columns : columns[k] = [name |-> c, data_type |-> "INT"]
      BY <2>1
    <3>2. columns[k].name = c /\ columns[k].data_type = "INT"
      BY <3>1
    <3>3. k = i
      BY <3>2, ColumnsAre
    <3> QED
      BY <3>2, <3>3
  <2>2. ASSUME columns[i].data_type = "INT" PROVE IsInt
    BY <1>2, <2>2
  <2> QED
    BY <2>1, <2>2
<1> QED
  BY <1>1, <1>3

LEMMA ReadIs ==
  ASSUME NEW data_type, NEW v
  PROVE  /\ Read(data_type, v).data_type = "INT"
         /\ data_type = "INT" => Read(data_type, v).n = v.n
         /\ data_type # "INT" => Read(data_type, v).n = 0 /\ Read(data_type, v).s = v.s
BY DEF Read, IntValue

\* A record that was not deleted is read from the bytes of its row.
LEMMA ProjectIs ==
  ASSUME IInv, ~overrun, NEW id \in Page!ids, NEW names
  PROVE  /\ id \in DOMAIN given /\ given[id] \in [Names -> Value]
         /\ DOMAIN project(id, names) = names \intersect Names
         /\ \A i \in DOMAIN columns :
              columns[i].name \in names =>
                project(id, names)[columns[i].name]
                  = Read(columns[i].data_type, given[id][columns[i].name])
<1>1. id \in 1 .. num_records /\ Page!Live(id)
  BY DEF Page!ids, Page!RecordID
<1>2. id \in DOMAIN given /\ given[id] \in [Names -> Value]
  BY <1>1 DEF IInv, RowsStored
<1>3. Page!Payload(id) = marshal(given[id]) /\ Len(marshal(given[id])) <= BLOCK_SZ
  BY <1>1, <1>2 DEF IInv, RowsStored
<1>4. IsRow(given[id]) /\ columns \in ColumnLists
  BY <1>2, RowsAreRows DEF IInv
<1> DEFINE row == unmarshal(Page!Payload(id))
<1>5. /\ DOMAIN row = Names
      /\ \A i \in DOMAIN columns :
           row[columns[i].name] = Read(columns[i].data_type, given[id][columns[i].name])
  BY <1>3, <1>4, UnmarshalIs
<1>6. project(id, names) = [c \in names \intersect DOMAIN row |-> row[c]]
  BY DEF project
<1> HIDE DEF row
<1> QED
  BY <1>2, <1>5, <1>6, NamesAre

LEMMA KeptIsRead ==
  ASSUME IInv, ~overrun, NEW id \in Page!ids
  PROVE  Kept(columns, project(id, Names)) = Kept(columns, given[id])
<1> DEFINE row == project(id, Names)
<1>1. ASSUME NEW i \in DOMAIN columns
      PROVE  Kept(columns, row)[columns[i].name] = Kept(columns, given[id])[columns[i].name]
  <2>1. row[columns[i].name] = Read(columns[i].data_type, given[id][columns[i].name])
    BY ProjectIs, NamesAre
  <2> HIDE DEF row
  <2>2. CASE columns[i].data_type = "INT"
    BY <2>1, <2>2, KeptAt, ReadIs DEF IInv
  <2>3. CASE columns[i].data_type # "INT"
    BY <2>1, <2>3, KeptAt, ReadIs DEF IInv
  <2> QED
    BY <2>2, <2>3
<1> HIDE DEF row
<1>2. \A c \in Names : Kept(columns, row)[c] = Kept(columns, given[id])[c]
  BY <1>1, NamesAre
<1>3. \A r : /\ DOMAIN Kept(columns, r) = Names
             /\ Kept(columns, r) = [c \in Names |-> Kept(columns, r)[c]]
  BY NamesAre DEF Kept
<1>4. Kept(columns, row) = Kept(columns, given[id])
  BY <1>2, <1>3
<1> QED
  BY <1>4 DEF row

LEMMA SelectedIs ==
  ASSUME IInv, ~overrun, NEW id \in Page!ids, NEW where
  PROVE  selected(id, where) <=> Matches(given[id], where)
<1> DEFINE row == project(id, DOMAIN where)
<1>1. DOMAIN row = (DOMAIN where) \intersect Names
  BY ProjectIs
<1>2. ASSUME NEW i \in DOMAIN columns, columns[i].name \in DOMAIN where
      PROVE  ValueEq(row[columns[i].name], where[columns[i].name])
               <=> /\ where[columns[i].name].data_type = "INT"
                   /\ where[columns[i].name].n = Kept(columns, given[id])[columns[i].name].n
  <2>1. row[columns[i].name] = Read(columns[i].data_type, given[id][columns[i].name])
    BY <1>2, ProjectIs
  <2> HIDE DEF row
  <2>2. row[columns[i].name].data_type = "INT"
    BY <2>1, ReadIs
  <2>3. row[columns[i].name].n = Kept(columns, given[id])[columns[i].name].n
    <3>1. CASE columns[i].data_type = "INT"
      <4>1. Kept(columns, given[id])[columns[i].name] = IntValue(given[id][columns[i].name].n)
        BY <3>1, KeptAt DEF IInv
      <4>2. row[columns[i].name].n = given[id][columns[i].name].n
        BY <2>1, <3>1, ReadIs
      <4> QED
        BY <4>1, <4>2 DEF IntValue
    <3>2. CASE columns[i].data_type # "INT"
      <4>1. Kept(columns, given[id])[columns[i].name] = TextValue(given[id][columns[i].name].s)
        BY <3>2, KeptAt DEF IInv
      <4>2. row[columns[i].name].n = 0
        BY <2>1, <3>2, ReadIs
      <4> QED
        BY <4>1, <4>2 DEF TextValue
    <3> QED
      BY <3>1, <3>2
  <2> QED
    BY <2>2, <2>3 DEF ValueEq
<1>3. selected(id, where) <=>
        DOMAIN row = DOMAIN where /\ \A c \in DOMAIN where : ValueEq(row[c], where[c])
  BY DEF selected
<1> HIDE DEF row
<1>4. \A c \in DOMAIN where : c \in Names =>
        (ValueEq(row[c], where[c])
           <=> where[c].data_type = "INT" /\ where[c].n = Kept(columns, given[id])[c].n)
  BY <1>2, NamesAre
<1> QED
  BY <1>1, <1>3, <1>4 DEF Matches

LEMMA InvReadsBack == IInv => ReadsBack
BY KeptIsRead DEF ReadsBack, SelectAll, lost

LEMMA InvSelects == IInv => SelectsMatches
BY SelectedIs DEF SelectsMatches, select, SelectAll, lost

LEMMA InvType == IInv => TypeOK
<1> SUFFICES ASSUME IInv PROVE TypeOK
  OBVIOUS
<1>1. Page!TypeOK
  BY BlocksBridge DEF IInv, Blocks!IInv
<1> QED
  BY <1>1 DEF TypeOK, IInv, RowsStored

-----------------------------------------------------------------------------
(***************************************************************************)
(* The table implements RowStore.                                          *)
(***************************************************************************)

\* The refinement mapping: Table's handles and rows.
Seen(id) == IF Page!Live(id) THEN Kept(columns, project(id, Names)) ELSE NoRow
AbsHandles == IF lost THEN 0 ELSE num_records
AbsRows == [id \in 1 .. AbsHandles |-> Seen(id)]

\* What is seen of the table, said of the rows as they were given.
RowsSeen ==
  ~overrun => \A id \in 1 .. num_records :
                Seen(id) = IF Page!Live(id) THEN Kept(columns, given[id]) ELSE NoRow

LEMMA InvSeen == IInv => RowsSeen
<1> SUFFICES ASSUME IInv, ~overrun, NEW id \in 1 .. num_records, Page!Live(id)
             PROVE  Seen(id) = Kept(columns, given[id])
  BY DEF RowsSeen, Seen
<1>1. id \in Page!ids
  BY DEF Page!ids, Page!RecordID
<1> QED
  BY <1>1, KeptIsRead DEF Seen

LEMMA InitTable ==
  ASSUME Init
  PROVE  Table!Init
<1>1. num_records = 0 /\ overflow = FALSE /\ overrun = FALSE
  BY DEF Init, Page!Init
<1>2. AbsHandles = 0 /\ lost = FALSE
  BY <1>1 DEF AbsHandles, lost
<1>3. AbsRows = [h \in 1 .. 0 |-> NoRow]
  BY <1>2 DEF AbsRows
<1> QED
  BY <1>2, <1>3 DEF Table!Init, AbsHandles, AbsRows, Seen

LEMMA InsertRefines ==
  ASSUME HasColumns, IInv, IInv', NEW row \in Inputs, Insert(row), ~lost, ~lost'
  PROVE  Table!Insert(Kept(columns, row)) /\ Kept(columns, row) \in KeptRows
<1>1. /\ ~overrun /\ ~overrun' /\ columns' = columns
      /\ Names \subseteq DOMAIN row
      /\ given' = Append(given, validate(row))
      /\ validate(row) \in [Names -> Value]
      /\ marshal(validate(row)) \in RowBytes /\ Page!Add(marshal(validate(row)))
  BY InsertIs DEF lost
<1>2. /\ num_records \in Nat /\ num_records' = num_records + 1
      /\ Keep(1 .. num_records)
      /\ \A n : n = num_records + 1 => Page!Live(n)'
  BY <1>1, PageAdd DEF IInv
<1>3. given \in Seq([Names -> Value]) /\ Len(given) = num_records
  BY DEF IInv, RowsStored
<1>4. /\ \A id \in 1 .. num_records : given'[id] = given[id]
      /\ given'[num_records + 1] = validate(row)
  BY <1>1, <1>2, <1>3
<1>5. RowsSeen /\ RowsSeen'
  BY InvSeen, PTL
<1>6. Kept(columns, validate(row)) = Kept(columns, row)
  BY NamesAre DEF Kept, validate
<1>7. ASSUME NEW id \in 1 .. num_records + 1
      PROVE  Seen(id)' = IF id <= num_records THEN AbsRows[id] ELSE Kept(columns, row)
  <2>1. id \in 1 .. num_records'
    BY <1>2
  <2>2. Seen(id)' = IF Page!Live(id)' THEN Kept(columns, given'[id]) ELSE NoRow
    BY <1>1, <1>5, <2>1 DEF RowsSeen, Kept
  <2>3. CASE id \in 1 .. num_records
    <3>1. Seen(id) = IF Page!Live(id) THEN Kept(columns, given[id]) ELSE NoRow
      BY <1>1, <1>5, <2>3 DEF RowsSeen
    <3>2. Seen(id)' = Seen(id)
      BY <1>2, <1>4, <2>2, <2>3, <3>1 DEF Keep
    <3>3. AbsRows[id] = Seen(id)
      BY <2>3 DEF AbsRows, AbsHandles
    <3> QED
      BY <2>3, <3>2, <3>3
  <2>4. CASE id \notin 1 .. num_records
    <3>1. id = num_records + 1 /\ ~(id <= num_records)
      BY <1>2, <2>4
    <3> QED
      BY <1>2, <1>4, <1>6, <2>2, <3>1
  <2> QED
    BY <2>3, <2>4
<1>8. AbsHandles = num_records /\ AbsHandles' = num_records + 1
  BY <1>2 DEF AbsHandles
<1>9. AbsRows' = [h \in 1 .. num_records + 1 |->
                   IF h <= num_records THEN AbsRows[h] ELSE Kept(columns, row)]
  BY <1>7, <1>8 DEF AbsRows
<1>10. Table!Insert(Kept(columns, row))
  <2>1. lost' = lost
    BY DEF lost
  <2> QED
    BY <1>8, <1>9, <2>1 DEF Table!Insert, AbsHandles, AbsRows, Seen
<1>11. Kept(columns, row) \in KeptRows
  BY <1>1, NamesAre DEF IInv, KeptRows
<1> QED
  BY <1>10, <1>11

LEMMA DeleteRefines ==
  ASSUME IInv, IInv', NEW id \in Page!RecordID, Delete(id)
  PROVE  Table!Delete(id) /\ id \in 1 .. AbsHandles
<1>1. /\ id \in 1 .. num_records /\ Page!Del(id) /\ columns' = columns
      /\ ~overflow /\ overflow' = overflow /\ given' = given
  BY DEF Delete, Page!RecordID
<1>2. /\ ~overrun /\ ~overrun' /\ num_records' = num_records
      /\ ~Page!Live(id)' /\ Keep(1 .. num_records \ {id})
  BY <1>1, PageDel DEF IInv
<1>3. RowsSeen /\ RowsSeen'
  BY InvSeen, PTL
<1>4. /\ ~lost /\ ~lost' /\ AbsHandles = num_records /\ AbsHandles' = num_records
  BY <1>1, <1>2 DEF lost, AbsHandles
<1>5. Seen(id)' = NoRow
  BY <1>2 DEF Seen
<1>6. ASSUME NEW i \in 1 .. num_records \ {id} PROVE Seen(i)' = Seen(i)
  <2>1. Seen(i)' = IF Page!Live(i)' THEN Kept(columns, given[i]) ELSE NoRow
    BY <1>1, <1>2, <1>3 DEF RowsSeen, Kept
  <2>2. Seen(i) = IF Page!Live(i) THEN Kept(columns, given[i]) ELSE NoRow
    BY <1>2, <1>3 DEF RowsSeen
  <2> QED
    BY <1>2, <2>1, <2>2 DEF Keep
<1>7. AbsRows' = [AbsRows EXCEPT ![id] = NoRow]
  BY <1>1, <1>4, <1>5, <1>6 DEF AbsRows
<1>8. lost' = lost
  BY <1>1, <1>2 DEF lost
<1> QED
  BY <1>1, <1>4, <1>7, <1>8 DEF Table!Delete, AbsHandles, AbsRows, Seen

LEMMA LoseRefines ==
  ASSUME ~lost, lost', lost' \in BOOLEAN
  PROVE  Table!Lose
<1>1. AbsHandles' = 0
  BY DEF AbsHandles
<1>2. AbsRows' = [h \in 1 .. 0 |-> NoRow]
  BY <1>1 DEF AbsRows
<1>3. lost' = TRUE
  OBVIOUS
<1> QED
  BY <1>1, <1>2, <1>3 DEF Table!Lose, AbsHandles, AbsRows, Seen

\* A lost table stays lost.
LEMMA LostRefines ==
  ASSUME lost, lost', lost \in BOOLEAN, lost' \in BOOLEAN
  PROVE  UNCHANGED Table!vars
<1>1. AbsHandles = 0 /\ AbsHandles' = 0
  BY DEF AbsHandles
<1>2. AbsRows = [h \in 1 .. 0 |-> NoRow] /\ AbsRows' = [h \in 1 .. 0 |-> NoRow]
  BY <1>1 DEF AbsRows
<1>3. lost' = lost
  OBVIOUS
<1> QED
  BY <1>1, <1>2, <1>3 DEF Table!vars, AbsHandles, AbsRows, Seen

LEMMA StutterRefines ==
  ASSUME UNCHANGED vars
  PROVE  UNCHANGED Table!vars
<1>1. lost' = lost /\ AbsHandles' = AbsHandles
  BY DEF vars, block, lost, AbsHandles
<1>2. \A id : Seen(id)' = Seen(id)
  <2>1. Names' = Names
    BY DEF vars, Names
  <2>2. \A id : (Page!Live(id)' <=> Page!Live(id)) /\ Page!Payload(id)' = Page!Payload(id)
    BY DEF vars, block, Page!Live, Page!Payload
  <2>3. \A d : unmarshal(d)' = unmarshal(d)
    BY DEF vars, unmarshal, FieldOffset, Names
  <2>4. \A id : project(id, Names)' = project(id, Names)
    BY <2>1, <2>2, <2>3 DEF project
  <2> QED
    BY <2>2, <2>4 DEF Seen, Kept, vars
<1>3. AbsRows' = AbsRows
  BY <1>1, <1>2 DEF AbsRows
<1> QED
  BY <1>1, <1>3 DEF Table!vars, AbsHandles, AbsRows, Seen

LEMMA TableStep ==
  ASSUME HasColumns, IInv, [Next]_vars
  PROVE  [Table!Next]_(Table!vars)
<1>1. IInv'
  BY StepInv
<1>2. lost \in BOOLEAN /\ lost' \in BOOLEAN
  BY DEF lost
<1>3. ASSUME NEW row \in Inputs, Insert(row) PROVE [Table!Next]_(Table!vars)
  <2>1. CASE lost
    <3>1. lost'
      BY <1>3, <2>1, InsertIs DEF lost
    <3> QED
      BY <1>2, <2>1, <3>1, LostRefines
  <2>2. CASE ~lost /\ lost'
    BY <1>2, <2>2, LoseRefines DEF Table!Next
  <2>3. CASE ~lost /\ ~lost'
    BY <1>1, <1>3, <2>3, InsertRefines DEF Table!Next
  <2> QED
    BY <1>2, <2>1, <2>2, <2>3
<1>4. ASSUME NEW id \in Page!RecordID, Delete(id) PROVE Table!Next
  BY <1>1, <1>4, DeleteRefines DEF Table!Next, AbsHandles
<1>5. CASE UNCHANGED vars
  BY <1>5, StutterRefines
<1> QED
  BY <1>3, <1>4, <1>5 DEF Next

-----------------------------------------------------------------------------
(***************************************************************************)
(* Theorems.                                                               *)
(***************************************************************************)

\* In every reachable state the page is whole and every live record of it holds
\* the bytes marshal made of the row given with that record (insert and del of
\* class BTTable, on a SlottedPage).
THEOREM InductiveInvariant == HasColumns => (Spec => []IInv)
<1> SUFFICES ASSUME HasColumns PROVE Spec => []IInv
  OBVIOUS
<1>1. IInv /\ [Next]_vars => IInv'
  BY StepInv
<1> QED
  BY InitInv, <1>1, PTL DEF Spec

\* A table's state has its type, and there is a row given for every record.
THEOREM TypeCorrect == HasColumns => (Spec => []TypeOK)
BY InductiveInvariant, InvType, PTL

\* A row reads back as what the columns keep of the row given to its insert
\* (marshal and unmarshal are inverse to each other as far as the column's type
\* tells, in every order and number of columns, and whatever is deleted between).
THEOREM RowsReadBack == HasColumns => (Spec => []ReadsBack)
BY InductiveInvariant, InvReadsBack, PTL

\* select(where) selects the rows that match where as the rows were given, with
\* every value read taken for an integer (unmarshal leaves data_type at INT).
THEOREM SelectsAsSaid == HasColumns => (Spec => []SelectsMatches)
BY InductiveInvariant, InvSelects, PTL

\* BTTable, with rows in bytes on a page, implements RowStore, with rows under
\* handles: an insert or a del of a table does what a user of DbRelation sees, or
\* loses the table when the page takes more than it holds.
THEOREM TableImplementsRows == HasColumns => (Spec => ImplementsRowStore)
<1> SUFFICES ASSUME HasColumns PROVE Spec => ImplementsRowStore
  OBVIOUS
<1>1. Init => Table!Init
  BY InitTable
<1>2. IInv /\ [Next]_vars => [Table!Next]_(Table!vars)
  BY TableStep
<1>3. Spec => []IInv
  BY InductiveInvariant
<1> QED
  BY <1>1, <1>2, <1>3, PTL DEF Spec, ImplementsRowStore, Table!Spec

=============================================================================
