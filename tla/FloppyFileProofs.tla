-------------------------- MODULE FloppyFileProofs --------------------------
(***************************************************************************)
(* Proofs about the floppy drive as a file: for every geometry that fits   *)
(* the registers, a read on one track that fits in the DMA buffer is       *)
(* exact.                                                                  *)
(***************************************************************************)
EXTENDS FloppyFile, Division

-----------------------------------------------------------------------------
(* A track has bytes.                                                      *)
LEMMA TrackIsPositive ==
  ASSUME Fits
  PROVE  TrackBytes \in Nat \ {0}
<1>1. SECTORS_PER_TRACK * SECTOR_SIZE \in Nat /\ 1 * SECTOR_SIZE <= SECTORS_PER_TRACK * SECTOR_SIZE
  BY ProductOrder DEF Fits
<1> QED  BY <1>1 DEF Fits, TrackBytes

(* A supported read stays on the disk.                                     *)
LEMMA OnDisk ==
  ASSUME Fits, NEW c \in Nat, NEW n \in Nat, Supported(c, n)
  PROVE  /\ TrackBytes \in Nat \ {0} /\ c \div TrackBytes \in Nat
         /\ c \div TrackBytes < 2 * Cylinders
         /\ TrackBytes * (c \div TrackBytes) <= c
         /\ n > 0 /\ c + n <= (c \div TrackBytes + 1) * TrackBytes
         /\ (c \div TrackBytes + 1) * TrackBytes < WordLimit
<1>1. TrackBytes \in Nat \ {0}  BY TrackIsPositive
<1> DEFINE track == c \div TrackBytes
<1>2. track \in Nat /\ TrackBytes * track <= c
  <2>1. track \in Nat /\ c % TrackBytes \in 0 .. TrackBytes - 1
        /\ c = TrackBytes * track + (c % TrackBytes)
    BY <1>1, DivMod
  <2>2. TrackBytes * track \in Nat  BY <1>1, <2>1
  <2> QED  BY <2>1, <2>2
<1>3. track < 2 * Cylinders /\ n > 0 /\ c + n <= (track + 1) * TrackBytes
  BY DEF Supported
<1> HIDE DEF track
<1>4. (track + 1) * TrackBytes <= (2 * Cylinders) * TrackBytes
  BY <1>1, <1>2, <1>3, ProductOrder DEF Fits
<1>5. (track + 1) * TrackBytes \in Nat /\ (2 * Cylinders) * TrackBytes \in Nat
  BY <1>1, <1>2 DEF Fits
<1>6. (track + 1) * TrackBytes < WordLimit  BY <1>4, <1>5 DEF Fits
<1> QED  BY <1>1, <1>2, <1>3, <1>6 DEF track

(* The sectors of a range start with the one of its first byte, reach its  *)
(* last byte, and are no more than that takes (for_byte_range).            *)
LEMMA SectorsOfRange ==
  ASSUME Fits, NEW c \in Nat, NEW n \in Nat, c + n < WordLimit, n > 0
  PROVE  LET b == c \div SECTOR_SIZE
             sectors == for_byte_range(c, n)
         IN  /\ b \in Nat /\ b * SECTOR_SIZE <= c /\ sectors.first = b
             /\ c - (c % SECTOR_SIZE) = b * SECTOR_SIZE
             /\ sectors.count \in Nat
             /\ c + n <= b * SECTOR_SIZE + sectors.count * SECTOR_SIZE
             /\ b * SECTOR_SIZE + sectors.count * SECTOR_SIZE < c + n + SECTOR_SIZE
<1> DEFINE S == SECTOR_SIZE  b == c \div S  e == c + n  k == e \div S  r == e % S
           sectors == for_byte_range(c, n)
<1>1. S \in Nat \ {0}  BY DEF Fits
<1>2. b \in Nat /\ c % S \in 0 .. S - 1 /\ c = S * b + (c % S)  BY <1>1, DivMod
<1>3. e \in Nat /\ e < WordLimit /\ WordLimit \in Nat  BY DEF Fits
<1>4. k \in Nat /\ r \in 0 .. S - 1 /\ e = S * k + r  BY <1>1, <1>3, DivMod
<1>5. S * b \in Nat /\ S * k \in Nat /\ S * b = b * S /\ S * k = k * S  BY <1>1, <1>2, <1>4
<1>6. c - (c % S) = S * b /\ S * b <= c  BY <1>2, <1>5
<1>7. (S * b) \div S = b
  <2>1. S * b = S * b + 0 /\ 0 \in 0 .. S - 1  BY <1>1, <1>5
  <2> QED  BY <1>1, <1>2, <1>5, <2>1, DivUnique
<1>8. (c + n) % WordLimit = e  BY <1>3
<1>9. e - S * b \in Nat /\ (e - S * b) % WordLimit = e - S * b
  <2>1. e - S * b \in 0 .. WordLimit - 1  BY <1>3, <1>5, <1>6
  <2> QED  BY <1>3, <2>1
<1>10. b <= k
  <2>1. b * S < (k + 1) * S
    <3>1. (k + 1) * S = S * k + S  BY <1>1, <1>4
    <3> QED  BY <1>1, <1>3, <1>4, <1>5, <1>6, <3>1
  <2>2. b < k + 1  BY <1>1, <1>2, <1>4, <2>1, ProductOrder
  <2> QED  BY <1>2, <1>4, <2>2
<1>11. (e - S * b) \div S = k - b
  <2>1. k - b \in Nat /\ S * (k - b) = S * k - S * b  BY <1>1, <1>2, <1>4, <1>10
  <2>2. e - S * b = S * (k - b) + r  BY <1>4, <1>5, <2>1
  <2> QED  BY <1>1, <1>4, <1>9, <2>1, <2>2, DivUnique
<1>12. sectors.first = b /\ sectors.count = k - b + (IF r # 0 THEN 1 ELSE 0)
  <2>1. sectors = [first |-> (c - (c % S)) \div S,
                   count |-> ((((c + n) % WordLimit) - (c - (c % S))) % WordLimit) \div S
                               + (IF ((c + n) % WordLimit) % S # 0 THEN 1 ELSE 0)]
    BY DEF for_byte_range
  <2> HIDE DEF sectors, S, b, e, k
  <2>2. sectors.first = b  BY <1>6, <1>7, <2>1
  <2>3. sectors.count = k - b + (IF r # 0 THEN 1 ELSE 0)
    BY <1>6, <1>8, <1>9, <1>11, <2>1
  <2> QED  BY <2>2, <2>3
<1> DEFINE x == sectors.count
<1>13. x \in Nat /\ (r = 0 => x = k - b) /\ (r # 0 => x = k - b + 1)
  BY <1>2, <1>4, <1>10, <1>12
<1> HIDE DEF S, b, e, k, r, x
<1>14. x * S \in Nat /\ (r = 0 => x * S = S * k - S * b) /\ (r # 0 => x * S = S * k - S * b + S)
  <2>1. (k - b) * S = S * k - S * b  BY <1>1, <1>2, <1>4
  <2>2. (k - b + 1) * S = S * k - S * b + S  BY <1>1, <1>2, <1>4
  <2>3. x * S \in Nat  BY <1>1, <1>13
  <2> QED  BY <1>13, <2>1, <2>2, <2>3
<1>15. e <= S * b + x * S /\ S * b + x * S < e + S
  BY <1>1, <1>4, <1>5, <1>14
<1> QED  BY <1>2, <1>5, <1>6, <1>12, <1>13, <1>15 DEF S, b, e, x

(* Sectors that start within a whole number of sectors, and reach less     *)
(* than one past its end, do not reach past it.                            *)
LEMMA NoSectorMore ==
  ASSUME NEW S \in Nat \ {0}, NEW b \in Nat, NEW x \in Nat, NEW m \in Nat,
         b * S + x * S < m * S + S
  PROVE  b * S + x * S <= m * S
<1>1. (b + x) * S = b * S + x * S /\ (m + 1) * S = m * S + S  OBVIOUS
<1>2. b + x < m + 1
  <2>1. (b + x) * S < (m + 1) * S  BY <1>1
  <2>2. b + x \in Nat /\ m + 1 \in Nat  OBVIOUS
  <2> QED  BY <2>1, <2>2, ProductOrder
<1>3. b + x <= m /\ b + x \in Nat  BY <1>2
<1>4. (b + x) * S <= m * S  BY <1>3, ProductOrder
<1> QED  BY <1>1, <1>4

(* A supported read needs no sector outside its track or past the buffer.  *)
LEMMA SectorsFit ==
  ASSUME Fits, NEW c \in Nat, NEW n \in Nat, Supported(c, n)
  PROVE  LET b == c \div SECTOR_SIZE
             bytes == for_byte_range(c, n).count * SECTOR_SIZE
             track == c \div TrackBytes
         IN  /\ bytes \in Nat /\ bytes <= DMA_SIZE
             /\ b * SECTOR_SIZE + bytes <= ((track + 1) * SECTORS_PER_TRACK) * SECTOR_SIZE
<1> DEFINE S == SECTOR_SIZE  b == c \div S  x == for_byte_range(c, n).count
           track == c \div TrackBytes  m == (track + 1) * SECTORS_PER_TRACK
           d == DMA_SIZE \div S
<1>1. S \in Nat \ {0} /\ SECTORS_PER_TRACK \in Nat \ {0} /\ DMA_SIZE \in Nat  BY DEF Fits
<1>2. /\ track \in Nat /\ n > 0 /\ c + n <= (track + 1) * TrackBytes
      /\ (track + 1) * TrackBytes < WordLimit
  BY OnDisk
<1>3. (track + 1) * TrackBytes \in Nat /\ WordLimit \in Nat
  BY <1>2, TrackIsPositive DEF Fits
<1>4. c + n < WordLimit  BY <1>2, <1>3
<1>5. /\ b \in Nat /\ x \in Nat /\ c - (c % S) = b * S
      /\ b * S + x * S < c + n + S
  BY <1>2, <1>4, SectorsOfRange
<1>6. m \in Nat /\ m * S = (track + 1) * TrackBytes
  BY <1>1, <1>2 DEF TrackBytes
<1>7. d \in Nat /\ DMA_SIZE = d * S
  <2>1. d \in Nat /\ DMA_SIZE = S * d + (DMA_SIZE % S)  BY <1>1, DivMod
  <2> QED  BY <1>1, <2>1 DEF Fits
<1>8. c + n <= b * S + d * S  BY <1>5, <1>7 DEF Supported
<1> HIDE DEF S, b, x, m, d, track
<1>9. b * S + x * S <= m * S
  <2>1. b * S \in Nat /\ x * S \in Nat /\ m * S \in Nat  BY <1>1, <1>5, <1>6
  <2>2. b * S + x * S < m * S + S  BY <1>1, <1>2, <1>5, <1>6, <2>1
  <2> QED  BY <1>1, <1>5, <1>6, <2>2, NoSectorMore
<1>10. x * S <= d * S
  <2>1. b * S \in Nat /\ x * S \in Nat /\ d * S \in Nat /\ (b + d) * S = b * S + d * S
        /\ b + d \in Nat
    BY <1>1, <1>5, <1>7
  <2>2. b * S + x * S < (b + d) * S + S  BY <1>1, <1>5, <1>8, <2>1
  <2>3. b * S + x * S <= (b + d) * S  BY <1>1, <1>5, <2>1, <2>2, NoSectorMore
  <2> QED  BY <2>1, <2>3
<1>11. x * S \in Nat  BY <1>1, <1>5
<1> QED  BY <1>7, <1>9, <1>10, <1>11 DEF S, b, x, m, d, track

(* Cylinder, head and sector address the right place, and the rest of its  *)
(* track is what is left of the track of the byte (to_chs, dma).           *)
LEMMA PlaceOfSector ==
  ASSUME Fits, NEW c \in Nat, NEW n \in Nat, Supported(c, n)
  PROVE  LET b == c \div SECTOR_SIZE
             track == c \div TrackBytes
             place == dma(to_chs(b))
         IN  /\ PositionOf(place) = b * SECTOR_SIZE
             /\ place.c < Cylinders /\ place.c \in Nat
             /\ (SECTORS_PER_TRACK - place.s + 1) * SECTOR_SIZE
                  = ((track + 1) * SECTORS_PER_TRACK) * SECTOR_SIZE - b * SECTOR_SIZE
<1> DEFINE S == SECTOR_SIZE  N == SECTORS_PER_TRACK  D == 2 * N
           b == c \div S  track == c \div TrackBytes
           cy == b \div D  m == b % D  h == m \div N  s == m % N
           place == dma(to_chs(b))
<1>1. /\ S \in Nat \ {0} /\ N \in Nat \ {0} /\ D \in Nat \ {0} /\ Cylinders \in Nat
      /\ ByteLimit \in Nat \ {0} /\ Cylinders <= ByteLimit
  BY DEF Fits
<1>2. b \in Nat /\ c = S * b + (c % S) /\ c % S \in 0 .. S - 1  BY <1>1, DivMod
<1>6. to_chs(b) = [c |-> cy, h |-> h, s |-> s + 1]  BY DEF to_chs
<1> HIDE DEF D, b
<1>0. m \in 0 .. D - 1 /\ cy \in Nat /\ b = D * cy + m  BY <1>1, <1>2, DivMod
<1>3. cy \in Nat /\ m \in Nat /\ b = D * cy + m  BY <1>0
<1>4. h \in Nat /\ s \in 0 .. N - 1 /\ m = N * h + s  BY <1>1, <1>3, DivMod
<1>5. /\ track \in Nat /\ track < 2 * Cylinders /\ TrackBytes * track <= c /\ n > 0
      /\ c + n <= (track + 1) * TrackBytes
  BY OnDisk
<1> HIDE DEF S, N, track, cy, m, h, s
<1>7. b = N * (2 * cy + h) + s /\ 2 * cy + h \in Nat
  <2>1. D * cy = N * (2 * cy)  BY <1>1, <1>3 DEF D
  <2>2. N * (2 * cy + h) = N * (2 * cy) + N * h  BY <1>1, <1>3, <1>4
  <2>3. N * (2 * cy) \in Nat /\ N * h \in Nat /\ 2 * cy + h \in Nat  BY <1>1, <1>3, <1>4
  <2> QED  BY <1>3, <1>4, <2>1, <2>2, <2>3
<1>8. TrackBytes = N * S  BY DEF TrackBytes, N, S
(* The track of the byte is the one that head and cylinder make.           *)
<1>9. track = 2 * cy + h
  <2> DEFINE t == 2 * cy + h
  <2>1. t \in Nat /\ b = N * t + s  BY <1>7
  <2> HIDE DEF t
  <2>2. t * TrackBytes <= c /\ c < (t + 1) * TrackBytes
    <3>1. N * t <= b /\ b + 1 <= N * (t + 1) /\ N * t \in Nat /\ N * (t + 1) \in Nat
      <4>1. N * (t + 1) = N * t + N /\ N * t \in Nat  BY <1>1, <2>1
      <4> QED  BY <1>1, <1>4, <2>1, <4>1
    <3>2. (N * t) * S <= b * S /\ (b + 1) * S <= (N * (t + 1)) * S
      BY <1>1, <1>2, <3>1, ProductOrder
    <3>3. (N * t) * S = t * TrackBytes /\ (N * (t + 1)) * S = (t + 1) * TrackBytes
      BY <1>1, <1>8, <2>1
    <3>4. b * S \in Nat /\ S * b = b * S /\ (b + 1) * S = b * S + S  BY <1>1, <1>2
    <3>5. t * TrackBytes \in Nat /\ (t + 1) * TrackBytes \in Nat
      BY <2>1, TrackIsPositive
    <3> QED  BY <1>1, <1>2, <3>2, <3>3, <3>4, <3>5
  <2>3. t < track + 1
    <3>1. t * TrackBytes < (track + 1) * TrackBytes
      <4>1. t * TrackBytes \in Nat /\ (track + 1) * TrackBytes \in Nat
        BY <1>5, <2>1, TrackIsPositive
      <4> QED  BY <1>5, <2>2, <4>1
    <3> QED  BY <1>5, <2>1, <3>1, TrackIsPositive, ProductOrder
  <2>4. track < t + 1
    <3>1. track * TrackBytes < (t + 1) * TrackBytes
      <4>1. TrackBytes * track = track * TrackBytes /\ track * TrackBytes \in Nat
            /\ (t + 1) * TrackBytes \in Nat
        BY <1>5, <2>1, TrackIsPositive
      <4> QED  BY <1>5, <2>2, <4>1
    <3> QED  BY <1>5, <2>1, <3>1, TrackIsPositive, ProductOrder
  <2>5. track = t  BY <1>5, <2>1, <2>3, <2>4
  <2> QED  BY <2>5 DEF t
<1>10. cy < Cylinders  BY <1>1, <1>3, <1>4, <1>5, <1>9
<1>11. cy % ByteLimit = cy
  <2>1. cy \in 0 .. ByteLimit - 1  BY <1>1, <1>3, <1>10
  <2> QED  BY <1>1, <2>1
<1>12. place.c = cy /\ place.h = h /\ place.s = s + 1
  BY <1>6, <1>11 DEF dma
<1> HIDE DEF place
<1>13. PositionOf(place) = b * S
  <2>1. PositionOf(place) = ((cy * 2 + h) * N + (s + 1) - 1) * S
    BY <1>12 DEF PositionOf, N, S
  <2>2. (cy * 2 + h) * N + (s + 1) - 1 = b  BY <1>1, <1>3, <1>4, <1>7
  <2> QED  BY <2>1, <2>2
<1>14. (N - place.s + 1) * S = ((track + 1) * N) * S - b * S
  <2>1. N - place.s + 1 = (track + 1) * N - b
    <3>1. (track + 1) * N = N * track + N  BY <1>1, <1>5
    <3> QED  BY <1>1, <1>3, <1>4, <1>5, <1>7, <1>9, <1>12, <3>1
  <2>2. ((track + 1) * N - b) * S = ((track + 1) * N) * S - b * S
    BY <1>1, <1>2, <1>5
  <2> QED  BY <2>1, <2>2
<1> QED  BY <1>3, <1>10, <1>12, <1>13, <1>14 DEF place, S, N, b, track

-----------------------------------------------------------------------------
(* A supported read transfers its sectors, and only them, and copies the   *)
(* bytes from the cursor on.                                               *)
LEMMA ReadIsExact ==
  ASSUME Fits, cursor \in Nat, NEW n \in Nat, Read(n), Supported(cursor, n)
  PROVE  /\ moved' <= DMA_SIZE
         /\ \A i \in 1 .. n : last'.data[i] = cursor + i - 1
<1> DEFINE S == SECTOR_SIZE  b == cursor \div S  track == cursor \div TrackBytes
           sectors == for_byte_range(cursor, n)
           bytes == sectors.count * S
           place == dma(to_chs(b))
           size == Transferred(place, set_count(sectors))
           offset == get_local_offset(sectors, cursor)
           end == ((track + 1) * SECTORS_PER_TRACK) * S
           filled == [i \in Cells |-> IF i < size THEN PositionOf(place) + i ELSE buf[i]]
<1>1. S \in Nat \ {0}  BY DEF Fits
<1>2. /\ track \in Nat /\ n > 0 /\ cursor + n < WordLimit /\ WordLimit \in Nat
      /\ end \in Nat /\ end < WordLimit
  <2>1. /\ track \in Nat /\ n > 0 /\ cursor + n <= (track + 1) * TrackBytes
        /\ (track + 1) * TrackBytes < WordLimit
    BY OnDisk
  <2>2. (track + 1) * TrackBytes \in Nat /\ end = (track + 1) * TrackBytes /\ WordLimit \in Nat
    BY <2>1 DEF Fits, TrackBytes
  <2> QED  BY <2>1, <2>2
<1>3. /\ b \in Nat /\ b * S <= cursor /\ sectors.first = b /\ sectors.count \in Nat
      /\ cursor + n <= b * S + bytes
  BY <1>2, SectorsOfRange
<1>4. bytes \in Nat /\ bytes <= DMA_SIZE /\ b * S + bytes <= end  BY SectorsFit
<1>5. /\ PositionOf(place) = b * S /\ place.c < Cylinders /\ place.c \in Nat
      /\ (SECTORS_PER_TRACK - place.s + 1) * S = end - b * S
  BY PlaceOfSector
<1>6. b * S \in Nat  BY <1>1, <1>3
(* Nothing is left of a track that is longer than a whole track.           *)
<1>7. end - b * S <= TrackBytes
  <2>0. SECTORS_PER_TRACK \in Nat /\ TrackBytes = SECTORS_PER_TRACK * S
    BY DEF Fits, TrackBytes
  <2>1. track * TrackBytes <= b * S
    <3>1. TrackBytes * track <= cursor  BY OnDisk
    <3>2. cursor < b * S + S
      <4>1. cursor = S * b + (cursor % S) /\ cursor % S \in 0 .. S - 1  BY <1>1, DivMod
      <4> QED  BY <1>1, <1>3, <4>1
    <3>3. track * SECTORS_PER_TRACK \in Nat
      BY <1>2 DEF Fits
    <3>4. (track * SECTORS_PER_TRACK) * S = TrackBytes * track
      <4> HIDE DEF track, S
      <4> QED  BY <1>1, <1>2, <2>0
    <3>5. (track * SECTORS_PER_TRACK) * S < (b + 1) * S
      <4>1. (b + 1) * S = b * S + S /\ (track * SECTORS_PER_TRACK) * S \in Nat
        BY <1>1, <1>3, <3>3
      <4> QED  BY <1>1, <1>6, <3>1, <3>2, <3>4, <4>1
    <3>6. track * SECTORS_PER_TRACK <= b
      <4>1. track * SECTORS_PER_TRACK < b + 1  BY <1>1, <1>3, <3>3, <3>5, ProductOrder
      <4> QED  BY <1>3, <3>3, <4>1
    <3>7. (track * SECTORS_PER_TRACK) * S <= b * S  BY <1>1, <1>3, <3>3, <3>6, ProductOrder
    <3>8. TrackBytes * track = track * TrackBytes  BY <1>2, TrackIsPositive
    <3> QED  BY <3>4, <3>7, <3>8
  <2>2. end = track * TrackBytes + TrackBytes
    <3> HIDE DEF track, S
    <3> QED  BY <1>1, <1>2, <2>0
  <2>3. track * TrackBytes \in Nat /\ TrackBytes \in Nat  BY <1>2, TrackIsPositive
  <2> QED  BY <1>6, <2>1, <2>2, <2>3
(* The count register holds the length, and the transfer stops at it.      *)
<1>8. size = bytes
  <2>1. bytes > 0  BY <1>2, <1>3, <1>4, <1>6
  <2>2. byte_length(sectors) = bytes
    <3>1. bytes \in 0 .. WordLimit - 1  BY <1>2, <1>4, <1>6
    <3>2. bytes % WordLimit = bytes  BY <1>2, <3>1
    <3> QED  BY <3>2 DEF byte_length
  <2>3. set_count(sectors) = bytes - 1
    <3>1. TrackBytes \in Nat /\ CountLimit \in Nat \ {0} /\ TrackBytes <= CountLimit
      BY TrackIsPositive DEF Fits
    <3>2. bytes - 1 \in 0 .. CountLimit - 1  BY <1>2, <1>4, <1>6, <1>7, <2>1, <3>1
    <3>3. (bytes - 1) % CountLimit = bytes - 1  BY <3>1, <3>2
    <3> QED  BY <2>2, <3>3 DEF set_count
  <2>4. Cylinders \in Nat  BY DEF Fits
  <2>5. size = IF bytes - 1 + 1 < end - b * S THEN bytes - 1 + 1 ELSE end - b * S
    BY <1>5, <2>3, <2>4 DEF Transferred
  <2> HIDE DEF size, bytes, end, b
  <2> QED  BY <1>2, <1>4, <1>6, <2>5
<1>9. offset = cursor - b * S
  <2>1. offset = IF cursor < b * S THEN 0 ELSE cursor - b * S
    BY <1>3 DEF get_local_offset
  <2> QED  BY <1>3, <1>6, <2>1
<1>10. /\ moved' = size
       /\ last'.data = [i \in 1 .. n |-> IF offset + i - 1 \in Cells
                                           THEN filled[offset + i - 1] ELSE -1]
  BY <1>3 DEF Read
<1>11. ASSUME NEW i \in 1 .. n  PROVE last'.data[i] = cursor + i - 1
  <2> DEFINE at == offset + i - 1
  <2>1. at \in Nat /\ at < bytes /\ at = cursor - b * S + i - 1
    <3> HIDE DEF bytes, offset, b
    <3> QED  BY <1>3, <1>4, <1>6, <1>9
  <2>2. at \in Cells
    <3>1. TrackBytes \in Nat /\ bytes <= TrackBytes
      <4>1. TrackBytes \in Nat  BY TrackIsPositive
      <4> HIDE DEF bytes, end, b
      <4> QED  BY <1>2, <1>4, <1>6, <1>7, <4>1
    <3> HIDE DEF at, bytes
    <3> QED  BY <1>4, <2>1, <3>1 DEF Cells
  <2>3. filled[at] = b * S + at
    <3> HIDE DEF at, size, bytes
    <3> QED  BY <1>5, <1>8, <2>1, <2>2
  <2>4. last'.data[i] = filled[at]  BY <1>10, <2>2
  <2> HIDE DEF filled, at, b
  <2> QED  BY <1>6, <2>1, <2>3, <2>4
<1> HIDE DEF size, bytes
<1> QED  BY <1>4, <1>8, <1>10, <1>11

-----------------------------------------------------------------------------
(* The inductive invariant: the cursor is a word, and the latest read was  *)
(* exact if it was supported.                                              *)
IInv == cursor \in Nat /\ last.length \in Nat /\ SupportedReadsExact

(* A call that is no read leaves nothing to speak of.                      *)
LEMMA NoReadIsExact ==
  ASSUME last' = NoRead
  PROVE  last'.length = 0 /\ SupportedReadsExact'
BY DEF NoRead, SupportedReadsExact, Supported

(* Every step keeps the invariant.                                         *)
LEMMA StepKeeps ==
  ASSUME Fits, IInv, [Next]_vars
  PROVE  IInv'
<1>1. CASE open
  BY <1>1, NoReadIsExact DEF open, IInv
<1>2. CASE close
  BY <1>2, NoReadIsExact DEF close, IInv
<1>3. CASE seek
  <2>1. ASSUME NEW off \in Offsets  PROVE Relative(off) \in Nat
    <3> DEFINE sum == Signed(cursor) + Signed(off)
               high == WordLimit \div 2 - 1
               to == IF sum > high THEN high ELSE IF sum < -high - 1 THEN -high - 1 ELSE sum
    <3>1. WordLimit \in Nat \ {0} /\ off \in Nat /\ cursor \in Nat  BY DEF Fits, IInv
    <3>2. Signed(cursor) \in Int /\ Signed(off) \in Int  BY <3>1 DEF Signed
    <3>3. to \in Int  BY <3>1, <3>2
    <3>4. Relative(off) = to % WordLimit  BY DEF Relative
    <3> HIDE DEF to
    <3> QED  BY <3>1, <3>3, <3>4
  <2>2. cursor' \in Nat  BY <1>3, <2>1 DEF seek, Fits
  <2> QED  BY <1>3, <2>2, NoReadIsExact DEF seek, IInv
<1>4. ASSUME NEW n \in Lengths, Read(n)  PROVE IInv'
  <2>1. n \in Nat /\ cursor \in Nat /\ WordLimit \in Nat \ {0}  BY DEF Fits, IInv
  <2>2. cursor' \in Nat
    <3>1. cursor' = (cursor + n) % WordLimit  BY <1>4 DEF Read
    <3> QED  BY <2>1, <3>1
  <2>3. last'.start = cursor /\ last'.length = n  BY <1>4 DEF Read
  <2>4. SupportedReadsExact'
    BY <1>4, <2>1, <2>3, ReadIsExact DEF SupportedReadsExact, Supported
  <2> QED  BY <2>1, <2>2, <2>3, <2>4 DEF IInv
<1>5. CASE UNCHANGED vars
  BY <1>5 DEF vars, IInv, SupportedReadsExact, Supported
<1> QED  BY <1>1, <1>2, <1>3, <1>4, <1>5 DEF Next

(* For every geometry that fits the registers, and after any sequence of   *)
(* opens, closes, seeks and reads: a read that lies on one track and fits  *)
(* in the DMA buffer returns the bytes of the disk from the cursor on, and *)
(* the transfer stays inside the buffer (FloppyDevice::read).              *)
THEOREM ReadsAreExact ==
  ASSUME Fits
  PROVE  Spec => []SupportedReadsExact
<1>1. Init => IInv
  BY DEF Init, IInv, NoRead, SupportedReadsExact, Supported
<1>2. IInv /\ [Next]_vars => IInv'  BY StepKeeps
<1>3. IInv => SupportedReadsExact  BY DEF IInv
<1> QED  BY <1>1, <1>2, <1>3, PTL DEF Spec
=============================================================================
