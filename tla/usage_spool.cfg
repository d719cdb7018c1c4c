\* Two rows of the platform and one of another process, a spool of one, batches
\* of two; an upload of a text, and a crash.
CONSTANTS
    Propias = {f1, f2}
    Ajenas = {g1}
    Libre = Libre
    Drenador = Drenador
    Tope = 1
    Lote = 2
    MaxIntentos = 2
    MaxSucesos = 4
    Subidas = {a1}
    Imagenes = {}
    Tamano <- DosBytes
    Cuota = 2
    Ninguna = Ninguna
    MaxMuertes = 1
SPECIFICATION FicherosSpec
PROPERTIES
    CumpleElLibro
    LaColaSeVacia
    TodoSeRecoge
